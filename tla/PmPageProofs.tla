----------------------------- MODULE PmPageProofs ---------------------------
(***************************************************************************)
(* The routines that work on the bytes of a page, for every page.  What a  *)
(* recursive function computes is proved by induction, from the fact that  *)
(* a set of naturals has a least element.                                  *)
(***************************************************************************)
EXTENDS PmBytes, WellFoundedInduction, SequenceTheorems, TLAPS

(***************************************************************************)
(* Induction over an interval, and recursion over one.                     *)
(***************************************************************************)
(* A set of naturals that is not empty has a least element.                *)
LEMMA LeastElement ==
  ASSUME NEW S, S \subseteq Nat, S # {}
  PROVE  \E x \in S : \A y \in S : x <= y
<1>1. IsWellFoundedOn(OpToRel(<, Nat), Nat)
  BY NatLessThanWellFounded
<1>2. PICK x \in S : \A y \in S : ~(<<y, x>> \in OpToRel(<, Nat))
  BY <1>1, WFMin
<1>3. \A y \in S : ~(y < x)
  BY <1>2 DEF OpToRel
<1> QED
  BY <1>3

(* What holds at the start, and at i if at i - 1, holds all along.         *)
LEMMA IntervalInduction ==
  ASSUME NEW lo \in Int, NEW hi \in Int, NEW S,
         lo \in S, \A i \in (lo + 1)..hi : i - 1 \in S => i \in S
  PROVE  lo..hi \subseteq S
<1> DEFINE Bad == {n \in Nat : lo + n \in (lo..hi) \ S}
<1>1. SUFFICES ASSUME Bad # {} PROVE FALSE
  <2> SUFFICES ASSUME NEW i \in lo..hi, i \notin S PROVE Bad # {}
    OBVIOUS
  <2>1. i - lo \in Bad
    OBVIOUS
  <2> QED
    BY <2>1
<1>2. PICK x \in Bad : \A y \in Bad : x <= y
  BY <1>1, LeastElement
<1>3. x # 0
  BY <1>2
<1>4. x - 1 \notin Bad
  BY <1>2
<1>5. lo + x - 1 \in S
  BY <1>2, <1>3, <1>4
<1> QED
  BY <1>2, <1>3, <1>5

(* v is the recursion with this first value and this step.                 *)
Solves(v, lo, hi, base, step) ==
  /\ v[lo] = base
  /\ \A i \in (lo + 1)..hi : v[i] = step[<<v[i - 1], i>>]

(* There is one.                                                           *)
LEMMA Recursion ==
  ASSUME NEW lo \in Int, NEW hi \in Int, lo <= hi, NEW D, NEW base \in D,
         NEW step \in [D \X ((lo + 1)..hi) -> D]
  PROVE  \E v \in [lo..hi -> D] : Solves(v, lo, hi, base, step)
<1> DEFINE S == {k \in lo..hi :
                   \E v \in [lo..hi -> D] : Solves(v, lo, k, base, step)}
<1>1. lo \in S
  <2>1. Solves([i \in lo..hi |-> base], lo, lo, base, step)
    BY DEF Solves
  <2> QED
    BY <2>1
<1>2. ASSUME NEW k \in (lo + 1)..hi, k - 1 \in S PROVE k \in S
  <2>1. PICK v \in [lo..hi -> D] : Solves(v, lo, k - 1, base, step)
    BY <1>2
  <2> DEFINE w == [v EXCEPT ![k] = step[<<v[k - 1], k>>]]
  <2>2. v[k - 1] \in D
    OBVIOUS
  <2>3. step[<<v[k - 1], k>>] \in D
    BY <2>2
  <2>4. w \in [lo..hi -> D]
    BY <2>3
  <2>5. Solves(w, lo, k, base, step)
    <3>1. w[lo] = base
      BY <2>1 DEF Solves
    <3>2. ASSUME NEW i \in (lo + 1)..k PROVE w[i] = step[<<w[i - 1], i>>]
      <4>1. w[i - 1] = v[i - 1]
        OBVIOUS
      <4>2. CASE i = k
        <5>1. w[k] = step[<<v[k - 1], k>>]
          OBVIOUS
        <5> HIDE DEF w
        <5> QED
          BY <4>1, <4>2, <5>1
      <4>3. CASE i # k
        <5>1. i \in (lo + 1)..(k - 1) /\ w[i] = v[i]
          BY <4>3
        <5> QED
          BY <2>1, <4>1, <5>1 DEF Solves
      <4> QED
        BY <4>2, <4>3
    <3> QED
      BY <3>1, <3>2 DEF Solves
  <2>6. k \in lo..hi
    OBVIOUS
  <2> HIDE DEF w
  <2> QED
    BY <2>4, <2>5, <2>6
<1>3. hi \in S
  <2> HIDE DEF S
  <2>1. \A k \in (lo + 1)..hi : k - 1 \in S => k \in S
    BY <1>2
  <2>2. lo..hi \subseteq S
    BY <1>1, <2>1, IntervalInduction
  <2> QED
    BY <2>2
<1> QED
  BY <1>3

(***************************************************************************)
(* The check bytes.                                                        *)
(***************************************************************************)
(* The partial sums, by definition and as pm_byte_sum keeps them.          *)
Totals(page, from, to) ==
  LET sum[idx \in (from - 1)..to] ==
        IF idx < from THEN 0 ELSE sum[idx - 1] + page[idx]
  IN  sum

Values(block, start, end) ==
  LET value[idx \in (start - 1)..end] ==
        IF idx < start THEN 0 ELSE (value[idx - 1] + block[idx]) % 256
  IN  value

(* The partial sums obey the equations they are defined by.                *)
LEMMA TotalsSolve ==
  ASSUME NEW page \in [PageBytes -> Byte],
         NEW from \in PageBytes, NEW to \in PageBytes, from <= to
  PROVE  /\ Totals(page, from, to)[from - 1] = 0
         /\ \A k \in from..to :
              Totals(page, from, to)[k] =
                Totals(page, from, to)[k - 1] + page[k]
<1> DEFINE IsTotals(t) ==
             t = [idx \in (from - 1)..to |->
                    IF idx < from THEN 0 ELSE t[idx - 1] + page[idx]]
           step == [p \in Int \X (from..to) |-> p[1] + page[p[2]]]
<1>1. /\ from \in Int /\ to \in Int /\ from - 1 \in Int /\ from - 1 <= to
      /\ (from - 1) + 1 = from
  BY DEF PageBytes
<1>2. step \in [Int \X (from..to) -> Int]
  <2>1. ASSUME NEW k \in from..to PROVE page[k] \in Int
    <3>1. k \in PageBytes
      BY DEF PageBytes
    <3> QED
      BY <3>1 DEF Byte
  <2> QED
    BY <1>1, <2>1
<1>3. PICK t \in [(from - 1)..to -> Int] :
        /\ t[from - 1] = 0
        /\ \A k \in from..to : t[k] = step[<<t[k - 1], k>>]
  <2> HIDE DEF step
  <2>1. PICK lo \in Int : lo = from - 1
    BY <1>1
  <2>2. lo <= to /\ (lo + 1)..to = from..to
    BY <1>1, <2>1
  <2>3. PICK D : D = Int
    OBVIOUS
  <2>4. 0 \in D
    BY <2>3
  <2>5. step \in [D \X ((lo + 1)..to) -> D]
    BY <1>2, <2>2, <2>3, Zenon
  <2>6. \E t \in [lo..to -> D] : Solves(t, lo, to, 0, step)
    BY <1>1, <2>2, <2>4, <2>5, Recursion
  <2> QED
    BY <2>1, <2>2, <2>3, <2>6 DEF Solves
<1>4. ASSUME NEW k \in from..to PROVE t[k] = t[k - 1] + page[k]
  <2>1. t[k - 1] \in Int
    BY <1>1
  <2>2. <<t[k - 1], k>> \in Int \X (from..to)
    BY <2>1
  <2>3. t[k] = step[<<t[k - 1], k>>]
    BY <1>1, <1>3
  <2> QED
    BY <2>2, <2>3
<1>5. IsTotals(t)
  BY <1>1, <1>3, <1>4
<1>6. Totals(page, from, to) = CHOOSE x : IsTotals(x)
  BY Zenon DEF Totals
<1> DEFINE u == Totals(page, from, to)
<1>7. IsTotals(u)
  <2> HIDE DEF IsTotals
  <2> QED
    BY <1>5, <1>6, Zenon
<1> HIDE DEF u
<1>8. u[from - 1] = 0 /\ \A k \in from..to : u[k] = u[k - 1] + page[k]
  BY <1>1, <1>7
<1> QED
  BY <1>8 DEF u

(* The partial sums are numbers.                                           *)
LEMMA TotalsType ==
  ASSUME NEW page \in [PageBytes -> Byte],
         NEW from \in PageBytes, NEW to \in PageBytes, from <= to
  PROVE  \A k \in (from - 1)..to : Totals(page, from, to)[k] \in Int
<1> DEFINE t == Totals(page, from, to)
           S == {k \in Int : t[k] \in Int}
<1>1. t[from - 1] = 0 /\ \A k \in from..to : t[k] = t[k - 1] + page[k]
  BY TotalsSolve
<1> HIDE DEF t
<1>2. from \in Int /\ to \in Int /\ \A k \in from..to : k \in PageBytes
  BY DEF PageBytes
<1>3. PICK lo \in Int : lo = from - 1
  BY <1>2
<1>4. lo \in S
  BY <1>1, <1>3
<1>5. \A k \in (lo + 1)..to : k - 1 \in S => k \in S
  <2> SUFFICES ASSUME NEW k \in (lo + 1)..to, t[k - 1] \in Int
               PROVE  k \in Int /\ t[k] \in Int
    OBVIOUS
  <2>1. k \in from..to /\ k \in Int
    BY <1>2, <1>3
  <2>2. t[k] = t[k - 1] + page[k] /\ page[k] \in Byte
    BY <1>1, <1>2, <2>1
  <2>3. page[k] \in Int
    BY <2>2 DEF Byte
  <2> QED
    BY <2>1, <2>2, <2>3
<1>6. lo..to \subseteq S
  <2> HIDE DEF S
  <2> QED
    BY <1>2, <1>4, <1>5, IntervalInduction
<1> QED
  BY <1>3, <1>6 DEF t

(* The sum pm_byte_sum keeps in one byte is the low byte of the sum.       *)
LEMMA ValuesAreLowBytes ==
  ASSUME NEW page \in [PageBytes -> Byte],
         NEW from \in PageBytes, NEW to \in PageBytes, from <= to
  PROVE  Values(page, from, to)[to] = Totals(page, from, to)[to] % 256
<1> DEFINE t == Totals(page, from, to)
           u == Values(page, from, to)
           IsValues(v) ==
             v = [idx \in (from - 1)..to |->
                    IF idx < from THEN 0 ELSE (v[idx - 1] + page[idx]) % 256]
           low == [k \in (from - 1)..to |-> t[k] % 256]
           S == {k \in Int : u[k] = t[k] % 256}
<1>1. /\ t[from - 1] = 0
      /\ \A k \in from..to : t[k] = t[k - 1] + page[k]
      /\ \A k \in (from - 1)..to : t[k] \in Int
  BY TotalsSolve, TotalsType
<1> HIDE DEF t
<1>2. /\ from \in Int /\ to \in Int
      /\ \A k \in from..to : page[k] \in Int /\ k - 1 \in (from - 1)..to
  <2>1. from \in Int /\ to \in Int /\ \A k \in from..to : k \in PageBytes
    BY DEF PageBytes
  <2> QED
    BY <2>1 DEF Byte
<1>3. \A a \in Int, b \in Int : ((a % 256) + b) % 256 = (a + b) % 256
  OBVIOUS
<1>4. IsValues(low)
  <2>1. ASSUME NEW k \in (from - 1)..to
        PROVE  low[k] = IF k < from THEN 0 ELSE (low[k - 1] + page[k]) % 256
    <3>1. CASE k < from
      BY <1>1, <1>2, <3>1
    <3>2. CASE ~(k < from)
      <4>1. k \in from..to
        BY <1>2, <3>2
      <4>2. low[k] = (t[k - 1] + page[k]) % 256 /\ low[k - 1] = t[k - 1] % 256
        <5>1. k \in (from - 1)..to /\ k - 1 \in (from - 1)..to
          BY <1>2, <4>1
        <5>2. low[k] = t[k] % 256 /\ low[k - 1] = t[k - 1] % 256
          BY <5>1
        <5> HIDE DEF low
        <5> QED
          BY <1>1, <4>1, <5>2
      <4>3. t[k - 1] \in Int /\ page[k] \in Int
        BY <1>1, <1>2, <4>1
      <4> HIDE DEF low
      <4> QED
        BY <1>3, <3>2, <4>2, <4>3
    <3> QED
      BY <3>1, <3>2
  <2> QED
    BY <2>1
<1>5. IsValues(u)
  <2>1. u = CHOOSE v : IsValues(v)
    BY Zenon DEF Values
  <2> HIDE DEF IsValues, u
  <2> QED
    BY <1>4, <2>1, Zenon
<1> HIDE DEF u
<1>6. u[from - 1] = 0 /\ \A k \in from..to : u[k] = (u[k - 1] + page[k]) % 256
  BY <1>2, <1>5
<1>7. PICK lo \in Int : lo = from - 1
  BY <1>2
<1>8. lo \in S
  BY <1>1, <1>6, <1>7
<1>9. ASSUME NEW k \in (lo + 1)..to, k - 1 \in S PROVE k \in S
  <2>1. k \in from..to /\ k \in Int
    BY <1>7, <1>2
  <2>2. t[k - 1] \in Int /\ page[k] \in Int
    BY <1>1, <1>2, <2>1
  <2>3. u[k] = ((t[k - 1] % 256) + page[k]) % 256 /\ t[k] = t[k - 1] + page[k]
    BY <1>1, <1>6, <1>9, <2>1
  <2> QED
    BY <1>3, <2>1, <2>2, <2>3
<1>10. lo..to \subseteq S
  <2> HIDE DEF S
  <2> QED
    BY <1>2, <1>8, <1>9, IntervalInduction
<1>11. to \in lo..to
  BY <1>2, <1>7
<1> QED
  BY <1>10, <1>11 DEF t, u

(* pm_byte_sum accepts a block whose check byte is right, and no other.    *)
LEMMA ByteSumVerifies ==
  ASSUME NEW page \in [PageBytes -> Byte], NEW offset \in PageBytes,
         NEW from \in PageBytes, NEW to \in PageBytes, from <= to
  PROVE  pm_byte_sum(page, from, to, offset) =
           IF Total(page, from, to) % 256 = page[offset] THEN 0 ELSE 1
<1>1. Total(page, from, to) = Totals(page, from, to)[to]
  BY Zenon DEF Total, Totals
<1>2. pm_byte_sum(page, from, to, offset) =
        IF Values(page, from, to)[to] # page[offset] THEN 1 ELSE 0
  BY Zenon DEF pm_byte_sum, Values
<1> QED
  BY <1>1, <1>2, ValuesAreLowBytes

(* A page with one byte changed; the sum changes as much as the byte does. *)
Changed(page, i, byte) == [page EXCEPT ![i] = byte]

(* One changed byte changes the sum of its block and no other.             *)
LEMMA TotalOfOneChange ==
  ASSUME NEW page \in [PageBytes -> Byte], NEW i \in PageBytes,
         NEW byte \in Byte,
         NEW from \in PageBytes, NEW to \in PageBytes, from <= to
  PROVE  /\ Total(page, from, to) \in Int
         /\ i \in from..to =>
              Total(Changed(page, i, byte), from, to) =
                Total(page, from, to) + (byte - page[i])
         /\ i \notin from..to =>
              Total(Changed(page, i, byte), from, to) = Total(page, from, to)
<1> DEFINE read == Changed(page, i, byte)
           t == Totals(page, from, to)
           r == Totals(read, from, to)
           S == {k \in Int :
                   /\ i \in from..k => r[k] = t[k] + (byte - page[i])
                   /\ i \notin from..k => r[k] = t[k]}
<1>1. read \in [PageBytes -> Byte]
  BY DEF Changed
<1>2. /\ t[from - 1] = 0
      /\ \A k \in from..to : t[k] = t[k - 1] + page[k]
      /\ \A k \in (from - 1)..to : t[k] \in Int
  BY TotalsSolve, TotalsType
<1>3. r[from - 1] = 0 /\ \A k \in from..to : r[k] = r[k - 1] + read[k]
  BY <1>1, TotalsSolve
<1>4. /\ from \in Int /\ to \in Int /\ i \in Int
      /\ \A k \in from..to : k \in PageBytes
  BY DEF PageBytes
<1>5. PICK lo \in Int : lo = from - 1
  BY <1>4
<1> HIDE DEF t, r
<1>6. lo \in S
  BY <1>2, <1>3, <1>4, <1>5
<1>7. ASSUME NEW k \in (lo + 1)..to, k - 1 \in S PROVE k \in S
  <2>1. k \in from..to /\ k \in Int /\ k - 1 \in (from - 1)..to
    BY <1>4, <1>5
  <2>2. k \in PageBytes /\ t[k - 1] \in Int
    BY <1>2, <1>4, <2>1
  <2>3. page[k] \in Int /\ page[i] \in Int /\ byte \in Int
    BY <2>2 DEF Byte
  <2>4. /\ t[k] = t[k - 1] + page[k] /\ r[k] = r[k - 1] + read[k]
        /\ i \in from..(k - 1) => r[k - 1] = t[k - 1] + (byte - page[i])
        /\ i \notin from..(k - 1) => r[k - 1] = t[k - 1]
    BY <1>2, <1>3, <1>7, <2>1
  <2>5. read[k] = IF k = i THEN byte ELSE page[k]
    BY <2>2 DEF Changed
  <2>6. CASE i = k
    BY <1>4, <2>1, <2>2, <2>3, <2>4, <2>5, <2>6
  <2>7. CASE i # k
    <3>1. i \in from..k <=> i \in from..(k - 1)
      BY <1>4, <2>1, <2>7
    <3> QED
      BY <2>1, <2>2, <2>3, <2>4, <2>5, <2>7, <3>1
  <2> QED
    BY <2>6, <2>7
<1>8. lo..to \subseteq S
  <2> HIDE DEF S
  <2> QED
    BY <1>4, <1>6, <1>7, IntervalInduction
<1>9. to \in S
  <2>1. to \in lo..to
    BY <1>4, <1>5
  <2> QED
    BY <1>8, <2>1
<1>10. Total(page, from, to) = t[to] /\ Total(read, from, to) = r[to]
  BY Zenon DEF Total, Totals, t, r
<1>11. t[to] \in Int
  BY <1>2, <1>4
<1> QED
  BY <1>9, <1>10, <1>11

(* The sum of a block of ones.                                             *)
LEMMA TotalOfOnes ==
  ASSUME NEW from \in PageBytes, NEW to \in PageBytes, from <= to
  PROVE  Total(AllOnes, from, to) = 255 * (to - from + 1)
<1> DEFINE t == Totals(AllOnes, from, to)
           S == {k \in Int : t[k] = 255 * (k - from + 1)}
<1>1. AllOnes \in [PageBytes -> Byte]
  BY DEF AllOnes, Byte
<1>2. t[from - 1] = 0 /\ \A k \in from..to : t[k] = t[k - 1] + AllOnes[k]
  BY <1>1, TotalsSolve
<1>3. /\ from \in Int /\ to \in Int
      /\ \A k \in from..to : AllOnes[k] = 255
  BY DEF PageBytes, AllOnes
<1>4. PICK lo \in Int : lo = from - 1
  BY <1>3
<1> HIDE DEF t
<1>5. lo \in S
  BY <1>2, <1>3, <1>4
<1>6. \A k \in (lo + 1)..to : k - 1 \in S => k \in S
  BY <1>2, <1>3, <1>4
<1>7. lo..to \subseteq S
  <2> HIDE DEF S
  <2> QED
    BY <1>3, <1>5, <1>6, IntervalInduction
<1>8. to \in S
  <2>1. to \in lo..to
    BY <1>3, <1>4
  <2> QED
    BY <1>7, <2>1
<1>9. Total(AllOnes, from, to) = t[to]
  BY Zenon DEF Total, Totals, t
<1> QED
  BY <1>8, <1>9

Difference == -255..255

SameLowByte(m, n) == m % 256 = n % 256

(* Bytes that differ do not leave the low byte of a sum the same.          *)
LEMMA LowByteTells ==
  ASSUME NEW total \in Int, NEW d \in Difference, SameLowByte(total + d, total)
  PROVE  d = 0
<1>1. (total + d) % 256 = total % 256
  BY DEF SameLowByte
<1> QED
  BY <1>1 DEF Difference

(* A block with a right check byte, after one byte of the page changed.    *)
LEMMA OneChangeInBlock ==
  ASSUME NEW page \in [PageBytes -> Byte], NEW i \in PageBytes,
         NEW byte \in Byte, NEW offset \in PageBytes,
         NEW from \in PageBytes, NEW to \in PageBytes, from <= to,
         offset \notin from..to,
         page[offset] = Total(page, from, to) % 256
  PROVE  /\ pm_byte_sum(Changed(page, i, byte), from, to, offset) \in {0, 1}
         /\ pm_byte_sum(Changed(page, i, byte), from, to, offset) = 1 <=>
              i \in from..to \cup {offset} /\ byte # page[i]
<1> DEFINE read == Changed(page, i, byte)
           result == pm_byte_sum(read, from, to, offset)
           Wrong == Total(read, from, to) % 256 # read[offset]
<1>1. read \in [PageBytes -> Byte]
  BY DEF Changed
<1>2. read[offset] = IF offset = i THEN byte ELSE page[offset]
  BY DEF Changed
<1>3. (Wrong => result = 1) /\ (~Wrong => result = 0)
  BY <1>1, ByteSumVerifies
<1>4. PICK total \in Int : total = Total(page, from, to)
  BY TotalOfOneChange
<1>5. /\ i \in from..to => Total(read, from, to) = total + (byte - page[i])
      /\ i \notin from..to => Total(read, from, to) = total
  BY <1>4, TotalOfOneChange
<1>6. page[i] \in 0..255 /\ byte \in 0..255 /\ page[offset] = total % 256
  BY <1>4 DEF Byte
<1>7. Wrong <=> i \in from..to \cup {offset} /\ byte # page[i]
  <2>1. CASE i \in from..to
    <3>1. Total(read, from, to) = total + (byte - page[i])
      BY <1>5, <2>1
    <3>2. read[offset] = total % 256
      BY <1>2, <1>6, <2>1
    <3>3. (total + (byte - page[i])) % 256 = total % 256 <=> byte = page[i]
      <4>1. PICK a \in 0..255, b \in 0..255 : a = byte /\ b = page[i]
        BY Zenon, <1>6
      <4>2. PICK d \in Int : d = a - b
        OBVIOUS
      <4>3. SameLowByte(total + d, total) => d = 0
        <5>1. d \in Difference
          BY <4>2 DEF Difference
        <5> QED
          BY <5>1, LowByteTells, Zenon
      <4>4. d = 0 <=> a = b
        BY <4>2
      <4>5. d = 0 => SameLowByte(total + d, total)
        BY DEF SameLowByte
      <4>6. SameLowByte(total + d, total) <=> a = b
        BY <4>3, <4>4, <4>5
      <4>7. SameLowByte(total + (a - b), total) <=> a = b
        BY <4>2, <4>6, Zenon
      <4> QED
        BY <4>1, <4>7, Zenon DEF SameLowByte
    <3> QED
      BY <2>1, <3>1, <3>2, <3>3
  <2>2. CASE i \notin from..to
    BY <1>2, <1>5, <1>6, <2>2
  <2> QED
    BY <2>1, <2>2
<1> HIDE DEF Wrong, result
<1>8. result \in {0, 1} /\ (result = 1 <=> Wrong)
  BY <1>3
<1> QED
  BY <1>7, <1>8 DEF result

(* A bus that nobody drives: a check byte of 255 is wrong for 63 ones.     *)
LEMMA OnesAreWrong ==
  Total(AllOnes, 0, 62) % 256 # AllOnes[63] /\ AllOnes \in [PageBytes -> Byte]
<1>1. Total(AllOnes, 0, 62) = 255 * 63
  BY TotalOfOnes DEF PageBytes
<1>2. AllOnes[63] = 255 /\ AllOnes \in [PageBytes -> Byte]
  BY DEF AllOnes, PageBytes, Byte
<1> QED
  BY <1>1, <1>2

(* sfpp_sum_verify accepts what arrives if it is the page, and only then.  *)
LEMMA VerifyDetects ==
  ASSUME NEW page \in Pages, NEW read \in Arrivals(page)
  PROVE  sfpp_sum_verify(read) = 0 <=> read = page
<1>1. /\ page \in [PageBytes -> Byte]
      /\ page[63] = Total(page, 0, 62) % 256
      /\ page[95] = Total(page, 64, 94) % 256
  BY PagesAssumption
<1>2. /\ 0 \in PageBytes /\ 62 \in PageBytes /\ 63 \in PageBytes
      /\ 64 \in PageBytes /\ 94 \in PageBytes /\ 95 \in PageBytes
      /\ 0 <= 62 /\ 63 \notin 0..62 /\ 64 <= 94 /\ 95 \notin 64..94
  BY DEF PageBytes
<1>3. CASE read = AllOnes
  <2>1. pm_byte_sum(AllOnes, 0, 62, 63) = 1
    BY <1>2, OnesAreWrong, ByteSumVerifies
  <2>2. pm_byte_sum(AllOnes, 64, 94, 95) \in {0, 1}
    BY <1>2, OnesAreWrong, ByteSumVerifies
  <2>3. AllOnes # page
    BY <1>1, OnesAreWrong
  <2> QED
    BY <1>3, <2>1, <2>2, <2>3 DEF sfpp_sum_verify
<1>4. ASSUME NEW i \in PageBytes, NEW byte \in Byte,
             read = Changed(page, i, byte)
      PROVE  sfpp_sum_verify(read) = 0 <=> read = page
  <2> DEFINE Detects(from, to, offset) ==
        /\ pm_byte_sum(read, from, to, offset) \in {0, 1}
        /\ pm_byte_sum(read, from, to, offset) = 1 <=>
             i \in from..to \cup {offset} /\ byte # page[i]
  <2>1. ASSUME NEW from \in PageBytes, NEW to \in PageBytes, from <= to,
               NEW offset \in PageBytes, offset \notin from..to,
               page[offset] = Total(page, from, to) % 256
        PROVE  Detects(from, to, offset)
    BY <1>1, <1>4, <2>1, OneChangeInBlock
  <2>2. Detects(0, 62, 63) /\ Detects(64, 94, 95)
    <3> HIDE DEF Detects
    <3> QED
      BY <1>1, <1>2, <2>1
  <2>3. read = page <=> byte = page[i]
    BY <1>1, <1>4 DEF Changed
  <2>4. i \in 0..62 \cup {63} \/ i \in 64..94 \cup {95}
    BY DEF PageBytes
  <2> QED
    BY <2>2, <2>3, <2>4 DEF sfpp_sum_verify
<1> QED
  BY <1>3, <1>4 DEF Arrivals, Changed

(* ErrorsAreDetected: whatever page the module has, sfpp_sum_verify        *)
(* accepts it as it is and rejects it with any one byte changed to any     *)
(* other, and it rejects a bus that nobody drives.                         *)
THEOREM ErrorsAreDetected == Spec => []SingleByteErrorDetected
<1>1. Init => SingleByteErrorDetected
  BY DEF Init, Idle, SingleByteErrorDetected
<1>2. SingleByteErrorDetected /\ [Next]_last => SingleByteErrorDetected'
  <2> SUFFICES ASSUME SingleByteErrorDetected, [Next]_last
               PROVE  SingleByteErrorDetected'
    OBVIOUS
  <2>1. CASE last'.routine # "sfpp_sum_verify"
    BY <2>1 DEF SingleByteErrorDetected
  <2>2. ASSUME NEW page \in Pages, VerifySum(page)
        PROVE  SingleByteErrorDetected'
    <3>1. PICK read \in Arrivals(page) :
            last' = [routine |-> "sfpp_sum_verify", page |-> page,
                     read |-> read, result |-> sfpp_sum_verify(read)]
      BY <2>2 DEF VerifySum
    <3>2. /\ last'.page = page /\ last'.read = read
          /\ last'.result = sfpp_sum_verify(read)
      BY <3>1
    <3> QED
      BY <3>2, VerifyDetects DEF SingleByteErrorDetected
  <2>3. CASE last' = last
    BY <2>3 DEF SingleByteErrorDetected
  <2> QED
    BY <2>1, <2>2, <2>3
       DEF Next, HexToAscii, OuiFormat, StripField, SetTemperature, SetWord,
           SetReading, PublishDom, Return, Idle
<1> QED
  BY <1>1, <1>2, PTL DEF Spec

(***************************************************************************)
(* The text fields.                                                        *)
(***************************************************************************)
(* The C string in a buffer ends before its first NUL.                     *)
LEMMA CStringEnds ==
  ASSUME NEW size \in Nat, NEW buf \in [1..size -> SignedByte],
         Len(buf) = size, \E i \in 1..size : buf[i] = NUL
  PROVE  \E n \in 1..size :
           /\ buf[n] = NUL /\ \A j \in 1..(n - 1) : buf[j] # NUL
           /\ CString(buf) \in Seq(SignedByte) /\ Len(CString(buf)) = n - 1
           /\ \A i \in 1..(n - 1) : CString(buf)[i] = buf[i]
<1> DEFINE IsFirst(i) == buf[i] = NUL /\ \A j \in 1..(i - 1) : buf[j] # NUL
           n == CHOOSE i \in 1..size : IsFirst(i)
           S == {i \in 1..size : buf[i] = NUL}
<1>1. PICK x \in S : \A y \in S : x <= y
  <2>1. S \subseteq Nat /\ S # {}
    OBVIOUS
  <2> QED
    BY <2>1, LeastElement
<1>2. x \in 1..size /\ IsFirst(x)
  BY <1>1
<1>3. n \in 1..size /\ IsFirst(n)
  <2> HIDE DEF IsFirst
  <2> QED
    BY <1>2, Zenon
<1>4. CString(buf) = SubSeq(buf, 1, n - 1)
  BY Zenon DEF CString
<1> HIDE DEF n
<1>5. /\ n - 1 \in Int /\ 1 \in Int
      /\ \A i \in 1..(n - 1) : buf[i] \in SignedByte
  BY <1>3
<1>6. /\ SubSeq(buf, 1, n - 1) \in Seq(SignedByte)
      /\ Len(SubSeq(buf, 1, n - 1)) = IF 1 <= n - 1 THEN (n - 1) - 1 + 1 ELSE 0
      /\ \A i \in 1..((n - 1) - 1 + 1) : SubSeq(buf, 1, n - 1)[i] = buf[1 + i - 1]
  BY <1>5, SubSeqProperties
<1>7. /\ Len(SubSeq(buf, 1, n - 1)) = n - 1
      /\ \A i \in 1..(n - 1) : SubSeq(buf, 1, n - 1)[i] = buf[i]
  BY <1>3, <1>6
<1> QED
  BY <1>3, <1>4, <1>6, <1>7

(* Where the loop ends: everything after is a space, and it is not on one  *)
(* unless it reached the first byte.                                       *)
LEMMA StripEnds ==
  ASSUME NEW size \in Nat \ {0}, NEW field, Len(field) = size
  PROVE  /\ StripEnd(field) \in 0..(size - 1)
         /\ \A j \in (StripEnd(field) + 2)..size : field[j] = SPACE
         /\ StripEnd(field) = 0 \/ field[StripEnd(field) + 1] # SPACE
<1> DEFINE IsEnd(f) ==
             f = [idx \in 0..(size - 1) |->
                    IF idx > 0 /\ field[idx + 1] = SPACE
                    THEN f[idx - 1] ELSE idx]
           end == CHOOSE f : IsEnd(f)
           step == [p \in Nat \X (1..(size - 1)) |->
                      IF field[p[2] + 1] = SPACE THEN p[1] ELSE p[2]]
           S == {k \in Nat : /\ end[k] \in 0..k
                             /\ \A j \in (end[k] + 2)..(k + 1) : field[j] = SPACE
                             /\ end[k] = 0 \/ field[end[k] + 1] # SPACE}
<1>1. StripEnd(field) = end[size - 1]
  BY Zenon DEF StripEnd
<1>2. step \in [Nat \X (1..(size - 1)) -> Nat]
  OBVIOUS
<1>3. PICK f \in [0..(size - 1) -> Nat] :
        f[0] = 0 /\ \A k \in 1..(size - 1) : f[k] = step[<<f[k - 1], k>>]
  <2> HIDE DEF step
  <2>1. PICK lo \in Int, hi \in Int : lo = 0 /\ hi = size - 1
    OBVIOUS
  <2>2. PICK D : D = Nat
    OBVIOUS
  <2>3. lo <= hi /\ 0 \in D /\ (lo + 1)..hi = 1..(size - 1)
    BY <2>1, <2>2
  <2>4. step \in [D \X ((lo + 1)..hi) -> D]
    BY <1>2, <2>2, <2>3, Zenon
  <2>5. \E f \in [lo..hi -> D] : Solves(f, lo, hi, 0, step)
    BY <2>3, <2>4, Recursion
  <2> QED
    BY <2>1, <2>2, <2>3, <2>5 DEF Solves
<1>4. IsEnd(f)
  <2>1. ASSUME NEW k \in 1..(size - 1)
        PROVE  f[k] = IF field[k + 1] = SPACE THEN f[k - 1] ELSE k
    <3>1. f[k - 1] \in Nat
      OBVIOUS
    <3>2. <<f[k - 1], k>> \in Nat \X (1..(size - 1))
      BY <3>1
    <3> QED
      BY <1>3, <3>2
  <2> QED
    BY <1>3, <2>1
<1>5. IsEnd(end)
  <2> HIDE DEF IsEnd
  <2> QED
    BY <1>4, Zenon
<1> HIDE DEF end
<1>6. /\ end[0] = 0
      /\ \A k \in 1..(size - 1) :
           end[k] = IF field[k + 1] = SPACE THEN end[k - 1] ELSE k
  BY <1>5
<1>7. 0 \in S
  BY <1>6
<1>8. ASSUME NEW k \in (0 + 1)..(size - 1), k - 1 \in S PROVE k \in S
  <2>1. k \in 1..(size - 1) /\ k \in Nat
    OBVIOUS
  <2>2. CASE field[k + 1] = SPACE
    <3>1. end[k] = end[k - 1] /\ end[k - 1] \in 0..(k - 1)
      BY <1>6, <1>8, <2>1, <2>2
    <3>2. \A j \in (end[k] + 2)..(k + 1) : field[j] = SPACE
      BY <1>8, <2>1, <2>2, <3>1
    <3> QED
      BY SMTT(30), <1>8, <2>1, <3>1, <3>2
  <2>3. CASE field[k + 1] # SPACE
    BY <1>6, <2>1, <2>3
  <2> QED
    BY <2>2, <2>3
<1>9. size - 1 \in S
  <2> HIDE DEF S
  <2>1. PICK lo \in Int, hi \in Int : lo = 0 /\ hi = size - 1
    OBVIOUS
  <2>2. lo..hi \subseteq S
    BY <1>7, <1>8, <2>1, IntervalInduction
  <2> QED
    BY <2>1, <2>2
<1> QED
  BY <1>1, <1>9

(* What StripKeepsText says of a field.                                    *)
LEMMA StrippedKeepsText ==
  ASSUME NEW field \in Seq(SignedByte), field # <<>>
  PROVE  LET text == CString(Append(field, NUL))
             kept == Stripped(field)
         IN  /\ Len(kept) <= Len(text)
             /\ kept = SubSeq(text, 1, Len(kept))
             /\ \A i \in (Len(kept) + 1)..Len(text) : text[i] = SPACE
             /\ (\A i \in 1..Len(field) : field[i] # NUL) =>
                  Len(kept) = 1 \/ kept[Len(kept)] # SPACE
<1>1. PICK size \in Nat \ {0} : size = Len(field) /\ field \in [1..size -> SignedByte]
  BY EmptySeq, LenProperties
<1>2. PICK e \in 0..(size - 1) :
        /\ e = StripEnd(field)
        /\ \A j \in (e + 2)..size : field[j] = SPACE
        /\ e = 0 \/ field[e + 1] # SPACE
  BY <1>1, StripEnds
<1>3. NUL \in SignedByte
  BY DEF NUL, SignedByte
<1> DEFINE whole == Append(field, NUL)
           cut == [i \in 1..(Len(field) + 1) |->
                     IF i <= StripEnd(field) + 1 THEN field[i] ELSE NUL]
           text == CString(whole)
           kept == CString(cut)
<1>4. /\ whole \in [1..(size + 1) -> SignedByte] /\ Len(whole) = size + 1
      /\ \A i \in 1..size : whole[i] = field[i]
      /\ whole[size + 1] = NUL
  <2>1. /\ whole \in Seq(SignedByte) /\ Len(whole) = Len(field) + 1
        /\ \A i \in 1..Len(field) : whole[i] = field[i]
        /\ whole[Len(field) + 1] = NUL
    BY <1>3, AppendProperties
  <2> HIDE DEF whole
  <2>2. whole \in [1..Len(whole) -> SignedByte]
    BY <2>1, LenProperties
  <2> QED
    BY <1>1, <2>1, <2>2
<1>5. /\ cut \in [1..(size + 1) -> SignedByte] /\ Len(cut) = size + 1
      /\ \A i \in 1..(e + 1) : cut[i] = field[i]
      /\ \A i \in (e + 2)..(size + 1) : cut[i] = NUL
  <2>1. cut = [i \in 1..(size + 1) |-> IF i <= e + 1 THEN field[i] ELSE NUL]
    BY <1>1, <1>2
  <2> HIDE DEF cut
  <2>2. cut \in [1..(size + 1) -> SignedByte]
    BY <1>1, <1>3, <2>1
  <2>3. Len(cut) = size + 1
    BY <2>1
  <2> QED
    BY <2>1, <2>2, <2>3
<1>6. Stripped(field) = kept
  BY Zenon DEF Stripped
<1> HIDE DEF whole, cut
<1>7. PICK n \in 1..(size + 1) :
        /\ whole[n] = NUL /\ \A j \in 1..(n - 1) : whole[j] # NUL
        /\ text \in Seq(SignedByte) /\ Len(text) = n - 1
        /\ \A i \in 1..(n - 1) : text[i] = whole[i]
  <2>1. size + 1 \in Nat /\ size + 1 \in 1..(size + 1)
    OBVIOUS
  <2> QED
    BY <1>4, <2>1, CStringEnds
<1>8. PICK m \in 1..(size + 1) :
        /\ cut[m] = NUL /\ \A j \in 1..(m - 1) : cut[j] # NUL
        /\ kept \in Seq(SignedByte) /\ Len(kept) = m - 1
        /\ \A i \in 1..(m - 1) : kept[i] = cut[i]
  <2>1. size + 1 \in Nat /\ size + 1 \in 1..(size + 1) /\ cut[size + 1] = NUL
    BY <1>5
  <2> QED
    BY <1>5, <2>1, CStringEnds
<1> HIDE DEF text, kept
<1>9. m <= e + 2
  <2>1. cut[e + 2] = NUL
    BY <1>5
  <2> QED
    BY <1>8, <2>1
<1>10. m <= n
  <2>1. cut[n] = NUL
    <3>1. CASE n <= e + 1
      <4>1. cut[n] = field[n] /\ whole[n] = field[n]
        BY <1>4, <1>5, <3>1
      <4> QED
        BY <1>7, <4>1
    <3>2. CASE n > e + 1
      BY <1>5, <3>2
    <3> QED
      BY <3>1, <3>2
  <2> QED
    BY <1>8, <2>1
<1>11. \A i \in 1..(m - 1) : kept[i] = text[i]
  BY <1>4, <1>5, <1>7, <1>8, <1>9, <1>10
<1>12. kept = SubSeq(text, 1, Len(kept))
  <2>1. PICK k \in Int : k = m - 1
    OBVIOUS
  <2>2. \A i \in 1..k : text[i] \in SignedByte
    BY <1>7, <1>10, <2>1, ElementOfSeq
  <2>3. /\ SubSeq(text, 1, k) \in Seq(SignedByte)
        /\ Len(SubSeq(text, 1, k)) = IF 1 <= k THEN k - 1 + 1 ELSE 0
        /\ \A i \in 1..(k - 1 + 1) : SubSeq(text, 1, k)[i] = text[1 + i - 1]
    BY <2>2, SubSeqProperties
  <2>4. /\ Len(SubSeq(text, 1, k)) = k
        /\ \A i \in 1..k : SubSeq(text, 1, k)[i] = text[i]
    BY <2>1, <2>3
  <2>5. Len(kept) = Len(SubSeq(text, 1, k))
    BY <1>8, <2>1, <2>4
  <2>6. \A i \in 1..Len(kept) : kept[i] = SubSeq(text, 1, k)[i]
    BY <1>8, <1>11, <2>1, <2>4
  <2>7. kept = SubSeq(text, 1, k)
    BY <1>8, <2>3, <2>5, <2>6, SeqEqual
  <2> QED
    BY <1>8, <2>1, <2>7
<1>13. ASSUME NEW i \in m..(n - 1) PROVE text[i] = SPACE
  <2>1. text[i] = field[i] /\ i \in 1..size
    BY <1>4, <1>7
  <2>2. m = e + 2
    <3> SUFFICES ASSUME m <= e + 1 PROVE FALSE
      BY <1>9
    <3>1. cut[m] = whole[m]
      BY <1>4, <1>5
    <3> QED
      BY <1>7, <1>8, <3>1
  <2> QED
    BY <1>2, <2>1, <2>2
<1>14. ASSUME \A i \in 1..size : field[i] # NUL
       PROVE  m = 2 \/ kept[m - 1] # SPACE
  <2>1. m = e + 2
    <3> SUFFICES ASSUME m <= e + 1 PROVE FALSE
      BY <1>9
    <3>1. cut[m] = field[m] /\ m \in 1..size
      BY <1>5
    <3> QED
      BY <1>8, <1>14, <3>1
  <2>2. kept[m - 1] = field[e + 1]
    BY <1>5, <1>8, <2>1
  <2> QED
    BY <1>2, <2>1, <2>2
<1>15. /\ Len(kept) <= Len(text)
       /\ \A i \in (Len(kept) + 1)..Len(text) : text[i] = SPACE
       /\ (\A i \in 1..Len(field) : field[i] # NUL) =>
            Len(kept) = 1 \/ kept[Len(kept)] # SPACE
  BY <1>1, <1>7, <1>8, <1>10, <1>13, <1>14
<1> QED
  BY <1>6, <1>12, <1>15 DEF text, whole

(* TextIsKept: whatever a text field holds, NULs and blanks included,      *)
(* pm_parse loses nothing of its text but trailing spaces.                 *)
THEOREM TextIsKept == Spec => []StripKeepsText
<1>1. Init => StripKeepsText
  BY DEF Init, Idle, StripKeepsText
<1>2. StripKeepsText /\ [Next]_last => StripKeepsText'
  <2> SUFFICES ASSUME StripKeepsText, [Next]_last PROVE StripKeepsText'
    OBVIOUS
  <2>1. CASE last'.routine # "pm_parse"
    BY <2>1, Zenon DEF StripKeepsText
  <2>2. ASSUME NEW field \in Fields, StripField(field) PROVE StripKeepsText'
    <3>1. /\ last'.field = field /\ last'.text = Stripped(field)
          /\ field \in Seq(SignedByte) /\ field # <<>>
      BY <2>2, FieldsAssumption DEF StripField
    <3> QED
      BY <3>1, StrippedKeepsText, Zenon DEF StripKeepsText
  <2>3. CASE last' = last
    BY <2>3, Zenon DEF StripKeepsText
  <2>4. \/ last'.routine # "pm_parse" \/ last' = last
        \/ \E field \in Fields : StripField(field)
    BY DEF Next, VerifySum, HexToAscii, OuiFormat, SetTemperature, SetWord,
           SetReading, PublishDom, Return, Idle
  <2> QED
    BY <2>1, <2>2, <2>3, <2>4, Zenon
<1> QED
  BY <1>1, <1>2, PTL DEF Spec

(***************************************************************************)
(* Hex output.                                                             *)
(***************************************************************************)
(* A byte, also a negative one, has two digits, which can be read back.    *)
LEMMA ByteDigits ==
  ASSUME NEW byte \in Int
  PROVE  /\ High(byte) \in 0..15 /\ Low(byte) \in 0..15
         /\ byte % 256 = 16 * High(byte) + Low(byte)
<1>1. PICK n \in 0..255 : n = byte % 256
  OBVIOUS
<1>2. byte % 16 = n % 16
  BY <1>1
<1>3. PICK q \in 0..15 : q = n \div 16
  OBVIOUS
<1>4. PICK r \in 0..15 : r = n % 16
  OBVIOUS
<1>5. r = n - 16 * q
  BY <1>3, <1>4
<1>6. n = 16 * q + r
  BY <1>5
<1> QED
  BY <1>1, <1>2, <1>3, <1>4, <1>6 DEF High, Low

NonNul == Int \ {NUL}

(* A digit, of either kind, is read back to its value.                     *)
LEMMA DigitsReadBack ==
  ASSUME NEW d \in 0..15
  PROVE  /\ IsDigit(UpperDigit(d)) /\ DigitValue(UpperDigit(d)) = d
         /\ IsDigit(LowerDigit(d)) /\ DigitValue(LowerDigit(d)) = d
         /\ UpperDigit(d) \in NonNul /\ LowerDigit(d) \in NonNul
  BY DEF IsDigit, UpperDigit, LowerDigit, DigitValue, NonNul, NUL

(* The text of the first i bytes.                                          *)
Written(buf) ==
  LET ascii[i \in 0..Len(buf)] ==
        IF i = 0 THEN <<>>
        ELSE ascii[i - 1] \o Separator(i - 1)
               \o <<UpperDigit(High(buf[i])), UpperDigit(Low(buf[i]))>>
  IN  ascii

Chunk(buf, i) ==
  Separator(i - 1) \o <<UpperDigit(High(buf[i])), UpperDigit(Low(buf[i]))>>

StartsWord(i) == i > 0 /\ i % WordSize = 0

SeparatorLen(i) == IF StartsWord(i) THEN 1 ELSE 0

(* A separator of length n, if any, and two digits.                        *)
IsChunk(chunk, n, high, low) ==
  /\ chunk \in Seq(NonNul) /\ Len(chunk) = n + 2
  /\ chunk[n + 1] = high /\ chunk[n + 2] = low

(* The text of byte i: a separator if it starts a word, and its digits.    *)
LEMMA ChunkHas ==
  ASSUME NEW size \in Nat, NEW buf \in [1..size -> SignedByte],
         NEW i \in 1..size
  PROVE  IsChunk(Chunk(buf, i), SeparatorLen(i - 1),
                 UpperDigit(High(buf[i])), UpperDigit(Low(buf[i])))
<1> DEFINE n == SeparatorLen(i - 1)
<1>1. buf[i] \in Int
  <2>1. SignedByte \subseteq Int
    BY DEF SignedByte
  <2> QED
    BY <2>1
<1> DEFINE h == UpperDigit(High(buf[i]))
           l == UpperDigit(Low(buf[i]))
           sep == Separator(i - 1)
           pair == <<h, l>>
<1>2. High(buf[i]) \in 0..15 /\ Low(buf[i]) \in 0..15
  BY <1>1, ByteDigits
<1>3. h \in NonNul /\ l \in NonNul
  <2>1. \A d \in 0..15 : UpperDigit(d) \in NonNul
    BY DigitsReadBack
  <2> QED
    BY <1>2, <2>1, Zenon
<1>4. Chunk(buf, i) = sep \o pair
  BY DEF Chunk
<1> HIDE DEF h, l
<1>5. pair \in Seq(NonNul) /\ Len(pair) = 2 /\ pair[1] = h /\ pair[2] = l
  BY <1>3
<1>6. n \in 0..1
  BY DEF SeparatorLen
<1> HIDE DEF n
<1>7. sep \in Seq(NonNul) /\ Len(sep) = n
  <2>1. SPACE \in NonNul
    BY DEF SPACE, NonNul, NUL
  <2>2. CASE StartsWord(i - 1)
    <3>1. sep = <<SPACE>>
      BY <2>2, Zenon DEF Separator, StartsWord
    <3>2. n = 1
      BY <2>2, Zenon DEF n, SeparatorLen
    <3> HIDE DEF sep
    <3> QED
      BY <2>1, <3>1, <3>2
  <2>3. CASE ~StartsWord(i - 1)
    <3>1. sep = <<>>
      BY <2>3, Zenon DEF Separator, StartsWord
    <3>2. n = 0
      BY <2>3, Zenon DEF n, SeparatorLen
    <3> HIDE DEF sep
    <3> QED
      BY <3>1, <3>2
  <2> QED
    BY <2>2, <2>3
<1> HIDE DEF sep, pair
<1>8. /\ sep \o pair \in Seq(NonNul)
      /\ Len(sep \o pair) = Len(sep) + Len(pair)
      /\ \A k \in 1..(Len(sep) + Len(pair)) :
           (sep \o pair)[k] = IF k <= Len(sep) THEN sep[k] ELSE pair[k - Len(sep)]
  BY <1>5, <1>7, ConcatProperties
<1>9. /\ n + 1 \in 1..(n + 2) /\ n + 2 \in 1..(n + 2)
      /\ ~(n + 1 <= n) /\ ~(n + 2 <= n) /\ (n + 1) - n = 1 /\ (n + 2) - n = 2
  BY <1>6
<1>10. (sep \o pair)[n + 1] = h /\ (sep \o pair)[n + 2] = l
  BY <1>5, <1>7, <1>8, <1>9
<1>11. IsChunk(Chunk(buf, i), n, h, l)
  BY <1>4, <1>5, <1>7, <1>8, <1>10 DEF IsChunk
<1> QED
  BY <1>11 DEF n, h, l

(* Where the digits are.                                                   *)
TextEnd(k) == IF k = 0 THEN 0 ELSE PlaceInWords(k) + 1

(* The place of the digits of byte k follows the text of those before.     *)
LEMMA Places ==
  ASSUME NEW k \in Nat, k # 0
  PROVE  /\ PlaceInWords(k) \in Nat /\ PlaceInWords(k) >= 1
         /\ TextEnd(k) \in Nat /\ TextEnd(k - 1) \in Nat
         /\ TextEnd(k) = PlaceInWords(k) + 1
         /\ PlaceInWords(k) =
              TextEnd(k - 1) + 1 + SeparatorLen(k - 1)
         /\ \A j \in 1..(k - 1) : /\ PlaceInWords(j) \in Nat
                                  /\ PlaceInWords(j) >= 1
                                  /\ PlaceInWords(j) + 1 <= TextEnd(k - 1)
         /\ TextEnd(k) <= 2 * k + k \div WordSize
<1>1. \A j \in Nat : j # 0 => PlaceInWords(j) \in Nat /\ PlaceInWords(j) >= 1
  BY DEF PlaceInWords, WordSize
<1>2. TextEnd(k) = PlaceInWords(k) + 1 /\ TextEnd(k) \in Nat
  BY <1>1 DEF TextEnd
<1>3. TextEnd(k - 1) \in Nat
  BY <1>1 DEF TextEnd
<1>4. PlaceInWords(k) =
        TextEnd(k - 1) + 1 + SeparatorLen(k - 1)
  <2>1. CASE k = 1
    BY <2>1 DEF TextEnd, PlaceInWords, SeparatorLen, StartsWord, WordSize
  <2>2. CASE k > 1
    BY <2>2 DEF TextEnd, PlaceInWords, SeparatorLen, StartsWord, WordSize
  <2> QED
    BY <2>1, <2>2
<1>5. ASSUME NEW j \in 1..(k - 1) PROVE PlaceInWords(j) + 1 <= TextEnd(k - 1)
  <2>1. TextEnd(k - 1) = PlaceInWords(k - 1) + 1
    BY DEF TextEnd
  <2>2. PlaceInWords(j) <= PlaceInWords(k - 1)
    BY DEF PlaceInWords, WordSize
  <2>3. PlaceInWords(j) \in Nat /\ PlaceInWords(k - 1) \in Nat
    BY <1>1
  <2> QED
    BY <2>1, <2>2, <2>3
<1>6. TextEnd(k) <= 2 * k + k \div WordSize
  BY DEF TextEnd, PlaceInWords, WordSize
<1> QED
  BY <1>1, <1>2, <1>3, <1>4, <1>5, <1>6

(* The text of k bytes is that of k - 1 bytes with the text of byte k.     *)
LEMMA WrittenSolves ==
  ASSUME NEW size \in Nat, NEW buf \in [1..size -> SignedByte], Len(buf) = size
  PROVE  /\ Written(buf)[0] = <<>>
         /\ \A k \in 1..size :
              /\ Written(buf)[k - 1] \in Seq(NonNul)
              /\ Written(buf)[k] = Written(buf)[k - 1] \o Chunk(buf, k)
<1> DEFINE Extend(text, i) ==
             text \o Separator(i - 1)
               \o <<UpperDigit(High(buf[i])), UpperDigit(Low(buf[i]))>>
           IsWritten(f) ==
             f = [i \in 0..Len(buf) |->
                    IF i = 0 THEN <<>> ELSE Extend(f[i - 1], i)]
           w == Written(buf)
           step == [p \in Seq(NonNul) \X (1..size) |-> p[1] \o Chunk(buf, p[2])]
<1>1. ASSUME NEW k \in 1..size PROVE Chunk(buf, k) \in Seq(NonNul)
  BY ChunkHas DEF IsChunk
<1>2. ASSUME NEW k \in 1..size, NEW text \in Seq(NonNul)
      PROVE  /\ text \o Chunk(buf, k) \in Seq(NonNul)
             /\ Extend(text, k) = text \o Chunk(buf, k)
  <2> DEFINE sep == Separator(k - 1)
             pair == <<UpperDigit(High(buf[k])), UpperDigit(Low(buf[k]))>>
  <2>1. text \o Chunk(buf, k) \in Seq(NonNul)
    BY <1>1, ConcatProperties
  <2>2. sep \in Seq(Int)
    BY DEF Separator, SPACE
  <2>3. pair \in Seq(Int)
    <3>1. SignedByte \subseteq Int
      BY DEF SignedByte
    <3>2. buf[k] \in Int
      BY <3>1
    <3>3. High(buf[k]) \in Int /\ Low(buf[k]) \in Int
      BY <3>2 DEF High, Low
    <3>4. \A d \in Int : UpperDigit(d) \in Int
      BY DEF UpperDigit
    <3> QED
      BY <3>3, <3>4
  <2>4. text \in Seq(Int)
    <3>1. NonNul \subseteq Int
      BY DEF NonNul
    <3> QED
      BY <3>1, SeqMonotonic
  <2>5. (text \o sep) \o pair = text \o (sep \o pair)
    <3> HIDE DEF sep, pair
    <3>1. PICK D : D = Int
      OBVIOUS
    <3>2. text \in Seq(D) /\ sep \in Seq(D) /\ pair \in Seq(D)
      BY <2>2, <2>3, <2>4, <3>1, Zenon
    <3> QED
      BY SMTT(30), <3>2, ConcatAssociative
  <2>6. Chunk(buf, k) = sep \o pair
    BY DEF Chunk
  <2> QED
    BY <2>1, <2>5, <2>6, Zenon
<1> HIDE DEF Extend
<1>3. step \in [Seq(NonNul) \X (1..size) -> Seq(NonNul)]
  BY <1>2
<1>4. PICK f \in [0..size -> Seq(NonNul)] :
        f[0] = <<>> /\ \A k \in 1..size : f[k] = step[<<f[k - 1], k>>]
  <2> HIDE DEF step
  <2>1. PICK lo \in Int, hi \in Int : lo = 0 /\ hi = size
    OBVIOUS
  <2>2. PICK D : D = Seq(NonNul)
    OBVIOUS
  <2>3. lo <= hi /\ (lo + 1)..hi = 1..size
    BY <2>1
  <2>4. <<>> \in D
    BY <2>2
  <2>5. step \in [D \X ((lo + 1)..hi) -> D]
    BY <1>3, <2>2, <2>3, Zenon
  <2>6. PICK empty \in D : empty = <<>>
    BY <2>4, Zenon
  <2>7. PICK f \in [lo..hi -> D] : Solves(f, lo, hi, empty, step)
    BY <2>3, <2>5, Recursion
  <2>8. f \in [0..size -> Seq(NonNul)]
    BY <2>1, <2>2, <2>7, Zenon
  <2>9. f[0] = <<>> /\ \A k \in 1..size : f[k] = step[<<f[k - 1], k>>]
    BY <2>1, <2>3, <2>6, <2>7 DEF Solves
  <2> QED
    BY <2>8, <2>9, Zenon
<1>5. ASSUME NEW k \in 1..size
      PROVE  f[k] = Extend(f[k - 1], k)
  <2>1. f[k - 1] \in Seq(NonNul)
    OBVIOUS
  <2>2. <<f[k - 1], k>> \in Seq(NonNul) \X (1..size)
    BY <2>1
  <2>3. f[k] = f[k - 1] \o Chunk(buf, k)
    <3>1. step[<<f[k - 1], k>>] = f[k - 1] \o Chunk(buf, k)
      BY <2>2
    <3> HIDE DEF step
    <3> QED
      BY <1>4, <3>1
  <2> QED
    BY <1>2, <2>1, <2>3, Zenon
<1>6. IsWritten(f)
  BY <1>4, <1>5
<1>7. IsWritten(w)
  <2>1. w = CHOOSE x : IsWritten(x)
    BY Zenon DEF Written, Extend
  <2> HIDE DEF IsWritten, w
  <2> QED
    BY <1>6, <2>1, Zenon
<1> HIDE DEF w
<1>8. w[0] = <<>>
  BY <1>7
<1>9. ASSUME NEW k \in 1..size
      PROVE  w[k] = Extend(w[k - 1], k)
  BY <1>7
<1> DEFINE S == {k \in 0..size : w[k] \in Seq(NonNul)}
<1>10. ASSUME NEW k \in 1..size, k - 1 \in S PROVE k \in S
  <2>1. w[k - 1] \in Seq(NonNul)
    BY <1>10
  <2>2. w[k] \in Seq(NonNul)
    BY <1>2, <1>9, <2>1, Zenon
  <2> QED
    BY <2>2
<1>11. 0..size \subseteq S
  <2>1. 0 \in S
    <3>1. w[0] \in Seq(NonNul)
      BY <1>8
    <3>2. 0 \in 0..size
      OBVIOUS
    <3> QED
      BY <3>1, <3>2, Zenon
  <2> HIDE DEF S
  <2>2. PICK lo \in Int, hi \in Int : lo = 0 /\ hi = size
    OBVIOUS
  <2>3. \A k \in (lo + 1)..hi : k - 1 \in S => k \in S
    BY <1>10, <2>2
  <2>4. lo..hi \subseteq S
    BY <2>1, <2>2, <2>3, IntervalInduction
  <2> QED
    BY <2>2, <2>4
<1>12. ASSUME NEW k \in 1..size
       PROVE  w[k - 1] \in Seq(NonNul) /\ w[k] = w[k - 1] \o Chunk(buf, k)
  <2>1. w[k - 1] \in Seq(NonNul)
    BY <1>11
  <2> QED
    BY <1>2, <1>9, <2>1, Zenon
<1> QED
  BY <1>8, <1>12 DEF w

(* The text of the first k bytes has their digits in their places.         *)
LEMMA WrittenPlaces ==
  ASSUME NEW size \in Nat, NEW buf \in [1..size -> SignedByte], Len(buf) = size
  PROVE  /\ Written(buf)[size] \in Seq(NonNul)
         /\ Len(Written(buf)[size]) = TextEnd(size)
         /\ \A j \in 1..size :
              /\ Written(buf)[size][PlaceInWords(j)] = UpperDigit(High(buf[j]))
              /\ Written(buf)[size][PlaceInWords(j) + 1] = UpperDigit(Low(buf[j]))
<1> DEFINE w == Written(buf)
           h(j) == UpperDigit(High(buf[j]))
           l(j) == UpperDigit(Low(buf[j]))
           Digits(text, j) == /\ text[PlaceInWords(j)] = h(j)
                              /\ text[PlaceInWords(j) + 1] = l(j)
           S == {k \in 0..size : /\ w[k] \in Seq(NonNul)
                                 /\ Len(w[k]) = TextEnd(k)
                                 /\ \A j \in 1..k : Digits(w[k], j)}
<1>1. w[0] = <<>> /\ \A k \in 1..size : w[k] = w[k - 1] \o Chunk(buf, k)
  BY WrittenSolves
<1> HIDE DEF w
<1>2. 0 \in S
  <2>1. w[0] \in Seq(NonNul) /\ Len(w[0]) = 0 /\ 1..0 = {}
    BY <1>1
  <2>2. TextEnd(0) = 0
    BY DEF TextEnd
  <2> HIDE DEF Digits
  <2> QED
    BY <2>1, <2>2
<1>3. ASSUME NEW k \in 1..size, k - 1 \in S PROVE k \in S
  <2> DEFINE text == w[k - 1]
             chunk == Chunk(buf, k)
  <2>1. /\ text \in Seq(NonNul) /\ Len(text) = TextEnd(k - 1)
        /\ \A j \in 1..(k - 1) : Digits(text, j)
    BY <1>3
  <2>2. w[k] = text \o chunk
    BY <1>1
  <2>3. PICK n : n = SeparatorLen(k - 1)
    OBVIOUS
  <2>4. n \in 0..1
    BY <2>3 DEF SeparatorLen
  <2>5. /\ chunk \in Seq(NonNul) /\ Len(chunk) = n + 2
        /\ chunk[n + 1] = h(k) /\ chunk[n + 2] = l(k)
    BY <2>3, ChunkHas DEF IsChunk
  <2> HIDE DEF text, chunk, h, l
  <2>6. /\ text \o chunk \in Seq(NonNul)
        /\ Len(text \o chunk) = Len(text) + Len(chunk)
        /\ \A i \in 1..(Len(text) + Len(chunk)) :
             (text \o chunk)[i] =
               IF i <= Len(text) THEN text[i] ELSE chunk[i - Len(text)]
    BY <2>1, <2>5, ConcatProperties
  <2>7. PICK e \in Nat : e = TextEnd(k - 1)
    <3>1. k \in Nat /\ k # 0
      OBVIOUS
    <3> QED
      BY <3>1, Places
  <2>8. /\ PlaceInWords(k) \in Nat /\ PlaceInWords(k) = e + 1 + n
        /\ TextEnd(k) = PlaceInWords(k) + 1
    <3>1. k \in Nat /\ k # 0
      OBVIOUS
    <3>2. PlaceInWords(k) =
            TextEnd(k - 1) + 1 + SeparatorLen(k - 1)
      BY <3>1, Places
    <3> QED
      BY <2>3, <2>7, <3>1, <3>2, Places
  <2>9. Len(w[k]) = TextEnd(k) /\ w[k] \in Seq(NonNul)
    BY <2>1, <2>2, <2>4, <2>5, <2>6, <2>7, <2>8
  <2>10. PICK all : all = text \o chunk
    OBVIOUS
  <2>11. /\ \A i \in 1..e : all[i] = text[i]
         /\ \A i \in 1..(n + 2) : all[e + i] = chunk[i]
    <3>1. Len(text) = e /\ Len(chunk) = n + 2 /\ n \in Nat
      BY <2>1, <2>4, <2>5, <2>7
    <3>2. \A i \in 1..(e + (n + 2)) :
            all[i] = IF i <= e THEN text[i] ELSE chunk[i - e]
      BY <2>6, <2>10, <3>1, Zenon
    <3>3. ASSUME NEW i \in 1..e PROVE all[i] = text[i]
      <4>1. i \in 1..(e + (n + 2)) /\ i <= e
        BY <3>1
      <4> QED
        BY <3>2, <4>1, Zenon
    <3>4. ASSUME NEW i \in 1..(n + 2) PROVE all[e + i] = chunk[i]
      <4>1. e + i \in 1..(e + (n + 2)) /\ ~(e + i <= e) /\ (e + i) - e = i
        BY <3>1
      <4>2. all[e + i] = chunk[(e + i) - e]
        BY <3>2, <4>1, Zenon
      <4> QED
        BY <4>1, <4>2, Zenon
    <3> QED
      BY <3>3, <3>4
  <2>12. Digits(w[k], k)
    <3>1. /\ n + 1 \in 1..(n + 2) /\ n + 2 \in 1..(n + 2)
          /\ PlaceInWords(k) = e + (n + 1) /\ PlaceInWords(k) + 1 = e + (n + 2)
      BY <2>4, <2>8
    <3>2. all[e + (n + 1)] = h(k) /\ all[e + (n + 2)] = l(k)
      BY <2>5, <2>11, <3>1, Zenon
    <3>3. w[k] = all
      BY <2>2, <2>10, Zenon
    <3> QED
      BY <3>1, <3>2, <3>3, Zenon
  <2>13. ASSUME NEW j \in 1..(k - 1) PROVE Digits(w[k], j)
    <3>1. PICK p \in Nat : p = PlaceInWords(j) /\ p >= 1 /\ p + 1 <= e
      <4>1. k \in Nat /\ k # 0
        OBVIOUS
      <4> QED
        BY <2>7, <4>1, Places
    <3>2. p \in 1..e /\ p + 1 \in 1..e
      BY <3>1
    <3>3. all[p] = text[p] /\ all[p + 1] = text[p + 1]
      BY <2>11, <3>2, Zenon
    <3>4. text[p] = h(j) /\ text[p + 1] = l(j)
      BY <2>1, <3>1, Zenon
    <3>5. w[k] = all
      BY <2>2, <2>10, Zenon
    <3> QED
      BY <3>1, <3>3, <3>4, <3>5, Zenon
  <2>14. \A j \in 1..k : Digits(w[k], j)
    <3> HIDE DEF Digits
    <3> QED
      BY <2>12, <2>13
  <2> QED
    BY <2>9, <2>14
<1>4. size \in S
  <2> HIDE DEF S
  <2>1. PICK lo \in Int, hi \in Int : lo = 0 /\ hi = size
    OBVIOUS
  <2>2. \A k \in (lo + 1)..hi : k - 1 \in S => k \in S
    BY <1>3, <2>1
  <2>3. lo..hi \subseteq S
    BY <1>2, <2>1, <2>2, IntervalInduction
  <2> QED
    BY <2>1, <2>3
<1> QED
  BY <1>4 DEF w

(* hex_to_ascii fits in its buffer and can be read back.                   *)
LEMMA HexDecodes ==
  ASSUME NEW buf \in Seq(SignedByte)
  PROVE  /\ Len(hex_to_ascii(buf)) <= AsciiSize(buf)
         /\ Decodes(hex_to_ascii(buf), buf, PlaceInWords)
<1>1. PICK size \in Nat : size = Len(buf) /\ buf \in [1..size -> SignedByte]
  BY LenProperties
<1> DEFINE text == Written(buf)[size]
           end == <<NUL>>
           ascii == text \o end
<1>2. hex_to_ascii(buf) = ascii
  <2>1. hex_to_ascii(buf) = Written(buf)[Len(buf)] \o <<NUL>>
    BY Zenon DEF hex_to_ascii, Written
  <2> QED
    BY <1>1, <2>1
<1>3. /\ text \in Seq(NonNul) /\ Len(text) = TextEnd(size)
      /\ \A j \in 1..size :
           /\ text[PlaceInWords(j)] = UpperDigit(High(buf[j]))
           /\ text[PlaceInWords(j) + 1] = UpperDigit(Low(buf[j]))
  BY <1>1, WrittenPlaces
<1> HIDE DEF text
<1>4. PICK e \in Nat : e = TextEnd(size)
  <2>1. CASE size = 0
    BY <2>1 DEF TextEnd
  <2>2. CASE size # 0
    BY <2>2, Places
  <2> QED
    BY <2>1, <2>2
<1>5. /\ ascii \in Seq(Int) /\ Len(ascii) = e + 1 /\ ascii[e + 1] = NUL
      /\ \A k \in 1..e : ascii[k] = text[k] /\ text[k] \in NonNul
  <2>1. PICK D : D = Int
    OBVIOUS
  <2>2. NonNul \subseteq D /\ NUL \in D
    BY <2>1 DEF NonNul, NUL
  <2>3. text \in Seq(D)
    BY <1>3, <2>2, SeqMonotonic
  <2>4. end \in Seq(D) /\ Len(end) = 1 /\ end[1] = NUL
    BY <2>2
  <2> HIDE DEF end
  <2>5. /\ text \o end \in Seq(D) /\ Len(text \o end) = Len(text) + Len(end)
        /\ \A k \in 1..(Len(text) + Len(end)) :
             (text \o end)[k] = IF k <= Len(text) THEN text[k] ELSE end[k - Len(text)]
    BY <2>3, <2>4, ConcatProperties
  <2>6. text \in [1..Len(text) -> NonNul]
    BY <1>3, LenProperties
  <2>7. Len(ascii) = e + 1 /\ ascii[e + 1] = NUL
    BY <1>3, <1>4, <2>4, <2>5
  <2>8. \A k \in 1..e : ascii[k] = text[k] /\ text[k] \in NonNul
    BY <1>3, <1>4, <2>4, <2>5, <2>6
  <2> QED
    BY <2>1, <2>5, <2>7, <2>8
<1> HIDE DEF ascii
<1>6. ASSUME NEW j \in 1..size
      PROVE  /\ IsDigit(ascii[PlaceInWords(j)])
             /\ IsDigit(ascii[PlaceInWords(j) + 1])
             /\ buf[j] % 256 = 16 * DigitValue(ascii[PlaceInWords(j)])
                                 + DigitValue(ascii[PlaceInWords(j) + 1])
  <2>1. PICK p \in Nat : p = PlaceInWords(j) /\ p >= 1 /\ p + 1 <= e
    <3>1. PICK k \in Nat : k = size + 1
      OBVIOUS
    <3>2. k # 0 /\ k - 1 = size /\ j \in 1..(k - 1)
      BY <3>1
    <3>3. /\ PlaceInWords(j) \in Nat /\ PlaceInWords(j) >= 1
          /\ PlaceInWords(j) + 1 <= TextEnd(k - 1)
      BY <3>2, Places
    <3>4. TextEnd(k - 1) = e
      BY <1>4, <3>2, Zenon
    <3> QED
      BY <3>3, <3>4
  <2>2. ascii[p] = text[p] /\ ascii[p + 1] = text[p + 1]
    BY <1>5, <2>1
  <2>3. /\ ascii[PlaceInWords(j)] = UpperDigit(High(buf[j]))
        /\ ascii[PlaceInWords(j) + 1] = UpperDigit(Low(buf[j]))
    BY <1>3, <2>1, <2>2
  <2>4. buf[j] \in Int
    <3>1. SignedByte \subseteq Int
      BY DEF SignedByte
    <3> QED
      BY <1>1, <3>1
  <2>5. PICK high \in 0..15, low \in 0..15 :
          /\ high = High(buf[j]) /\ low = Low(buf[j])
          /\ buf[j] % 256 = 16 * high + low
    BY <2>4, ByteDigits
  <2>6. /\ IsDigit(UpperDigit(high)) /\ DigitValue(UpperDigit(high)) = high
        /\ IsDigit(UpperDigit(low)) /\ DigitValue(UpperDigit(low)) = low
    BY DigitsReadBack
  <2> QED
    BY <2>3, <2>5, <2>6
<1>7. Len(ascii) <= AsciiSize(buf)
  <2>1. CASE size = 0
    BY <1>1, <1>4, <1>5, <2>1 DEF AsciiSize, TextEnd, WordSize
  <2>2. CASE size # 0
    <3>1. e <= 2 * size + size \div WordSize
      BY <1>4, <2>2, Places
    <3> QED
      BY <1>1, <1>5, <3>1 DEF AsciiSize, WordSize
  <2> QED
    BY <2>1, <2>2
<1>8. \A k \in 1..(Len(ascii) - 1) : ascii[k] # NUL
  BY <1>5 DEF NonNul
<1>9. Decodes(ascii, buf, PlaceInWords)
  BY <1>1, <1>5, <1>6, <1>8 DEF Decodes
<1> QED
  BY <1>2, <1>7, <1>9

(* s is the first n characters of full.                                    *)
Spells(s, n, full) ==
  s \in Seq(Int) /\ Len(s) = n /\ \A i \in 1..n : s[i] = full[i]

(* What is spelled so far, and what comes next.                            *)
LEMMA SpellMore ==
  ASSUME NEW full, NEW n \in Nat, NEW s, Spells(s, n, full),
         NEW m \in Nat, NEW t \in Seq(Int), Len(t) = m,
         \A i \in 1..m : t[i] = full[n + i]
  PROVE  Spells(s \o t, n + m, full)
<1>1. PICK D : D = Int
  OBVIOUS
<1>2. s \in Seq(D) /\ t \in Seq(D)
  BY <1>1, Zenon DEF Spells
<1>3. /\ s \o t \in Seq(D) /\ Len(s \o t) = Len(s) + Len(t)
      /\ \A i \in 1..(Len(s) + Len(t)) :
           (s \o t)[i] = IF i <= Len(s) THEN s[i] ELSE t[i - Len(s)]
  BY <1>2, ConcatProperties
<1>4. Len(s) = n /\ \A i \in 1..n : s[i] = full[i]
  BY DEF Spells
<1>5. s \o t \in Seq(Int)
  BY <1>1, <1>3, Zenon
<1>6. ASSUME NEW i \in 1..(n + m) PROVE (s \o t)[i] = full[i]
  <2>1. CASE i <= n
    BY <1>3, <1>4, <2>1
  <2>2. CASE i > n
    <3>1. i - n \in 1..m /\ n + (i - n) = i
      BY <2>2
    <3>2. t[i - n] = full[n + (i - n)]
      BY <3>1
    <3> QED
      BY <1>3, <1>4, <2>2, <3>1, <3>2
  <2>3. i <= n \/ i > n
    OBVIOUS
  <2> QED
    BY <2>1, <2>2, <2>3, Zenon
<1> QED
  BY <1>3, <1>4, <1>5, <1>6 DEF Spells

(* One character more.                                                     *)
LEMMA SpellOne ==
  ASSUME NEW full, NEW n \in Nat, NEW s, Spells(s, n, full),
         NEW t \in Seq(Int), Len(t) = 1, t[1] = full[n + 1]
  PROVE  Spells(s \o t, n + 1, full)
<1>1. PICK m \in Nat : m = 1
  OBVIOUS
<1>2. Len(t) = m /\ \A i \in 1..m : t[i] = full[n + i]
  BY <1>1
<1>3. Spells(s \o t, n + m, full)
  BY <1>2, SpellMore
<1> QED
  BY <1>1, <1>3, Zenon

(* Two characters more.                                                    *)
LEMMA SpellTwo ==
  ASSUME NEW full, NEW n \in Nat, NEW s, Spells(s, n, full),
         NEW t \in Seq(Int), Len(t) = 2,
         t[1] = full[n + 1], t[2] = full[n + 2]
  PROVE  Spells(s \o t, n + 2, full)
<1>1. PICK m \in Nat : m = 2
  OBVIOUS
<1>2. Len(t) = m /\ \A i \in 1..m : t[i] = full[n + i]
  BY <1>1
<1>3. Spells(s \o t, n + m, full)
  BY <1>2, SpellMore
<1> QED
  BY <1>1, <1>3, Zenon

(* So can pm_oui_format, whose buffer has room for all of it.              *)
LEMMA OuiDecodes ==
  ASSUME NEW oui \in Byte \X Byte \X Byte
  PROVE  Decodes(pm_oui_format(oui), oui, PlaceInOui)
<1> DEFINE h(i) == LowerDigit(High(oui[i]))
           l(i) == LowerDigit(Low(oui[i]))
<1>1. Len(oui) = 3 /\ oui[1] \in Byte /\ oui[2] \in Byte /\ oui[3] \in Byte
  OBVIOUS
<1>2. ASSUME NEW i \in 1..3
      PROVE  /\ h(i) \in NonNul /\ l(i) \in NonNul
             /\ IsDigit(h(i)) /\ IsDigit(l(i))
             /\ oui[i] % 256 = 16 * DigitValue(h(i)) + DigitValue(l(i))
  <2>1. oui[i] \in Int
    BY <1>1 DEF Byte
  <2>2. PICK high \in 0..15, low \in 0..15 :
          /\ high = High(oui[i]) /\ low = Low(oui[i])
          /\ oui[i] % 256 = 16 * high + low
    BY <2>1, ByteDigits
  <2>3. /\ IsDigit(LowerDigit(high)) /\ DigitValue(LowerDigit(high)) = high
        /\ IsDigit(LowerDigit(low)) /\ DigitValue(LowerDigit(low)) = low
        /\ LowerDigit(high) \in NonNul /\ LowerDigit(low) \in NonNul
    BY DigitsReadBack
  <2> QED
    BY <2>2, <2>3
<1>3. PICK a1 \in NonNul, b1 \in NonNul : a1 = h(1) /\ b1 = l(1)
  BY <1>2
<1>4. PICK a2 \in NonNul, b2 \in NonNul : a2 = h(2) /\ b2 = l(2)
  BY <1>2
<1>5. PICK a3 \in NonNul, b3 \in NonNul : a3 = h(3) /\ b3 = l(3)
  BY <1>2
<1>6. DASH \in NonNul /\ NonNul \subseteq Int /\ NUL \in Int
  BY DEF DASH, NonNul, NUL
<1> DEFINE pair1 == <<a1, b1>>
           pair2 == <<a2, b2>>
           pair3 == <<a3, b3>>
           dash == <<DASH>>
           end == <<NUL>>
           text == pair1 \o dash \o pair2 \o dash \o pair3
           ascii == SubSeq(text, 1, OuiSize - 1) \o end
<1>7. pm_oui_format(oui) = ascii
  BY <1>3, <1>4, <1>5 DEF pm_oui_format
<1>8. PICK full : full = <<a1, b1, DASH, a2, b2, DASH, a3, b3, NUL>>
  OBVIOUS
<1>9. /\ full[1] = a1 /\ full[2] = b1 /\ full[3] = DASH
      /\ full[4] = a2 /\ full[5] = b2 /\ full[6] = DASH
      /\ full[7] = a3 /\ full[8] = b3 /\ full[9] = NUL
  BY <1>8
<1>10. Spells(ascii, 9, full)
  <2>1. Spells(pair1, 2, full)
    BY <1>6, <1>9 DEF Spells
  <2>2. /\ dash \in Seq(Int) /\ Len(dash) = 1 /\ dash[1] = DASH
        /\ end \in Seq(Int) /\ Len(end) = 1 /\ end[1] = NUL
    BY <1>6
  <2>3. /\ pair2 \in Seq(Int) /\ Len(pair2) = 2
        /\ pair2[1] = a2 /\ pair2[2] = b2
        /\ pair3 \in Seq(Int) /\ Len(pair3) = 2
        /\ pair3[1] = a3 /\ pair3[2] = b3
    BY <1>6
  <2> HIDE DEF pair1, pair2, pair3, dash, end
  <2>4. Spells(pair1 \o dash, 3, full)
    <3>1. PICK n \in Nat : n = 2
      OBVIOUS
    <3>2. Spells(pair1, n, full) /\ dash[1] = full[n + 1] /\ n + 1 = 3
      BY <1>9, <2>1, <2>2, <3>1
    <3>3. Spells(pair1 \o dash, n + 1, full)
      BY <2>2, <3>2, SpellOne
    <3> QED
      BY <3>2, <3>3, Zenon
  <2>5. Spells(pair1 \o dash \o pair2, 5, full)
    <3>1. PICK n \in Nat : n = 3
      OBVIOUS
    <3>2. /\ Spells(pair1 \o dash, n, full) /\ n + 2 = 5
          /\ pair2[1] = full[n + 1] /\ pair2[2] = full[n + 2]
      BY <1>9, <2>3, <2>4, <3>1
    <3>3. Spells(pair1 \o dash \o pair2, n + 2, full)
      BY <2>3, <3>2, SpellTwo
    <3> QED
      BY <3>2, <3>3, Zenon
  <2>6. Spells(pair1 \o dash \o pair2 \o dash, 6, full)
    <3>1. PICK n \in Nat : n = 5
      OBVIOUS
    <3>2. /\ Spells(pair1 \o dash \o pair2, n, full)
          /\ dash[1] = full[n + 1] /\ n + 1 = 6
      BY <1>9, <2>5, <2>2, <3>1
    <3>3. Spells(pair1 \o dash \o pair2 \o dash, n + 1, full)
      BY <2>2, <3>2, SpellOne
    <3> QED
      BY <3>2, <3>3, Zenon
  <2>7. Spells(text, 8, full)
    <3>1. PICK n \in Nat : n = 6
      OBVIOUS
    <3>2. /\ Spells(pair1 \o dash \o pair2 \o dash, n, full) /\ n + 2 = 8
          /\ pair3[1] = full[n + 1] /\ pair3[2] = full[n + 2]
      BY <1>9, <2>3, <2>6, <3>1
    <3>3. Spells(text, n + 2, full)
      BY <2>3, <3>2, SpellTwo
    <3> QED
      BY <3>2, <3>3, Zenon
  <2> HIDE DEF text
  <2>8. SubSeq(text, 1, OuiSize - 1) = text
    <3>1. PICK D : D = Int
      OBVIOUS
    <3>2. text \in Seq(D) /\ Len(text) = 8
      BY <2>7, <3>1 DEF Spells
    <3>3. SubSeq(text, 1, Len(text)) = text
      BY <3>2, SubSeqFull
    <3>4. OuiSize - 1 = 8
      BY DEF OuiSize
    <3> QED
      BY <3>2, <3>3, <3>4, Zenon
  <2>9. Spells(text \o end, 9, full)
    <3>1. PICK n \in Nat : n = 8
      OBVIOUS
    <3>2. Spells(text, n, full) /\ end[1] = full[n + 1] /\ n + 1 = 9
      BY <1>9, <2>2, <2>7, <3>1
    <3>3. Spells(text \o end, n + 1, full)
      BY <2>2, <3>2, SpellOne
    <3> QED
      BY <3>2, <3>3, Zenon
  <2> QED
    BY <2>8, <2>9, Zenon
<1> HIDE DEF ascii
<1>11. /\ Len(ascii) = 9 /\ ascii[9] = NUL
       /\ ascii[1] = a1 /\ ascii[2] = b1 /\ ascii[3] = DASH
       /\ ascii[4] = a2 /\ ascii[5] = b2 /\ ascii[6] = DASH
       /\ ascii[7] = a3 /\ ascii[8] = b3
  BY <1>9, <1>10 DEF Spells
<1>12. \A k \in 1..(Len(ascii) - 1) : ascii[k] # NUL
  BY <1>6, <1>11 DEF NonNul
<1>13. ASSUME NEW i \in 1..Len(oui)
       PROVE  ascii[PlaceInOui(i)] = h(i) /\ ascii[PlaceInOui(i) + 1] = l(i)
  BY <1>1, <1>3, <1>4, <1>5, <1>11 DEF PlaceInOui
<1> HIDE DEF h, l
<1>14. Decodes(ascii, oui, PlaceInOui)
  BY <1>1, <1>2, <1>11, <1>12, <1>13 DEF Decodes
<1> QED
  BY <1>7, <1>14

(* HexIsFaithful: any page, and any OUI, is printed in full and can be     *)
(* read back.                                                              *)
THEOREM HexIsFaithful == Spec => []HexFaithful
<1>1. Init => HexFaithful
  BY DEF Init, Idle, HexFaithful
<1>2. HexFaithful /\ [Next]_last => HexFaithful'
  <2> SUFFICES ASSUME HexFaithful, [Next]_last PROVE HexFaithful'
    OBVIOUS
  <2>1. CASE last'.routine \notin {"hex_to_ascii", "pm_oui_format"}
    BY <2>1 DEF HexFaithful
  <2>2. ASSUME NEW buf \in Buffers, HexToAscii(buf) PROVE HexFaithful'
    <3>1. /\ last'.routine = "hex_to_ascii" /\ last'.buf = buf
          /\ last'.ascii = hex_to_ascii(buf)
      BY <2>2 DEF HexToAscii
    <3>2. buf \in Seq(SignedByte)
      BY BuffersAssumption
    <3> QED
      BY <3>1, <3>2, HexDecodes DEF HexFaithful
  <2>3. ASSUME NEW oui \in Ouis, OuiFormat(oui) PROVE HexFaithful'
    <3>1. /\ last'.routine = "pm_oui_format" /\ last'.oui = oui
          /\ last'.ascii = pm_oui_format(oui)
      BY <2>3 DEF OuiFormat
    <3>2. oui \in Byte \X Byte \X Byte
      BY OuisAssumption
    <3> QED
      BY <3>1, <3>2, OuiDecodes DEF HexFaithful
  <2>4. CASE last' = last
    BY <2>4 DEF HexFaithful
  <2>5. \/ last'.routine \notin {"hex_to_ascii", "pm_oui_format"}
        \/ last' = last
        \/ \E buf \in Buffers : HexToAscii(buf)
        \/ \E oui \in Ouis : OuiFormat(oui)
    BY DEF Next, VerifySum, StripField, SetTemperature, SetWord, SetReading,
           PublishDom, Return, Idle
  <2> QED
    BY <2>1, <2>2, <2>3, <2>4, <2>5, Zenon
<1> QED
  BY <1>1, <1>2, PTL DEF Spec
=============================================================================
