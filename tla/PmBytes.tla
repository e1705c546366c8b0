------------------------------- MODULE PmBytes ------------------------------
(***************************************************************************)
(* The routines of ops-pmd that work on the bytes of a page                *)
(* (src/src/pm_detect.c, src/src/pm_dom.c), and the columns that           *)
(* pm_ovsdb_update takes from what they leave (src/src/ovsdb_access.c).    *)
(*                                                                         *)
(* Characters are ASCII codes.  char is signed, as on the platforms the    *)
(* daemon runs on.                                                         *)
(***************************************************************************)
EXTENDS PmDom, Sequences

CONSTANTS Pages,          \* serial ID pages with correct check bytes
          Buffers,        \* buffers of signed bytes to print
          Ouis,           \* vendor OUIs
          Fields,         \* text fields of a page
          Temperatures,   \* pairs of a signed and an unsigned byte
          Words           \* 16 bit readings

Byte == 0..255

SignedByte == -128..127

Uint16 == 0..65535

NUL == 0

SPACE == 32

DASH == 45

PageBytes == 0..95

(* The check bytes by their definition: the low byte of the sum.           *)
Total(page, from, to) ==
  LET sum[idx \in (from - 1)..to] ==
        IF idx < from THEN 0 ELSE sum[idx - 1] + page[idx]
  IN  sum[to]

ASSUME PagesAssumption ==
  \A page \in Pages :
    /\ page \in [PageBytes -> Byte]
    /\ page[63] = Total(page, 0, 62) % 256
    /\ page[95] = Total(page, 64, 94) % 256

ASSUME BuffersAssumption == \A buf \in Buffers : buf \in Seq(SignedByte)

ASSUME OuisAssumption == Ouis \subseteq Byte \X Byte \X Byte

ASSUME FieldsAssumption ==
  \A field \in Fields : field \in Seq(SignedByte) /\ field # <<>>

ASSUME TemperaturesAssumption == Temperatures \subseteq SignedByte \X Byte

ASSUME WordsAssumption ==
  /\ Words \subseteq Uint16
  /\ \A word \in Words : word % 100 # 50

VARIABLE last   \* the last call, with its arguments and its result

Idle == [routine |-> "none"]

Init == last = Idle

(***************************************************************************)
(* The check bytes of a serial ID page.                                    *)
(***************************************************************************)
pm_byte_sum(block, start, end, offset) ==
  LET value[idx \in (start - 1)..end] ==
        IF idx < start THEN 0 ELSE (value[idx - 1] + block[idx]) % 256
  IN  IF value[end] # block[offset] THEN 1 ELSE 0

(* A slip: the range taken as half open.                                   *)
SumVerifyHalfOpen(page) ==
  pm_byte_sum(page, 0, 61, 63) + pm_byte_sum(page, 64, 93, 95)

sfpp_sum_verify(page) ==
  pm_byte_sum(page, 0, 62, 63) + pm_byte_sum(page, 64, 94, 95)

AllOnes == [i \in PageBytes |-> 255]

(* The page as it is, with one byte changed on the bus, or nobody driving  *)
(* the bus.                                                                *)
Arrivals(page) ==
  {[page EXCEPT ![i] = byte] : i \in PageBytes, byte \in Byte} \cup {AllOnes}

VerifySum(page) ==
  /\ last = Idle
  /\ \E read \in Arrivals(page) :
       last' = [routine |-> "sfpp_sum_verify", page |-> page, read |-> read,
                result |-> sfpp_sum_verify(read)]

(***************************************************************************)
(* Hex output: of a page in words of four bytes, and of the OUI.           *)
(***************************************************************************)
(* ascii_map, and the digits of %02x.                                      *)
UpperDigit(d) == IF d < 10 THEN 48 + d ELSE 55 + d

LowerDigit(d) == IF d < 10 THEN 48 + d ELSE 87 + d

High(byte) == (byte % 256) \div 16

Low(byte) == byte % 16

WordSize == 4

AsciiSize(buf) == 2 * Len(buf) + Len(buf) \div WordSize + 1

(* A slip: a separator also before the first word.                         *)
SeparatorFirst(i) == IF i % WordSize = 0 THEN <<SPACE>> ELSE <<>>

Separator(i) == IF i > 0 /\ i % WordSize = 0 THEN <<SPACE>> ELSE <<>>

hex_to_ascii(buf) ==
  LET ascii[i \in 0..Len(buf)] ==
        IF i = 0 THEN <<>>
        ELSE ascii[i - 1] \o Separator(i - 1)
               \o <<UpperDigit(High(buf[i])), UpperDigit(Low(buf[i]))>>
  IN  ascii[Len(buf)] \o <<NUL>>

HexToAscii(buf) ==
  /\ last = Idle
  /\ last' = [routine |-> "hex_to_ascii", buf |-> buf,
              ascii |-> hex_to_ascii(buf)]

OuiSize == 9

(* snprintf cuts what does not fit, and ends it with a NUL.                *)
pm_oui_format(oui) ==
  LET hex(byte) == <<LowerDigit(High(byte)), LowerDigit(Low(byte))>>
      text == hex(oui[1]) \o <<DASH>> \o hex(oui[2]) \o <<DASH>> \o hex(oui[3])
  IN  SubSeq(text, 1, OuiSize - 1) \o <<NUL>>

OuiFormat(oui) ==
  /\ last = Idle
  /\ last' = [routine |-> "pm_oui_format", oui |-> oui,
              ascii |-> pm_oui_format(oui)]

(***************************************************************************)
(* The text fields: copied, terminated, and stripped of trailing spaces.   *)
(***************************************************************************)
CString(buf) ==
  SubSeq(buf, 1, (CHOOSE i \in 1..Len(buf) :
                    buf[i] = NUL /\ \A j \in 1..(i - 1) : buf[j] # NUL) - 1)

(* Where the loop ends that starts at the last byte; idx counts from 0.    *)
(* A slip: it ends one byte early.                                         *)
StripEndEarly(field) ==
  LET end[idx \in 0..(Len(field) - 1)] ==
        IF idx > 1 /\ field[idx + 1] = SPACE THEN end[idx - 1] ELSE idx
  IN  end[Len(field) - 1]

StripEnd(field) ==
  LET end[idx \in 0..(Len(field) - 1)] ==
        IF idx > 0 /\ field[idx + 1] = SPACE THEN end[idx - 1] ELSE idx
  IN  end[Len(field) - 1]

Stripped(field) ==
  CString([i \in 1..(Len(field) + 1) |->
             IF i <= StripEnd(field) + 1 THEN field[i] ELSE NUL])

StripField(field) ==
  /\ last = Idle
  /\ last' = [routine |-> "pm_parse", field |-> field,
              text |-> Stripped(field)]

(***************************************************************************)
(* The readings of pm_set_a2, in 0.0001 units, and their columns.          *)
(***************************************************************************)
(* A slip: the fraction that the code means to keep, kept.                 *)
TemperatureFraction(msb, lsb) == 10000 * msb + (10000 * lsb) \div 256

(* The quotient of two integers is an integer before it is a float.        *)
Temperature(msb, lsb) == 10000 * msb + 10000 * (lsb \div 256)

Word(msb, lsb) == msb * 256 + lsb

Volts(word) == word

Milliamperes(word) == 20 * word

Milliwatts(word) == word

(* The column as the reading before left it; NULL in a new record.         *)
Printed(quantity) ==
  IF last.routine = "pm_set_a2" /\ last.quantity = quantity
  THEN last.printed ELSE NULL

SetReading(quantity, bytes, raw) ==
  /\ last # Idle => Printed(quantity) # NULL
  /\ last' = [routine |-> "pm_set_a2", quantity |-> quantity,
              bytes |-> bytes, raw |-> raw,
              printed |-> SetFloatString(Printed(quantity), raw)]

SetTemperature(bytes) ==
  SetReading("temperature", bytes, Temperature(bytes[1], bytes[2]))

SetWord(bytes) ==
  LET word == Word(bytes[1], bytes[2])
  IN  \/ SetReading("vcc", bytes, Volts(word))
      \/ SetReading("bias", bytes, Milliamperes(word))
      \/ SetReading("power", bytes, Milliwatts(word))

(***************************************************************************)
(* The columns of ovs_module_dom_info: a quantity has its value, four      *)
(* flags and four thresholds.                                              *)
(***************************************************************************)
Flags == {"high_alarm", "low_alarm", "high_warning", "low_warning"}

Thresholds == {"high_alarm_threshold", "low_alarm_threshold",
               "high_warning_threshold", "low_warning_threshold"}

SfpQuantities == {"temperature", "vcc", "tx_bias", "rx_power", "tx_power"}

Lanes == {"tx1_bias", "tx2_bias", "tx3_bias", "tx4_bias",
          "rx1_power", "rx2_power", "rx3_power", "rx4_power"}

Suffixes == {"value"} \cup Flags \cup Thresholds

(* A slip: one alarm flag of the transmit power left unset.                *)
SfpColumnsNoTxAlarm ==
  (SfpQuantities \X Suffixes) \ {<<"tx_power", "high_alarm">>}

SfpColumns == SfpQuantities \X Suffixes

QsfpColumns ==
  ({"temperature", "vcc"} \X {"value"}) \cup (Lanes \X ({"value"} \cup Flags))

(* What pm_set_a2 sets, once it has been called for the cage.              *)
ColumnsSet(cage) == IF cage = "SFP_PLUS" THEN SfpColumns ELSE QsfpColumns

(* The column whose presence decides whether column is published.          *)
Guard(column) ==
  IF column = <<"tx_power", "high_alarm">>
  THEN <<"rx_power", "high_alarm">> ELSE column

(* The columns pm_ovsdb_update adds to the map, of the module as a whole   *)
(* and of its lanes.                                                       *)
ModuleAdded(columns) ==
  {c \in SfpQuantities \X Suffixes : Guard(c) \in columns}

LanesAdded(columns) == {c \in Lanes \X Suffixes : c \in columns}

PublishDom(columns) ==
  /\ last = Idle
  /\ last' = [routine |-> "pm_ovsdb_update", columns |-> columns,
              added |-> ModuleAdded(columns) \cup LanesAdded(columns)]

Return ==
  /\ last # Idle
  /\ last' = Idle

Next ==
  \/ \E page \in Pages : VerifySum(page)
  \/ \E buf \in Buffers : HexToAscii(buf)
  \/ \E oui \in Ouis : OuiFormat(oui)
  \/ \E field \in Fields : StripField(field)
  \/ \E bytes \in Temperatures : SetTemperature(bytes)
  \/ \E word \in Words : SetWord(<<word \div 256, word % 256>>)
  \/ \E columns \in {{}} \cup {ColumnsSet(cage) : cage \in Connectors} :
       PublishDom(columns)
  \/ Return

Spec == Init /\ [][Next]_last

(***************************************************************************)
(* Properties.                                                             *)
(***************************************************************************)

(* SingleByteErrorDetected: sfpp_sum_verify accepts a page with correct    *)
(* check bytes as it is, and with no one byte changed, be it a check byte; *)
(* nor does it accept what a bus without a module reads.                   *)
SingleByteErrorDetected ==
  last.routine = "sfpp_sum_verify" =>
    (last.result = 0 <=> last.read = last.page)

DigitValue(c) ==
  IF c < 58 THEN c - 48 ELSE IF c < 71 THEN c - 55 ELSE c - 87

IsDigit(c) == c \in (48..57) \cup (65..70) \cup (97..102)

(* The text is a C string without an early end, and has the two digits of  *)
(* byte i at place(i).                                                     *)
Decodes(text, bytes, place(_)) ==
  /\ text[Len(text)] = NUL
  /\ \A k \in 1..(Len(text) - 1) : text[k] # NUL
  /\ \A i \in 1..Len(bytes) :
       LET high == text[place(i)]
           low == text[place(i) + 1]
       IN  /\ IsDigit(high) /\ IsDigit(low)
           /\ bytes[i] % 256 = 16 * DigitValue(high) + DigitValue(low)

(* In words of four bytes, and in single bytes, with a separator between.  *)
PlaceInWords(i) == 2 * i - 1 + (i - 1) \div WordSize

PlaceInOui(i) == 3 * i - 2

(* HexFaithful: what hex_to_ascii writes, separators and NUL included,     *)
(* fits in what it allocates and can be read back to the bytes of the      *)
(* page, negative ones too; pm_oui_format loses no digit to its buffer.    *)
HexFaithful ==
  /\ last.routine = "hex_to_ascii" =>
       /\ Len(last.ascii) <= AsciiSize(last.buf)
       /\ Decodes(last.ascii, last.buf, PlaceInWords)
  /\ last.routine = "pm_oui_format" =>
       Decodes(last.ascii, last.oui, PlaceInOui)

(* StripKeepsText: of the text of a field only trailing spaces are lost,   *)
(* also of fields with a NUL in them; and if there is none, no trailing    *)
(* space is left but the first character of a blank field.                 *)
StripKeepsText ==
  last.routine = "pm_parse" =>
    LET text == CString(Append(last.field, NUL))
        kept == last.text
    IN  /\ Len(kept) <= Len(text)
        /\ kept = SubSeq(text, 1, Len(kept))
        /\ \A i \in (Len(kept) + 1)..Len(text) : text[i] = SPACE
        /\ (\A i \in 1..Len(last.field) : last.field[i] # NUL) =>
             Len(kept) = 1 \/ kept[Len(kept)] # SPACE

(* TemperatureIsCurrent: the temperature on record is the last one read,   *)
(* down to the degree below it, whatever was read before: strtol reads the *)
(* stored string in full, because it never has a fraction.                 *)
TemperatureIsCurrent ==
  last.routine = "pm_set_a2" /\ last.quantity = "temperature" =>
    LET raw == 256 * last.bytes[1] + last.bytes[2]
    IN  /\ 256 * last.printed <= 100 * raw
        /\ 100 * raw < 256 * (last.printed + 100)

(* DriftBounded: any other column is off by more than the rounding to two  *)
(* decimals only if the last reading is a whole number; then it may keep   *)
(* the fraction of an earlier reading, and is less than one unit too high. *)
DriftBounded ==
  last.routine = "pm_set_a2" /\ last.quantity # "temperature" =>
    Near(last.printed, last.raw)

(* PublishesWhatIsSet: the map holds every column that pm_set_a2 has set,  *)
(* and smap_add is given no null pointer, although the guard of one column *)
(* looks at another.                                                       *)
PublishesWhatIsSet ==
  last.routine = "pm_ovsdb_update" => last.added = last.columns
=============================================================================
