------------------------- MODULE PlugContractProofs -------------------------
(***************************************************************************)
(* One scan of Plug has the outcomes that Pmd takes it to have, for any    *)
(* modules in any kind of cage: what makes it sound to treat the scan of a *)
(* cage as a single step.                                                  *)
(*                                                                         *)
(* The hypothesis is that a module is not replaced before its removal has  *)
(* been noticed (~FastSwap).  Without it the A2 page may come from another *)
(* module than the serial ID, which no scan in one step can do.            *)
(***************************************************************************)
EXTENDS PlugContract, PlugProofs

(* The history variables against the cage.                                 *)
HistoryMatches ==
  /\ entry \in Port
  /\ seen \subseteq Modules \cup {Empty}
  /\ slot \in seen
  /\ disturbed \in BOOLEAN
  /\ bus = "flaky" => disturbed

(* Until its page has been parsed, the record is the one the scan began    *)
(* with; after that it is what pm_parse made of it.                        *)
RecordSinceEntry ==
  /\ pc # "a2" => port = entry
  /\ pc \in WantedPoints => \E c \in seen : c # Empty
  /\ pc = "a2" => \E c \in seen : /\ c # Empty
                                  /\ A0[c].sums_ok
                                  /\ A0Wanted(entry)
                                  /\ port = Identify(entry, Cage, c)

(* A retry goes through pm_reset_port, which on a working bus leaves the   *)
(* reset cleared; the A2 page is read from a module that has just answered.*)
ResetCleared ==
  /\ pc = "a2" => ~held
  /\ (~disturbed /\ retry_count # RetryCount /\ pc \in {"presence", "a0"})
       => ~held

ContractInv ==
  /\ ScanInv
  /\ held => HasReset
  /\ InScan => HistoryMatches /\ RecordSinceEntry /\ ResetCleared

(* The invariant holds before the daemon runs.                             *)
LEMMA ContractInvInit == CInit => ContractInv
<1> SUFFICES ASSUME CInit PROVE ContractInv
  OBVIOUS
<1>1. ScanInv
  BY ScanInvInit DEF CInit
<1>2. (held => HasReset) /\ ~InScan
  BY DEF CInit, Init, InScan, ScanPoints
<1> QED
  BY <1>1, <1>2 DEF ContractInv

(* A step that stays in the scan keeps the history.                        *)
LEMMA HistoryKept ==
  ASSUME ContractInv, ScanInv', InScan, InScan', CNext
  PROVE  /\ HistoryMatches'
         /\ entry' = entry
         /\ seen \subseteq seen'
         /\ disturbed => disturbed'
<1>1. /\ entry' = entry
      /\ seen' = seen \cup {slot'}
      /\ disturbed' = (disturbed \/ bus' = "flaky")
  BY DEF CNext, InScan
<1>2. HistoryMatches
  BY DEF ContractInv
<1> QED
  BY <1>1, <1>2 DEF HistoryMatches, ScanInv, TypeOK

(* The steps of cage and bus during a scan.                                *)
LEMMA ContractEnvironment ==
  ASSUME ContractInv, ScanInv', InScan, CNext, Environment
  PROVE  ContractInv'
<1>1. UNCHANGED <<held, port, pc, retry_count>>
  BY DEF Environment, Insert, Remove, BusDegrades, BusSettles, counts
<1>2. InScan'
  BY <1>1 DEF InScan
<1>3. /\ HistoryMatches'
      /\ entry' = entry
      /\ seen \subseteq seen'
      /\ disturbed => disturbed'
  BY <1>2, HistoryKept
<1>4. RecordSinceEntry'
  BY <1>1, <1>3 DEF ContractInv, RecordSinceEntry
<1>5. ResetCleared'
  BY <1>1, <1>3 DEF ContractInv, ResetCleared
<1> QED
  BY <1>1, <1>3, <1>4, <1>5 DEF ContractInv

(* The scan begins: the record is remembered, and what is in the cage.     *)
LEMMA ContractStart ==
  ASSUME ContractInv, ScanInv', CNext, StartScan
  PROVE  ContractInv'
<1>1. /\ ~InScan /\ pc' = "presence" /\ retry_count' = RetryCount
      /\ UNCHANGED <<slot, held, bus, port>>
  BY DEF StartScan, InScan, ScanPoints, hw
<1>2. /\ entry' = port
      /\ seen' = {slot'}
      /\ disturbed' = (bus' = "flaky")
  BY <1>1 DEF CNext, ScanPoints
<1>3. HistoryMatches'
  BY <1>1, <1>2 DEF HistoryMatches, ContractInv, ScanInv, TypeOK
<1>4. RecordSinceEntry' /\ ResetCleared'
  BY <1>1, <1>2 DEF RecordSinceEntry, ResetCleared, WantedPoints
<1> QED
  BY <1>1, <1>3, <1>4 DEF ContractInv

(* The step of the scan that parses the page and goes on to the A2 page.   *)
LEMMA ContractReadA0 ==
  ASSUME ContractInv, ScanInv', InScan', CNext, ReadA0
  PROVE  ContractInv'
<1>1. /\ pc = "a0" /\ pc' = "a2"
      /\ slot # Empty /\ ~held /\ A0[slot].sums_ok
      /\ port' = Identify(port, Cage, slot)
      /\ UNCHANGED <<slot, held, bus>>
  BY DEF ReadA0, Return, PageIntact, Reachable, hw, InScan, ScanPoints
<1>2. InScan /\ A0Wanted(port) /\ port = entry
  BY <1>1 DEF InScan, ScanPoints, ContractInv, ScanInv, PointsMatch,
              RecordSinceEntry, WantedPoints
<1>3. /\ HistoryMatches'
      /\ entry' = entry
      /\ seen \subseteq seen'
  BY <1>2, HistoryKept
<1>4. slot \in seen
  BY <1>2 DEF ContractInv, HistoryMatches
<1>5. RecordSinceEntry'
  <2>1. A0Wanted(entry') /\ port' = Identify(entry', Cage, slot)
    BY <1>1, <1>2, <1>3
  <2>2. slot \in seen'
    BY <1>3, <1>4
  <2> QED
    BY <1>1, <2>1, <2>2 DEF RecordSinceEntry, WantedPoints
<1>6. ResetCleared'
  BY <1>1 DEF ResetCleared
<1> QED
  BY <1>1, <1>3, <1>5, <1>6 DEF ContractInv

(* The other steps that stay in the scan leave the record alone.           *)
LEMMA ContractMove ==
  ASSUME ContractInv, ScanInv', CNext,
         \/ PresenceReadFails \/ SeesPresent \/ RetryA0 \/ SetReset
         \/ ClearReset \/ RetryA2,
         InScan'
  PROVE  ContractInv'
<1>1. InScan /\ UNCHANGED <<slot, bus, port>>
  BY DEF PresenceReadFails, SeesPresent, RetryA0, SetReset, ClearReset,
         RetryA2, hw, InScan, ScanPoints
<1>2. /\ HistoryMatches' /\ HistoryMatches
      /\ entry' = entry
      /\ seen \subseteq seen'
      /\ disturbed => disturbed'
  BY <1>1, HistoryKept DEF ContractInv
<1>3. pc = "a2" <=> pc' = "a2"
  BY <1>1 DEF ContractInv, ScanInv, PointsMatch
<1>4. RecordSinceEntry'
  <2>1. pc' \in WantedPoints => \E c \in seen : c # Empty
    BY <1>1, <1>2
       DEF PresenceReadFails, SeesPresent, RetryA0, SetReset, ClearReset,
           RetryA2, ContractInv, RecordSinceEntry, HistoryMatches,
           WantedPoints, Return
  <2> QED
    BY <1>1, <1>2, <1>3, <2>1 DEF ContractInv, RecordSinceEntry
<1>5. held' => HasReset
  BY DEF PresenceReadFails, SeesPresent, RetryA0, SetReset, ClearReset,
         RetryA2, pm_clear_reset, hw, ContractInv
<1>6. ResetCleared'
  <2>1. CASE PresenceReadFails \/ SeesPresent
    BY <1>1, <1>2, <1>3, <2>1
       DEF PresenceReadFails, SeesPresent, Return, hw, counts, ContractInv,
           ResetCleared, InScan, ScanPoints
  <2>2. CASE RetryA0 \/ SetReset
    BY <2>2 DEF RetryA0, SetReset, ResetCleared
  <2>3. CASE ClearReset
    <3>1. pc' = "presence"
      BY <2>3 DEF ClearReset
    <3>2. ~disturbed' => ~held'
      BY <1>2, <2>3, CageAssumption
         DEF ClearReset, pm_clear_reset, MayFail, HistoryMatches, ContractInv
    <3> QED
      BY <3>1, <3>2 DEF ResetCleared
  <2>4. CASE RetryA2
    BY <1>1, <2>4 DEF RetryA2, hw, ContractInv, ResetCleared
  <2> QED
    BY <2>1, <2>2, <2>3, <2>4
<1> QED
  BY <1>2, <1>4, <1>5, <1>6 DEF ContractInv

(* A step that leaves the daemon outside the scan has only the reset line  *)
(* to look after.                                                          *)
LEMMA ContractOutside ==
  ASSUME ContractInv, ScanInv', Next, ~InScan'
  PROVE  ContractInv'
<1>1. held' => HasReset
  BY DEF Next, Daemon, Environment, Insert, Remove, BusDegrades, BusSettles,
         Create, Modify, StartScan, Crash, ScanStep, PresenceReadFails,
         SeesAbsent, SeesPresent, ReadA0, RetryA0, GiveUpA0, SetReset,
         ClearReset, ReadA2, RetryA2, GiveUpA2, pm_clear_reset, hw,
         ContractInv
<1> QED
  BY <1>1 DEF ContractInv

(* The invariant is inductive.                                             *)
LEMMA ContractInvNext ==
  ContractInv /\ [CNext]_contract_vars => ContractInv'
<1> SUFFICES ASSUME ContractInv, [CNext]_contract_vars PROVE ContractInv'
  OBVIOUS
<1>1. ScanInv'
  BY ScanInvNext DEF ContractInv, CNext, contract_vars
<1>2. CASE UNCHANGED contract_vars
  BY <1>1, <1>2
     DEF contract_vars, vars, ContractInv, InScan, HistoryMatches,
         RecordSinceEntry, ResetCleared
<1>3. CASE CNext /\ ~InScan'
  BY <1>1, <1>3, ContractOutside DEF CNext
<1>4. CASE CNext /\ InScan'
  <2>1. \/ Environment /\ InScan
        \/ StartScan
        \/ ReadA0
        \/ PresenceReadFails \/ SeesPresent \/ RetryA0 \/ SetReset
        \/ ClearReset \/ RetryA2
    BY <1>4 DEF CNext, Next, Daemon, ScanStep, Environment, Create, Modify,
                Crash, SeesAbsent, GiveUpA0, ReadA2, GiveUpA2, Return,
                Insert, Remove, BusDegrades, BusSettles, InScan, ScanPoints
  <2> QED
    BY <1>1, <1>4, <2>1, ContractEnvironment, ContractStart, ContractReadA0,
       ContractMove
<1> QED
  BY <1>2, <1>3, <1>4

(* ContractInvariant: the invariant holds at every i2c step.               *)
THEOREM ContractInvariant == CSpec => []ContractInv
  BY ContractInvInit, ContractInvNext, PTL DEF CSpec

(***************************************************************************)
(* The step that ends the scan.                                            *)
(***************************************************************************)
(* What ScanKeepsContract asks of it.                                      *)
Allowed ==
  /\ \E c \in seen : port' \in ScanOutcomes(entry, Cage, c, TRUE)
  /\ (~disturbed /\ seen = {slot})
       => port' \in ScanOutcomes(entry, Cage, slot, FALSE)

(* The outcomes of a scan, one by one.                                     *)
LEMMA OutcomesListed ==
  ASSUME NEW p, NEW cage, NEW c, NEW d \in BOOLEAN
  PROVE  /\ c = Empty \/ d => MarkAbsent(p) \in ScanOutcomes(p, cage, c, d)
         /\ c # Empty /\ A0Wanted(p) /\ (~A0[c].sums_ok \/ d)
              => MarkUnknown(p) \in ScanOutcomes(p, cage, c, d)
         /\ c # Empty /\ A0Wanted(p) /\ A0[c].sums_ok
              => Monitored(Identify(p, cage, c), c, d)
                   \subseteq ScanOutcomes(p, cage, c, d)
         /\ c # Empty /\ ~A0Wanted(p)
              => Monitored(p, c, d) \subseteq ScanOutcomes(p, cage, c, d)
  BY DEF ScanOutcomes, If

(* The cage turns out empty, or seems to.                                  *)
LEMMA AbsentAllowed ==
  ASSUME ContractInv, InScan, SeesAbsent
  PROVE  Allowed
<1>1. /\ port' = MarkAbsent(entry)
      /\ slot \in seen
      /\ ~disturbed => slot = Empty
  BY DEF SeesAbsent, MayFail, ContractInv, RecordSinceEntry, HistoryMatches
<1> QED
  BY <1>1, OutcomesListed DEF Allowed

(* The module is known and there is nothing to read from it.               *)
LEMMA PresentAllowed ==
  ASSUME ContractInv, InScan, SeesPresent, pc' = "idle"
  PROVE  Allowed
<1>1. /\ port' = entry /\ slot \in seen /\ slot # Empty
      /\ ~A0Wanted(entry) /\ ~entry.a2_read_requested
  BY DEF SeesPresent, ContractInv, RecordSinceEntry, HistoryMatches
<1>2. \A d \in BOOLEAN : entry \in Monitored(entry, slot, d)
  BY <1>1 DEF Monitored
<1> QED
  BY <1>1, <1>2, OutcomesListed DEF Allowed

(* The module is identified and has no A2 page.                            *)
LEMMA IdentifiedAllowed ==
  ASSUME ContractInv, InScan, ReadA0, pc' = "idle"
  PROVE  Allowed
<1>1. /\ pc = "a0" /\ slot # Empty /\ A0[slot].sums_ok
      /\ port' = Identify(port, Cage, slot)
      /\ ~port'.a2_read_requested
  BY DEF ReadA0, PageIntact, Reachable
<1>2. port = entry /\ slot \in seen /\ A0Wanted(entry)
  BY <1>1 DEF ContractInv, ScanInv, PointsMatch, RecordSinceEntry,
              HistoryMatches, WantedPoints
<1>3. \A d \in BOOLEAN : port' \in Monitored(Identify(entry, Cage, slot), slot, d)
  BY <1>1, <1>2 DEF Monitored
<1> QED
  BY <1>1, <1>2, <1>3, OutcomesListed DEF Allowed

(* The retries are used up.  On a working bus the last of them went        *)
(* through a reset that was cleared, so the page itself is bad.            *)
LEMMA UnknownAllowed ==
  ASSUME ContractInv, InScan, GiveUpA0
  PROVE  Allowed
<1>1. /\ pc = "a0" /\ retry_count = 0 /\ A0Fails
      /\ port' = MarkUnknown(port)
  BY DEF GiveUpA0
<1>2. /\ port = entry /\ A0Wanted(entry)
      /\ slot \in seen
      /\ bus = "flaky" => disturbed
      /\ ~disturbed => ~held
  BY <1>1 DEF ContractInv, ScanInv, PointsMatch, RecordSinceEntry,
              HistoryMatches, ResetCleared, WantedPoints, RetryCount
<1>3. PICK c \in seen : c # Empty
  BY <1>1 DEF ContractInv, RecordSinceEntry, WantedPoints
<1>4. MarkUnknown(entry) \in ScanOutcomes(entry, Cage, c, TRUE)
  BY <1>2, <1>3, OutcomesListed
<1>5. ASSUME ~disturbed, seen = {slot}
      PROVE  MarkUnknown(entry) \in ScanOutcomes(entry, Cage, slot, FALSE)
  <2>1. slot # Empty /\ ~A0[slot].sums_ok
    BY <1>1, <1>2, <1>3, <1>5 DEF A0Fails, MayFail, PageIntact, Reachable
  <2> QED
    BY <1>2, <2>1, OutcomesListed
<1> QED
  BY <1>1, <1>2, <1>4, <1>5 DEF Allowed

(* The A2 page, or the page of ones, is that of the module just parsed,    *)
(* since no other can have taken its place unnoticed.                      *)
LEMMA MonitoredAllowed ==
  ASSUME ~FastSwap, ContractInv, InScan, ReadA2 \/ GiveUpA2
  PROVE  Allowed
<1>1. pc = "a2" /\ ~held /\ port.a2_read_requested
  BY DEF ReadA2, GiveUpA2, ContractInv, ResetCleared, ScanInv, PointsMatch
<1>2. PICK c \in seen : /\ c # Empty
                        /\ A0[c].sums_ok
                        /\ A0Wanted(entry)
                        /\ port = Identify(entry, Cage, c)
  BY <1>1 DEF ContractInv, RecordSinceEntry
<1>3. c \in Modules /\ c # NULL /\ entry \in Port
  BY <1>2, NullAssumption DEF ContractInv, HistoryMatches
<1>4. port.id = c
  BY <1>2, <1>3 DEF Identify, Port
<1>5. slot \in {c, Empty}
  BY <1>3, <1>4 DEF ContractInv, ScanInv, NeverMisreports
<1>6. \A d \in BOOLEAN :
        /\ pm_set_a2(port, c) \in ScanOutcomes(entry, Cage, c, d)
        /\ d => pm_set_a2(port, Ones) \in ScanOutcomes(entry, Cage, c, d)
  <2> SUFFICES ASSUME NEW d \in BOOLEAN
               PROVE  /\ pm_set_a2(port, c) \in ScanOutcomes(entry, Cage, c, d)
                      /\ d => pm_set_a2(port, Ones)
                                \in ScanOutcomes(entry, Cage, c, d)
    OBVIOUS
  <2>1. /\ pm_set_a2(port, c) \in Monitored(port, c, d)
        /\ d => pm_set_a2(port, Ones) \in Monitored(port, c, d)
    BY <1>1 DEF Monitored, If
  <2> QED
    BY <1>2, <2>1, OutcomesListed
<1>7. CASE ReadA2
  <2>1. port' = pm_set_a2(port, c) /\ slot = c
    BY <1>5, <1>7 DEF ReadA2, Reachable
  <2> QED
    BY <1>6, <2>1 DEF Allowed
<1>8. CASE GiveUpA2
  <2>1. port' = pm_set_a2(port, Ones)
    BY <1>8 DEF GiveUpA2
  <2>2. ~(~disturbed /\ seen = {slot})
    BY <1>1, <1>2, <1>8
       DEF GiveUpA2, MayFail, Reachable, ContractInv, HistoryMatches
  <2> QED
    BY <1>6, <2>1, <2>2 DEF Allowed
<1> QED
  BY <1>7, <1>8

(* ScanIsOneStep: if removals are noticed, a whole scan leaves a record    *)
(* that a scan in one step, of something the cage held meanwhile, leaves.  *)
THEOREM ScanIsOneStep == ~FastSwap => (CSpec => ScanKeepsContract)
<1> SUFFICES ASSUME ~FastSwap PROVE CSpec => ScanKeepsContract
  OBVIOUS
<1>1. ASSUME ContractInv, [CNext]_contract_vars
      PROVE  [InScan /\ pc' = "idle" => Allowed]_contract_vars
  <2> SUFFICES ASSUME CNext, InScan, pc' = "idle" PROVE Allowed
    BY <1>1
  <2>1. \/ SeesAbsent \/ SeesPresent \/ ReadA0 \/ GiveUpA0
        \/ ReadA2 \/ GiveUpA2
    BY DEF CNext, Next, Daemon, ScanStep, Environment, Create, Modify, Crash,
           StartScan, PresenceReadFails, RetryA0, SetReset, ClearReset,
           RetryA2, Insert, Remove, BusDegrades, BusSettles, InScan,
           ScanPoints
  <2> QED
    BY <1>1, <2>1, AbsentAllowed, PresentAllowed, IdentifiedAllowed,
       UnknownAllowed, MonitoredAllowed
<1> QED
  BY <1>1, ContractInvariant, PTL DEF CSpec, ScanKeepsContract, Allowed
=============================================================================
