----------------------------- MODULE PlugProofs -----------------------------
(***************************************************************************)
(* The safety properties of Plug, for any modules with any pages in any    *)
(* kind of cage, with or without a reset line, a working bus or time to    *)
(* notice an exchange.                                                     *)
(*                                                                         *)
(* They rest on one inductive invariant.  The flags decide from which      *)
(* points of the scan the record can change: the serial ID is read, and    *)
(* the module reset, only while it is wanted, which by                     *)
(* RetriesUntilIdentified means that no module is on record; the A2 page   *)
(* is read exactly while it is requested, and then a module is.            *)
(***************************************************************************)
EXTENDS Plug, PmPortProofs

WantedPoints == {"a0", "set_reset", "clear_reset"}

(* Where the scan is, against what the record asks for.                    *)
PointsMatch ==
  /\ pc \in WantedPoints => A0Wanted(port)
  /\ port.a2_read_requested <=> pc = "a2"
  /\ pc = "a2" => port.id # NULL
  /\ pc = "down" => port.id = NULL

(* DomServed, for every point of the scan but the one that serves it.      *)
DomStored ==
  (pc # "a2" /\ port.id # NULL /\ DomAvailable(Cage, A0[port.id]))
    => port.a2 \in {Ones} \cup (IF FastSwap THEN Modules ELSE {port.id})

(* The two parts of NoMixture.                                             *)
OneParsed == ParsedFromOneModule(port, Cage)

OneMonitored ==
  MonitoredFrom(port, IF FastSwap THEN Modules ELSE {port.id})

ScanInv ==
  /\ TypeOK
  /\ OneParsed
  /\ OneMonitored
  /\ RetriesUntilIdentified
  /\ NeverMisreports
  /\ PointsMatch
  /\ DomStored

(* The invariant holds when the daemon is not running yet.                 *)
LEMMA ScanInvInit == Init => ScanInv
<1> SUFFICES ASSUME Init PROVE ScanInv
  OBVIOUS
<1>0. NewPort(FALSE) \in Port
  BY NewPortType
<1>1. TypeOK
  <2>1. /\ slot \in Modules \cup {Empty}
        /\ held \in BOOLEAN /\ laser \in BOOLEAN
        /\ bus \in {"good", "flaky"}
    BY DEF Init
  <2>2. /\ pc \in {"down", "idle"} \cup ScanPoints
        /\ retry_count \in 0 .. RetryCount
        /\ presence_retry \in 0 .. RetryCount
    BY DEF Init, RetryCount
  <2>3. port \in Port
    BY <1>0 DEF Init
  <2> QED
    BY <2>1, <2>2, <2>3 DEF TypeOK
<1>2. OneParsed /\ RetriesUntilIdentified
  BY NewPortSound, CageAssumption
     DEF Init, OneParsed, RetriesUntilIdentified
<1>3. port.id = NULL /\ port.a2_read_requested = FALSE
  BY DEF Init, NewPort
<1>4. NeverMisreports /\ PointsMatch /\ DomStored
  BY <1>3 DEF Init, NeverMisreports, PointsMatch, DomStored, WantedPoints
<1>5. OneMonitored
  BY <1>2, <1>3, NothingMonitored DEF OneParsed, OneMonitored
<1> QED
  BY <1>1, <1>2, <1>4, <1>5 DEF ScanInv

(* A step that leaves the record alone, and does not enter a point the     *)
(* record does not ask for, keeps the invariant.                           *)
LEMMA RecordUntouched ==
  ASSUME ScanInv, TypeOK', UNCHANGED port, PointsMatch', NeverMisreports',
         pc = "a2" <=> pc' = "a2"
  PROVE  ScanInv'
<1>1. OneParsed' /\ OneMonitored' /\ RetriesUntilIdentified'
  BY DEF ScanInv, OneParsed, OneMonitored, RetriesUntilIdentified
<1>2. DomStored'
  BY DEF ScanInv, DomStored
<1> QED
  BY <1>1, <1>2 DEF ScanInv

(* The steps of the hardware and of the bus.                               *)
LEMMA EnvironmentStep == ScanInv /\ Environment => ScanInv'
<1> SUFFICES ASSUME ScanInv, Environment PROVE ScanInv'
  OBVIOUS
<1>1. UNCHANGED <<port, pc, retry_count, presence_retry>>
  BY DEF Environment, Insert, Remove, BusDegrades, BusSettles, counts
<1>2. TypeOK'
  BY <1>1 DEF ScanInv, TypeOK, Environment, Insert, Remove, BusDegrades,
              BusSettles
<1>3. PointsMatch'
  BY <1>1 DEF ScanInv, PointsMatch, A0Wanted
<1>4. NeverMisreports'
  <2>1. ASSUME NEW m \in Modules, Insert(m) PROVE NeverMisreports'
    BY <2>1 DEF Insert, ScanInv, NeverMisreports, RetriesUntilIdentified,
                FlagsTellTheReport, counts
  <2>2. CASE Remove
    BY <2>2, <1>1 DEF Remove, ScanInv, NeverMisreports
  <2>3. CASE BusDegrades \/ BusSettles
    BY <2>3, <1>1 DEF BusDegrades, BusSettles, ScanInv, NeverMisreports
  <2> QED
    BY <2>1, <2>2, <2>3 DEF Environment
<1> QED
  BY <1>1, <1>2, <1>3, <1>4, RecordUntouched

(***************************************************************************)
(* The steps of the daemon.                                                *)
(***************************************************************************)
(* ovsdb_if_intf_create starts from a record of nothing, in the main loop. *)
LEMMA CreateStep ==
  ASSUME ScanInv, NEW enable \in BOOLEAN, Create(enable)
  PROVE  ScanInv'
<1>1. port' = NewPort(enable) /\ pc' = "idle"
  BY DEF Create
<1>2. port' \in Port /\ OneParsed' /\ RetriesUntilIdentified'
  BY <1>1, NewPortType, NewPortSound, CageAssumption
     DEF OneParsed, RetriesUntilIdentified
<1>3. port'.id = NULL /\ port'.a2_read_requested = FALSE
  BY <1>1 DEF NewPort
<1>4. port'.hw_enable \in BOOLEAN
  BY <1>2 DEF Port
<1>5. TypeOK'
  BY <1>1, <1>2, <1>4
     DEF Create, pm_configure_port, pm_clear_reset, TypeOK, ScanInv, counts
<1>6. NeverMisreports' /\ PointsMatch' /\ DomStored'
  BY <1>1, <1>3 DEF NeverMisreports, PointsMatch, DomStored, WantedPoints
<1>7. OneMonitored'
  BY <1>2, <1>3, NothingMonitored DEF OneParsed, OneMonitored
<1> QED
  BY <1>2, <1>5, <1>6, <1>7 DEF ScanInv

(* ovsdb_if_intf_modify changes what the laser should be, not the record.  *)
LEMMA ModifyStep ==
  ASSUME ScanInv, NEW enable \in BOOLEAN, Modify(enable)
  PROVE  ScanInv'
<1>1. /\ pc = "idle" /\ pc' = "idle"
      /\ port \in Port
      /\ port' = [port EXCEPT !.hw_enable = enable]
      /\ UNCHANGED <<slot, held, bus, retry_count, presence_retry>>
  BY DEF Modify, counts, ScanInv, TypeOK
<1>2. /\ port' \in Port
      /\ OneParsed'
      /\ RetriesUntilIdentified'
      /\ port'.id = port.id
      /\ port'.a2 = port.a2
      /\ port'.dom = port.dom
      /\ port'.a2_read_requested = port.a2_read_requested
  BY <1>1, SetEnableSound, CageAssumption
     DEF ScanInv, OneParsed, RetriesUntilIdentified
<1>3. port'.hw_enable \in BOOLEAN
  BY <1>2 DEF Port
<1>4. TypeOK'
  BY <1>1, <1>2, <1>3 DEF Modify, pm_configure_port, TypeOK, ScanInv
<1>5. NeverMisreports' /\ PointsMatch' /\ DomStored'
  BY <1>1, <1>2
     DEF ScanInv, NeverMisreports, PointsMatch, DomStored, WantedPoints
<1>6. OneMonitored'
  BY <1>2 DEF ScanInv, OneMonitored, MonitoredFrom
<1> QED
  BY <1>2, <1>4, <1>5, <1>6 DEF ScanInv

(* A crash forgets everything.                                             *)
LEMMA CrashStep ==
  ASSUME ScanInv, Crash
  PROVE  ScanInv'
<1>1. /\ port' = NewPort(FALSE) /\ pc' = "down"
      /\ retry_count' = 0 /\ presence_retry' = 0
      /\ UNCHANGED <<slot, held, laser, bus>>
  BY DEF Crash, hw
<1>2. port' \in Port /\ OneParsed' /\ RetriesUntilIdentified'
  BY <1>1, NewPortType, NewPortSound, CageAssumption
     DEF OneParsed, RetriesUntilIdentified
<1>3. port'.id = NULL /\ port'.a2_read_requested = FALSE
  BY <1>1 DEF NewPort
<1>4. TypeOK'
  <2>1. /\ pc' \in {"down", "idle"} \cup ScanPoints
        /\ retry_count' \in 0 .. RetryCount
        /\ presence_retry' \in 0 .. RetryCount
    BY <1>1 DEF RetryCount
  <2>2. /\ slot' \in Modules \cup {Empty}
        /\ held' \in BOOLEAN /\ laser' \in BOOLEAN
        /\ bus' \in {"good", "flaky"}
    BY <1>1 DEF ScanInv, TypeOK
  <2> QED
    BY <1>2, <2>1, <2>2 DEF TypeOK
<1>5. NeverMisreports' /\ PointsMatch' /\ DomStored'
  BY <1>1, <1>3 DEF NeverMisreports, PointsMatch, DomStored, WantedPoints
<1>6. OneMonitored'
  BY <1>2, <1>3, NothingMonitored DEF OneParsed, OneMonitored
<1> QED
  BY <1>2, <1>4, <1>5, <1>6 DEF ScanInv

(* Steps that move through the scan and leave the record alone.            *)
LEMMA MovingStep ==
  ASSUME ScanInv,
         \/ StartScan \/ PresenceReadFails \/ SeesPresent \/ RetryA0
         \/ SetReset \/ ClearReset \/ RetryA2
  PROVE  ScanInv'
<1>1. UNCHANGED <<port, slot, bus>>
  BY DEF StartScan, PresenceReadFails, SeesPresent, RetryA0, SetReset,
         ClearReset, RetryA2, hw
<1>2. NeverMisreports'
  BY <1>1 DEF ScanInv, NeverMisreports
<1>3. PointsMatch' /\ (pc = "a2" <=> pc' = "a2")
  BY <1>1 DEF ScanInv, PointsMatch, WantedPoints, A0Wanted, Return,
              StartScan, PresenceReadFails, SeesPresent, RetryA0, SetReset,
              ClearReset, RetryA2
<1>4. TypeOK'
  <2> USE <1>1 DEF ScanInv, TypeOK, RetryCount, ScanPoints
  <2>1. CASE StartScan
    BY <2>1 DEF StartScan, hw
  <2>2. CASE PresenceReadFails
    <3>1. presence_retry' \in 0 .. 2
      BY <2>2 DEF PresenceReadFails
    <3> QED
      BY <2>2, <3>1 DEF PresenceReadFails, hw
  <2>3. CASE SeesPresent
    BY <2>3 DEF SeesPresent, Return, hw, counts
  <2>4. CASE RetryA0
    BY <2>4 DEF RetryA0, hw
  <2>5. CASE SetReset
    BY <2>5 DEF SetReset, counts
  <2>6. CASE ClearReset
    <3>1. held' \in BOOLEAN /\ laser' \in BOOLEAN
      BY <2>6 DEF ClearReset, pm_clear_reset
    <3> QED
      BY <2>6, <3>1 DEF ClearReset
  <2>7. CASE RetryA2
    BY <2>7 DEF RetryA2, hw
  <2> QED
    BY <2>1, <2>2, <2>3, <2>4, <2>5, <2>6, <2>7
<1> QED
  BY <1>1, <1>2, <1>3, <1>4, RecordUntouched

(* Steps that end the scan with a new record.                              *)
LEMMA SeesAbsentStep ==
  ASSUME ScanInv, SeesAbsent
  PROVE  ScanInv'
<1>1. /\ pc = "presence" /\ pc' = "idle"
      /\ port \in Port /\ port' = MarkAbsent(port)
      /\ retry_count' = 0 /\ presence_retry' = 0
      /\ UNCHANGED <<slot, held, laser, bus>>
  BY DEF SeesAbsent, Return, hw, ScanInv, TypeOK
<1>2. /\ port' \in Port
      /\ OneParsed'
      /\ RetriesUntilIdentified'
      /\ port'.id = NULL
      /\ port'.a2_read_requested = port.a2_read_requested
  BY <1>1, MarkAbsentSound, CageAssumption
     DEF ScanInv, OneParsed, RetriesUntilIdentified
<1>3. TypeOK'
  BY <1>1, <1>2 DEF ScanInv, TypeOK, RetryCount
<1>4. NeverMisreports' /\ PointsMatch' /\ DomStored'
  BY <1>1, <1>2
     DEF ScanInv, NeverMisreports, PointsMatch, DomStored, WantedPoints
<1>5. OneMonitored'
  BY <1>2, NothingMonitored DEF OneParsed, OneMonitored
<1> QED
  BY <1>2, <1>3, <1>4, <1>5 DEF ScanInv

(* GiveUpA0: the retries are used up and the module becomes "unknown".     *)
LEMMA GiveUpA0Step ==
  ASSUME ScanInv, GiveUpA0
  PROVE  ScanInv'
<1>1. /\ pc = "a0" /\ pc' = "idle"
      /\ port \in Port /\ port' = MarkUnknown(port)
      /\ retry_count' = 0 /\ presence_retry' = 0
      /\ UNCHANGED <<slot, held, laser, bus>>
  BY DEF GiveUpA0, Return, hw, ScanInv, TypeOK
<1>2. /\ port' \in Port
      /\ OneParsed'
      /\ RetriesUntilIdentified'
      /\ port'.id = NULL
      /\ port'.a2_read_requested = port.a2_read_requested
  BY <1>1, MarkUnknownType, MarkUnknownSound, CageAssumption
     DEF OneParsed, RetriesUntilIdentified
<1>3. TypeOK'
  BY <1>1, <1>2 DEF ScanInv, TypeOK, RetryCount
<1>4. NeverMisreports' /\ PointsMatch' /\ DomStored'
  BY <1>1, <1>2
     DEF ScanInv, NeverMisreports, PointsMatch, DomStored, WantedPoints
<1>5. OneMonitored'
  BY <1>2, NothingMonitored DEF OneParsed, OneMonitored
<1> QED
  BY <1>2, <1>3, <1>4, <1>5 DEF ScanInv

(* ReadA0: the module in the cage is identified, and its A2 page asked for. *)
LEMMA ReadA0Step ==
  ASSUME ScanInv, ReadA0
  PROVE  ScanInv'
<1>1. /\ pc = "a0"
      /\ slot \in Modules /\ A0[slot].sums_ok
      /\ port \in Port /\ port' = Identify(port, Cage, slot)
      /\ UNCHANGED <<slot, held, laser, bus>>
  BY DEF ReadA0, PageIntact, Reachable, hw, ScanInv, TypeOK
<1>2. ~port.a2_read_requested
  BY <1>1 DEF ScanInv, PointsMatch
<1>3. /\ port' \in Port
      /\ OneParsed'
      /\ RetriesUntilIdentified'
      /\ port'.id = slot
      /\ port'.a2 = port.a2
      /\ port'.a2_read_requested
           = (port.a2_read_requested \/ DomAvailable(Cage, A0[slot]))
  BY <1>1, IdentifyType, IdentifySound, CageAssumption
     DEF OneParsed, RetriesUntilIdentified
<1>4. pc' = (IF port'.a2_read_requested THEN "a2" ELSE "idle")
  BY DEF ReadA0, Return
<1>5. TypeOK'
  BY <1>1, <1>3, <1>4
     DEF ReadA0, Return, counts, ScanInv, TypeOK, RetryCount, ScanPoints
<1>6. NeverMisreports'
  BY <1>1, <1>3 DEF NeverMisreports
<1>7. PointsMatch'
  BY <1>1, <1>3, <1>4, NullAssumption DEF PointsMatch, WantedPoints
<1>8. DomStored'
  BY <1>1, <1>2, <1>3, <1>4 DEF DomStored
<1>9. OneMonitored'
  <2>1. port.id = NULL
    BY <1>1 DEF ScanInv, PointsMatch, WantedPoints, A0Wanted,
                RetriesUntilIdentified, FlagsTellTheReport
  <2>2. port.a2 = NULL
    BY <2>1, NothingMonitored DEF ScanInv, OneParsed
  <2> QED
    BY <1>3, <2>2 DEF OneMonitored, MonitoredFrom
<1> QED
  BY <1>3, <1>5, <1>6, <1>7, <1>8, <1>9 DEF ScanInv

(* The A2 page is stored, or the page of ones in its place.                *)
LEMMA A2Step ==
  ASSUME ScanInv, ReadA2 \/ GiveUpA2
  PROVE  ScanInv'
<1>1. PICK page \in Modules \cup {Ones} :
        /\ port' = pm_set_a2(port, page)
        /\ page = Ones \/ page = slot
  BY DEF ReadA2, GiveUpA2, Reachable, ScanInv, TypeOK
<1>2. /\ pc = "a2" /\ pc' = "idle"
      /\ port \in Port /\ port.id # NULL
      /\ retry_count' = 0 /\ presence_retry' = 0
      /\ UNCHANGED <<slot, held, laser, bus>>
  BY DEF ReadA2, GiveUpA2, Return, hw, ScanInv, TypeOK, PointsMatch
<1>3. /\ port' \in Port
      /\ OneParsed'
      /\ RetriesUntilIdentified'
      /\ port'.id = port.id
      /\ port'.a2 = page
      /\ port'.a2_read_requested = FALSE
  BY <1>1, <1>2, SetA2Type, SetA2Sound, CageAssumption
     DEF ScanInv, OneParsed, RetriesUntilIdentified
<1>4. TypeOK'
  BY <1>2, <1>3 DEF ScanInv, TypeOK, RetryCount
<1>5. NeverMisreports' /\ PointsMatch'
  BY <1>2, <1>3 DEF ScanInv, NeverMisreports, PointsMatch, WantedPoints
<1>6. page \in {Ones} \cup (IF FastSwap THEN Modules ELSE {port'.id})
  BY <1>1, <1>2, <1>3, NullAssumption DEF ScanInv, NeverMisreports, TypeOK
<1>7. DomStored'
  BY <1>3, <1>6 DEF DomStored
<1>8. OneMonitored'
  BY <1>1, <1>2, <1>6, SetA2Monitors DEF OneMonitored
<1> QED
  BY <1>3, <1>4, <1>5, <1>7, <1>8 DEF ScanInv

(* The invariant is inductive.                                             *)
LEMMA ScanInvNext == ScanInv /\ [Next]_vars => ScanInv'
<1> SUFFICES ASSUME ScanInv, [Next]_vars PROVE ScanInv'
  OBVIOUS
<1>1. CASE Environment
  BY <1>1, EnvironmentStep
<1>2. ASSUME NEW enable \in BOOLEAN, Create(enable) \/ Modify(enable)
      PROVE  ScanInv'
  BY <1>2, CreateStep, ModifyStep
<1>3. CASE StartScan \/ ScanStep
  BY <1>3, MovingStep, SeesAbsentStep, GiveUpA0Step, ReadA0Step, A2Step
     DEF ScanStep
<1>4. CASE Crash
  BY <1>4, CrashStep
<1>5. CASE UNCHANGED vars
  BY <1>5 DEF vars, ScanInv, TypeOK, OneParsed, OneMonitored,
              RetriesUntilIdentified, NeverMisreports, PointsMatch, DomStored, A0Wanted
<1> QED
  BY <1>1, <1>2, <1>3, <1>4, <1>5 DEF Next, Daemon

(* ScanInvariant: the invariant holds at every i2c step of every scan.     *)
THEOREM ScanInvariant == Spec => []ScanInv
  BY ScanInvInit, ScanInvNext, PTL DEF Spec

(***************************************************************************)
(* The properties the runs check.                                          *)
(***************************************************************************)

(* TypeCorrect: every variable keeps its type; in particular neither retry *)
(* count of the scan goes below zero.                                      *)
THEOREM TypeCorrect == Spec => []TypeOK
<1>1. ScanInv => TypeOK
  BY DEF ScanInv
<1> QED
  BY <1>1, ScanInvariant, PTL

(* OneModuleOnRecord: the attributes of pm_parse are always those of one   *)
(* module whose checksums match, or of none, and the A2 page and the DOM   *)
(* attributes taken from it those of that module too (with FastSwap, of    *)
(* the one put in its place during the scan).  The DOM attributes of a     *)
(* record without an A2 page are not covered: they may be left over.       *)
THEOREM OneModuleOnRecord == Spec => []NoMixture
<1>1. ScanInv => NoMixture
  BY DEF ScanInv, OneParsed, OneMonitored, NoMixture
<1> QED
  BY <1>1, ScanInvariant, PTL

(* UnidentifiedIsRetried: a present module that is not identified stays    *)
(* marked for another read of its serial ID, and no other module does.     *)
THEOREM UnidentifiedIsRetried == Spec => []RetriesUntilIdentified
<1>1. ScanInv => RetriesUntilIdentified
  BY DEF ScanInv
<1> QED
  BY <1>1, ScanInvariant, PTL

(* RecordIsOfTheCage: if removals are noticed before the next insertion,   *)
(* the module on record is the one in the cage or has just been pulled.    *)
THEOREM RecordIsOfTheCage == Spec => []NeverMisreports
<1>1. ScanInv => NeverMisreports
  BY DEF ScanInv
<1> QED
  BY <1>1, ScanInvariant, PTL

(* RequestsAreServed: no scan ends with an A2 request pending or with a    *)
(* monitored module whose A2 page was not stored.                          *)
THEOREM RequestsAreServed == Spec => []DomServed
<1>1. ScanInv => DomServed
  BY DEF ScanInv, DomServed, PointsMatch, DomStored
<1> QED
  BY <1>1, ScanInvariant, PTL

(* IdentityIsKept: a module on record stays on record until the daemon     *)
(* reports it absent or dies.  A scan reads the serial ID again only where *)
(* PointsMatch and RetriesUntilIdentified say that none is on record.      *)
THEOREM IdentityIsKept == Spec => IdentityLostOnlyAsAbsent
<1>1. ASSUME ScanInv, [Next]_vars
      PROVE  [port.id # NULL =>
                \/ port'.id = port.id
                \/ port'.connector = "absent"
                \/ pc' = "down"]_vars
  <2> SUFFICES ASSUME Next, port.id # NULL
               PROVE  \/ port'.id = port.id
                      \/ port'.connector = "absent"
                      \/ pc' = "down"
    BY <1>1
  <2>1. pc \notin WantedPoints \cup {"down"} /\ port \in Port
    BY <1>1 DEF ScanInv, TypeOK, PointsMatch, RetriesUntilIdentified,
                FlagsTellTheReport, A0Wanted, WantedPoints
  <2>2. CASE Environment
    BY <2>2 DEF Environment, Insert, Remove, BusDegrades, BusSettles
  <2>3. CASE \E enable \in BOOLEAN : Create(enable) \/ Modify(enable)
    BY <2>1, <2>3 DEF Create, Modify, Port
  <2>4. CASE SeesAbsent
    BY <1>1, <2>1, <2>4, MarkAbsentSound, CageAssumption
       DEF SeesAbsent, ScanInv, OneParsed, RetriesUntilIdentified
  <2>5. CASE ReadA0 \/ RetryA0 \/ GiveUpA0 \/ SetReset \/ ClearReset
    BY <2>1, <2>5
       DEF ReadA0, RetryA0, GiveUpA0, SetReset, ClearReset, WantedPoints
  <2>6. CASE StartScan \/ PresenceReadFails \/ SeesPresent \/ RetryA2
    BY <2>6 DEF StartScan, PresenceReadFails, SeesPresent, RetryA2
  <2>7. CASE ReadA2 \/ GiveUpA2
    BY <2>1, <2>7 DEF ReadA2, GiveUpA2, pm_set_a2, Port
  <2>8. CASE Crash
    BY <2>8 DEF Crash
  <2> QED
    BY <2>2, <2>3, <2>4, <2>5, <2>6, <2>7, <2>8
       DEF Next, Daemon, ScanStep
<1> QED
  BY <1>1, ScanInvariant, PTL DEF Spec, IdentityLostOnlyAsAbsent

(* ServiceIsNotReset: no step asserts the reset of a module on record.     *)
THEOREM ServiceIsNotReset == Spec => NoResetInService
<1>1. ASSUME ScanInv, [Next]_vars
      PROVE  [~held /\ held' => port.id = NULL]_vars
  <2> SUFFICES ASSUME Next, ~held, held', port.id # NULL PROVE FALSE
    BY <1>1
  <2>1. pc # "set_reset"
    BY <1>1 DEF ScanInv, PointsMatch, RetriesUntilIdentified,
                FlagsTellTheReport, A0Wanted, WantedPoints
  <2>2. CASE Environment
    BY <2>2 DEF Environment, Insert, Remove, BusDegrades, BusSettles
  <2>3. CASE \E enable \in BOOLEAN : Create(enable) \/ Modify(enable)
    BY <2>3 DEF Create, Modify, pm_clear_reset
  <2>4. CASE SetReset
    BY <2>1, <2>4 DEF SetReset
  <2>5. CASE ClearReset
    BY <2>5 DEF ClearReset, pm_clear_reset
  <2>6. CASE StartScan \/ Crash \/ (ScanStep /\ ~SetReset /\ ~ClearReset)
    BY <2>6 DEF StartScan, Crash, ScanStep, PresenceReadFails, SeesAbsent,
                SeesPresent, ReadA0, RetryA0, GiveUpA0, ReadA2, RetryA2,
                GiveUpA2, hw
  <2> QED
    BY <2>2, <2>3, <2>4, <2>5, <2>6 DEF Next, Daemon
<1> QED
  BY <1>1, ScanInvariant, PTL DEF Spec, NoResetInService

(***************************************************************************)
(* The refinement.                                                         *)
(***************************************************************************)

(* What Report says of a record.                                           *)
LEMMA ReportOf ==
  ASSUME NEW p
  PROVE  /\ p.connector = NULL => Report(p) = "none"
         /\ p.connector = "absent" => Report(p) = "absent"
         /\ p.connector \notin {NULL, "absent"} /\ p.id # NULL
              => Report(p) = p.id
         /\ p.connector \notin {NULL, "absent"} /\ p.id = NULL
              => Report(p) = "unknown"
<1>1. NULL # "absent"
  BY NullAttributeAssumption DEF ConnectorNames
<1> QED
  BY <1>1 DEF Report

(* A step that leaves connector and identity alone is not visible in the   *)
(* report.                                                                 *)
LEMMA ReportKept ==
  ASSUME NEW p, NEW r, p.connector = r.connector, p.id = r.id
  PROVE  Report(p) = Report(r)
  BY DEF Report

(* Without a module on record the report is one of the three others.       *)
LEMMA ReportBlank ==
  ASSUME NEW p, p.id = NULL
  PROVE  Report(p) \in {"none", "absent", "unknown"}
  BY ReportOf

(* Every step of the scan is a step of the abstract report or is invisible *)
(* in it.                                                                  *)
LEMMA ReportStep == ScanInv /\ [Next]_vars => [PR!Next]_(PR!vars)
<1> SUFFICES ASSUME ScanInv, [Next]_vars PROVE [PR!Next]_(PR!vars)
  OBVIOUS
<1> USE DEF PR!Next, PR!vars
<1>1. port \in Port /\ slot \in Modules \cup {Empty}
  BY DEF ScanInv, TypeOK
<1>2. CASE Environment
  <2>1. Report(port)' = Report(port)
    BY <1>2, ReportKept
       DEF Environment, Insert, Remove, BusDegrades, BusSettles
  <2> QED
    BY <1>2, <2>1
       DEF Environment, Insert, Remove, BusDegrades, BusSettles,
           PR!Insert, PR!Remove, PR!BusChanges
<1>3. CASE Crash \/ \E enable \in BOOLEAN : Create(enable)
  <2>1. port'.connector = NULL /\ UNCHANGED <<slot, bus>>
    BY <1>3 DEF Crash, Create, NewPort, hw
  <2> QED
    BY <2>1, ReportOf DEF PR!Restart
<1>4. CASE \E enable \in BOOLEAN : Modify(enable)
  <2>1. /\ port'.connector = port.connector
        /\ port'.id = port.id
        /\ UNCHANGED <<slot, bus>>
    BY <1>1, <1>4 DEF Modify, Port
  <2> QED
    BY <2>1, ReportKept
<1>5. CASE SeesAbsent
  <2>1. /\ port'.connector = "absent"
        /\ slot = Empty \/ bus = "flaky"
        /\ UNCHANGED <<slot, bus>>
    BY <1>1, <1>5, MarkAbsentSound, CageAssumption
       DEF SeesAbsent, MayFail, hw, ScanInv, OneParsed,
           RetriesUntilIdentified
  <2> QED
    BY <2>1, ReportOf DEF PR!ReportAbsent
<1>6. CASE ReadA0 \/ GiveUpA0
  <2>1. port.id = NULL
    BY <1>6 DEF ReadA0, GiveUpA0, ScanInv, PointsMatch, WantedPoints,
                RetriesUntilIdentified, FlagsTellTheReport, A0Wanted
  <2>2. Report(port) \in {"none", "absent", "unknown"}
    BY <2>1, ReportBlank
  <2>3. CASE ReadA0
    <3>1. /\ slot \in Modules
          /\ SumsMatch(slot)
          /\ UNCHANGED <<slot, bus>>
          /\ port' = Identify(port, Cage, slot)
      BY <1>1, <2>3
         DEF ReadA0, PageIntact, Reachable, SumsMatch, hw
    <3>2. port'.id = slot /\ port'.connector \notin {NULL, "absent"}
      BY <1>1, <3>1, IdentifySound, CageAssumption DEF SumsMatch
    <3>3. Report(port)' = slot
      BY <3>1, <3>2, ReportOf, NullAssumption
    <3> QED
      BY <2>2, <3>1, <3>3 DEF PR!ReportModule
  <2>4. CASE GiveUpA0
    <3>1. /\ port'.connector = "unknown"
          /\ port'.id = NULL
          /\ UNCHANGED <<slot, bus>>
      BY <1>1, <2>4, MarkUnknownSound, CageAssumption DEF GiveUpA0, hw
    <3>2. Report(port)' = "unknown"
      BY <3>1, ReportOf, NullAttributeAssumption DEF ConnectorNames
    <3> QED
      BY <2>2, <3>1, <3>2 DEF PR!ReportUnknown
  <2> QED
    BY <1>6, <2>3, <2>4
<1>7. CASE ReadA2 \/ GiveUpA2
  <2>1. /\ port'.connector = port.connector
        /\ port'.id = port.id
        /\ UNCHANGED <<slot, bus>>
    BY <1>1, <1>7 DEF ReadA2, GiveUpA2, pm_set_a2, Port, hw
  <2> QED
    BY <2>1, ReportKept
<1>8. CASE \/ StartScan \/ PresenceReadFails \/ SeesPresent \/ RetryA0
           \/ SetReset \/ ClearReset \/ RetryA2 \/ UNCHANGED vars
  <2>1. UNCHANGED <<port, slot, bus>>
    BY <1>8 DEF StartScan, PresenceReadFails, SeesPresent, RetryA0,
                SetReset, ClearReset, RetryA2, hw, vars
  <2> QED
    BY <2>1, ReportKept
<1> QED
  BY <1>2, <1>3, <1>4, <1>5, <1>6, <1>7, <1>8 DEF Next, Daemon, ScanStep

(* ScanImplementsReport: the scan, i2c operation by i2c operation, keeps   *)
(* the promises of PortReport.                                             *)
THEOREM ScanImplementsReport == Spec => ImplementsPortReport
<1>1. Init => PR!Init
  <2> SUFFICES ASSUME Init PROVE PR!Init
    OBVIOUS
  <2>1. port.connector = NULL
    BY DEF Init, NewPort
  <2> QED
    BY <2>1, ReportOf DEF Init, PR!Init
<1> QED
  BY <1>1, ReportStep, ScanInvariant, PTL
     DEF Spec, ImplementsPortReport, PR!Spec
=============================================================================
