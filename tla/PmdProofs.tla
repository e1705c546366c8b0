------------------------------ MODULE PmdProofs -----------------------------
(***************************************************************************)
(* The safety properties of Pmd, for any number of processes, interfaces   *)
(* and modules.                                                            *)
(*                                                                         *)
(* LoopInv holds however the connections behave.  Its core is FirstPass: a *)
(* process that has not made its first transaction still has the flag up   *)
(* on every port it has scanned, so the transaction that sets cur_hw       *)
(* publishes all of them.  LockInv needs sessions that last as long as     *)
(* their process (~Drops): a process keeps its ports when it loses the     *)
(* lock with its connection, and without the hypothesis OneScanner and     *)
(* UnpublishedIsFlagged are false.                                         *)
(***************************************************************************)
EXTENDS Pmd, PmPortProofs

(* Every port a process has is one the scan of its cage may be given.      *)
RecordsSound ==
  \A q \in Procs, i \in Intfs :
    ports[q][i] # NULL => SoundPort(ports[q][i], Cage[i])

(* What the pass has dealt with has a connector to publish.                *)
Scanned ==
  \A q \in Procs, i \in Intfs :
    pc[q] \in {"scan", "update"} =>
      /\ ports[q][i] # NULL
      /\ (pc[q] = "scan" => i \notin todo[q]) => ports[q][i].connector # NULL

(* Flags are cleared by the first transaction of a process, not before.    *)
FirstPass ==
  \A q \in Procs, i \in Intfs :
    ~cur_hw_set[q] /\ ports[q][i] # NULL /\ ports[q][i].connector # NULL
      => ports[q][i].module_info_changed

(* A published map has the attributes pm_parse found in the page of one    *)
(* module, or none; and if that module promises monitoring data, the DOM   *)
(* attributes are its own, or those of a failed read.                      *)
InfoOfOneModule(info, cage) ==
  IF info.id = NULL
  THEN /\ info.max_speed = NULL /\ info.cable = NULL
       /\ info.connector \in {"absent", "unknown"}
  ELSE LET type == ParsedType(cage, A0[info.id])
       IN  /\ A0[info.id].sums_ok
           /\ info.connector = type.connector
           /\ info.connector_status = type.connector_status
           /\ info.max_speed = type.max_speed
           /\ info.cable = type.cable
           /\ DomAvailable(cage, A0[info.id]) =>
                /\ info.dom.flags \in {info.id, Ones}
                /\ Near(info.dom.power, Reading(info.dom.flags))

(* RowsOfOneModule: whichever processes have written it, a row holds the   *)
(* attributes of pm_parse of one module or of none, and with a module that *)
(* promises monitoring data its monitoring data.  Beside a module that     *)
(* promises none, or beside none, the DOM attributes may be those of a     *)
(* module removed before: pm_delete_all_data leaves them and               *)
(* pm_ovsdb_update publishes them.                                         *)
RowsOfOneModule ==
  \A i \in Intfs : pm_info[i] # NULL => InfoOfOneModule(pm_info[i], Cage[i])

LoopInv ==
  /\ TypeOK
  /\ RecordsSound
  /\ Scanned
  /\ FirstPass
  /\ ReadyMeansPublished
  /\ RowsOfOneModule

(* The lock, the session and the ports of a process go together.           *)
Standing ==
  \A q \in Procs :
    /\ lock = q => conn[q]
    /\ pc[q] \in {"scan", "update"} => lock = q
    /\ (\E i \in Intfs : ports[q][i] # NULL) => lock = q

LockInv == LoopInv /\ Standing /\ UnpublishedIsFlagged

(* What pm_ovsdb_update writes into a row.                                 *)
LEMMA PublishedSound ==
  ASSUME NEW p, NEW cage \in Connectors, SoundPort(p, cage),
         p.connector # NULL
  PROVE  /\ PmInfo(p) \in Info
         /\ PmInfo(p) # NULL
         /\ InfoOfOneModule(PmInfo(p), cage)
<1>1. PmInfo(p) \in Info
  BY PmInfoType DEF SoundPort
<1>2. InfoOfOneModule(PmInfo(p), cage)
  BY DEF SoundPort, ParsedFromOneModule, MonitoredItself, MonitoredFrom,
         InfoOfOneModule, PmInfo
<1> QED
  BY <1>1, <1>2, NullRecordAssumption

(***************************************************************************)
(* LoopInv.                                                                *)
(***************************************************************************)
(* The invariant holds when no process is running yet.                     *)
LEMMA LoopInvInit == Init => LoopInv
<1> SUFFICES ASSUME Init PROVE LoopInv
  OBVIOUS
<1>1. TypeOK
  BY DEF Init, TypeOK, NoPorts
<1>2. \A q \in Procs : pc[q] = "down"
  BY DEF Init
<1>3. \A q \in Procs, i \in Intfs : ports[q][i] = NULL
  BY DEF Init, NoPorts
<1>4. RecordsSound /\ FirstPass
  BY <1>3 DEF RecordsSound, FirstPass
<1>5. Scanned
  BY <1>2 DEF Scanned
<1>6. ReadyMeansPublished /\ RowsOfOneModule
  BY DEF Init, ReadyMeansPublished, RowsOfOneModule
<1> QED
  BY <1>1, <1>4, <1>5, <1>6 DEF LoopInv

(* A step that touches neither the ports nor the rows: the server, the     *)
(* cages, the bus and whoever configures the interfaces.                   *)
LEMMA QuietStep ==
  ASSUME LoopInv, TypeOK', UNCHANGED <<ports, todo, cur_hw_set>>,
         UNCHANGED <<pm_info, cur_hw>>,
         \A q \in Procs : pc'[q] \in {"scan", "update"} => pc'[q] = pc[q]
  PROVE  LoopInv'
<1>1. RecordsSound' /\ FirstPass'
  BY DEF LoopInv, RecordsSound, FirstPass
<1>2. Scanned'
  BY DEF LoopInv, Scanned
<1>3. ReadyMeansPublished' /\ RowsOfOneModule'
  BY DEF LoopInv, ReadyMeansPublished, RowsOfOneModule
<1> QED
  BY <1>1, <1>2, <1>3 DEF LoopInv

(* The server gives and takes the lock.                                    *)
LEMMA ServerStep ==
  ASSUME LoopInv, NEW q \in Procs, Connect(q) \/ GrantLock(q) \/ Drop(q)
  PROVE  LoopInv'
<1>1. UNCHANGED <<pc, ports, todo, cur_hw_set, pm_info, cur_hw>>
  BY DEF Connect, GrantLock, Drop, procs, db
<1>2. TypeOK'
  BY DEF LoopInv, TypeOK, Connect, GrantLock, Drop, EndSession, hw, db, procs
<1> QED
  BY <1>1, <1>2, QuietStep

(* Modules, bus and configuration change.                                  *)
LEMMA OutsideStep ==
  ASSUME LoopInv,
         \/ \E i \in Intfs : \/ \E m \in Modules : Insert(i, m)
                             \/ Remove(i) \/ Configure(i)
         \/ BusDegrades \/ BusSettles
  PROVE  LoopInv'
<1>1. UNCHANGED <<pc, ports, todo, cur_hw_set, pm_info, cur_hw>>
  BY DEF Insert, Remove, Configure, BusDegrades, BusSettles, procs, db
<1>2. TypeOK'
  BY ZenonT(30) DEF LoopInv, TypeOK, Insert, Remove, Configure, BusDegrades, BusSettles,
         hw, db, server, procs
<1> QED
  BY <1>1, <1>2, QuietStep

(* A process starts.                                                       *)
LEMMA StartStep ==
  ASSUME LoopInv, NEW q \in Procs, Start(q)
  PROVE  LoopInv'
<1>1. TypeOK'
  BY DEF LoopInv, TypeOK, Start, hw, db, server
<1>2. /\ UNCHANGED <<ports, todo, cur_hw_set, pm_info, cur_hw>>
      /\ \A r \in Procs : pc'[r] \in {"scan", "update"} => pc'[r] = pc[r]
  BY DEF LoopInv, TypeOK, Start, db
<1> QED
  BY <1>1, <1>2, QuietStep

(* A process dies, and its ports and flags with it; the rows stay.         *)
LEMMA CrashStep ==
  ASSUME LoopInv, NEW q \in Procs, Crash(q)
  PROVE  LoopInv'
<1> USE DEF LoopInv
<1>1. TypeOK'
  BY DEF TypeOK, Crash, EndSession, NoPorts, hw, db
<1>2. \A r \in Procs, i \in Intfs :
        IF r = q
        THEN ports'[r][i] = NULL /\ pc'[r] = "down"
        ELSE /\ ports'[r] = ports[r] /\ pc'[r] = pc[r]
             /\ todo'[r] = todo[r] /\ cur_hw_set'[r] = cur_hw_set[r]
  BY DEF TypeOK, Crash, NoPorts
<1>3. RecordsSound'
  BY <1>2 DEF RecordsSound
<1>4. Scanned'
  BY <1>2 DEF Scanned
<1>5. FirstPass'
  BY <1>2 DEF FirstPass
<1>6. ReadyMeansPublished' /\ RowsOfOneModule'
  BY DEF Crash, db, ReadyMeansPublished, RowsOfOneModule
<1> QED
  BY <1>1, <1>3, <1>4, <1>5, <1>6

(* What pmd_reconfigure makes of one port.                                 *)
LEMMA ReconfiguredPort ==
  ASSUME NEW p, NEW cage \in Connectors, NEW enable \in BOOLEAN,
         p # NULL => SoundPort(p, cage)
  PROVE  LET r == Reconfigured(p, enable)
         IN  /\ SoundPort(r, cage) /\ r # NULL
             /\ IF p = NULL
                THEN r.connector = NULL
                ELSE /\ r.connector = p.connector
                     /\ r.module_info_changed = p.module_info_changed
                     /\ PmInfo(r) = PmInfo(p)
<1>1. \A r : SoundPort(r, cage) => r # NULL
  BY NullRecordAssumption DEF SoundPort
<1>2. CASE p = NULL
  BY <1>1, <1>2, NewPortIsSound DEF Reconfigured
<1>3. CASE p # NULL
  <2> DEFINE r == [p EXCEPT !.hw_enable = enable]
  <2>1. /\ SoundPort(r, cage)
        /\ r.connector = p.connector
        /\ r.module_info_changed = p.module_info_changed
        /\ PmInfo(r) = PmInfo(p)
    <3>1. SoundPort(r, cage)
      BY <1>3, UnpublishedFields
    <3> QED
      BY <1>3, <3>1 DEF SoundPort, Port, PmInfo
  <2>2. Reconfigured(p, enable) = r
    BY <1>3, Zenon DEF Reconfigured
  <2> HIDE DEF r
  <2> QED
    BY <1>1, <1>3, <2>1, <2>2
<1> QED
  BY <1>2, <1>3

(* What Run makes of the ports of all processes.                           *)
LEMMA RunPorts ==
  ASSUME TypeOK, NEW q \in Procs, Run(q), NEW r \in Procs
  PROVE  /\ r # q => /\ ports'[r] = ports[r] /\ pc'[r] = pc[r]
                     /\ todo'[r] = todo[r]
         /\ r = q => /\ pc'[q] = "scan" /\ todo'[q] = Intfs
                     /\ \A i \in Intfs :
                          ports'[q][i] = Reconfigured(ports[q][i], hw_enable[i])
  BY DEF TypeOK, Run

(* pmd_reconfigure: every row gets a port.                                 *)
LEMMA RunStep ==
  ASSUME LoopInv, NEW q \in Procs, Run(q)
  PROVE  LoopInv'
<1> USE DEF LoopInv
<1>1. \A i \in Intfs :
        LET r == Reconfigured(ports[q][i], hw_enable[i])
        IN  /\ SoundPort(r, Cage[i]) /\ r # NULL
            /\ IF ports[q][i] = NULL
               THEN r.connector = NULL
               ELSE /\ r.connector = ports[q][i].connector
                    /\ r.module_info_changed = ports[q][i].module_info_changed
  <2> SUFFICES ASSUME NEW i \in Intfs
               PROVE  LET r == Reconfigured(ports[q][i], hw_enable[i])
                      IN  /\ SoundPort(r, Cage[i]) /\ r # NULL
                          /\ IF ports[q][i] = NULL
                             THEN r.connector = NULL
                             ELSE /\ r.connector = ports[q][i].connector
                                  /\ r.module_info_changed
                                       = ports[q][i].module_info_changed
    BY Zenon
  <2>1. /\ Cage[i] \in Connectors
        /\ hw_enable[i] \in BOOLEAN
        /\ ports[q][i] # NULL => SoundPort(ports[q][i], Cage[i])
    BY PmdAssumption DEF TypeOK, RecordsSound
  <2> QED
    BY <2>1, ReconfiguredPort, Zenon
<1>2. TypeOK'
  <2>1. [i \in Intfs |-> Reconfigured(ports[q][i], hw_enable[i])]
          \in [Intfs -> Port \cup {NULL}]
    BY <1>1 DEF SoundPort
  <2>2. ports' \in [Procs -> [Intfs -> Port \cup {NULL}]]
    BY <2>1 DEF Run, TypeOK
  <2> QED
    BY <2>2 DEF TypeOK, Run, db, server
<1>3. RecordsSound'
  BY <1>1, RunPorts DEF RecordsSound
<1>4. Scanned'
  BY <1>1, RunPorts DEF Scanned
<1>5. FirstPass'
  <2>1. cur_hw_set' = cur_hw_set
    BY DEF Run
  <2> QED
    BY <1>1, <2>1, RunPorts DEF FirstPass
<1>6. ReadyMeansPublished' /\ RowsOfOneModule'
  BY DEF Run, db, ReadyMeansPublished, RowsOfOneModule
<1> QED
  BY <1>2, <1>3, <1>4, <1>5, <1>6

(* What the scan of one cage makes of the ports of all processes.          *)
LEMMA ScanPorts ==
  ASSUME LoopInv, NEW q \in Procs, NEW i \in Intfs, Scan(q, i)
  PROVE  /\ SoundPort(ports'[q][i], Cage[i])
         /\ ports'[q][i].connector # NULL
         /\ \/ ports'[q][i] = ports[q][i]
            \/ ports'[q][i].module_info_changed
         /\ ports' = [ports EXCEPT ![q][i] = ports'[q][i]]
<1>1. /\ ports[q][i] # NULL
      /\ SoundPort(ports[q][i], Cage[i])
  BY DEF LoopInv, Scanned, RecordsSound, Scan
<1>2. PICK outcome \in ScanOutcomes(ports[q][i], Cage[i], slot[i],
                                    bus = "flaky") :
        ports' = [ports EXCEPT ![q][i] = outcome]
  BY DEF Scan
<1>3. ports'[q][i] = outcome
  BY <1>2 DEF LoopInv, TypeOK
<1>4. slot[i] \in Modules \cup {Empty} /\ Cage[i] \in Connectors
  BY PmdAssumption DEF LoopInv, TypeOK
<1>5. /\ SoundPort(outcome, Cage[i])
      /\ outcome.connector # NULL
      /\ outcome = ports[q][i] \/ outcome.module_info_changed
  BY <1>1, <1>4, ScanOutcomeSound
<1> QED
  BY <1>2, <1>3, <1>5

(* One turn of the loop of pm_read_state.                                  *)
LEMMA ScanStep ==
  ASSUME LoopInv, NEW q \in Procs, NEW i \in Intfs, Scan(q, i)
  PROVE  LoopInv'
<1> USE DEF LoopInv
<1>1. /\ SoundPort(ports'[q][i], Cage[i])
      /\ ports'[q][i] # NULL
      /\ ports'[q][i].connector # NULL
      /\ \/ ports'[q][i] = ports[q][i]
         \/ ports'[q][i].module_info_changed
      /\ ports' = [ports EXCEPT ![q][i] = ports'[q][i]]
  BY ScanPorts, NullRecordAssumption DEF SoundPort
<1>2. \A r \in Procs, j \in Intfs :
        r # q \/ j # i => ports'[r][j] = ports[r][j]
  BY <1>1 DEF TypeOK
<1>3. /\ pc[q] = "scan"
      /\ todo' = [todo EXCEPT ![q] = @ \ {i}]
      /\ pc' = [pc EXCEPT ![q] = IF todo'[q] = {} THEN "update" ELSE "scan"]
      /\ cur_hw_set' = cur_hw_set
  BY DEF Scan
<1>4. TypeOK'
  <2>1. ports' \in [Procs -> [Intfs -> Port \cup {NULL}]]
    <3>1. ports'[q][i] \in Port
      BY <1>1 DEF SoundPort
    <3> QED
      BY <1>1, <3>1 DEF TypeOK
  <2>2. /\ todo' \in [Procs -> SUBSET Intfs]
        /\ pc' \in [Procs -> {"down", "run", "scan", "update"}]
    BY <1>3 DEF TypeOK
  <2> QED
    BY <1>3, <2>1, <2>2 DEF TypeOK, Scan, hw, db, server
<1>5. RecordsSound'
  BY <1>1, <1>2 DEF RecordsSound
<1>6. Scanned'
  <2> SUFFICES ASSUME NEW r \in Procs, NEW j \in Intfs,
                      pc'[r] \in {"scan", "update"}
               PROVE  /\ ports'[r][j] # NULL
                      /\ (pc'[r] = "scan" => j \notin todo'[r])
                           => ports'[r][j].connector # NULL
    BY DEF Scanned
  <2>1. CASE r # q
    <3>1. pc'[r] = pc[r] /\ todo'[r] = todo[r]
      BY <1>3, <2>1 DEF TypeOK
    <3> QED
      BY <1>2, <2>1, <3>1 DEF Scanned
  <2>2. CASE r = q /\ j = i
    BY <1>1, <2>2
  <2>3. CASE r = q /\ j # i
    <3>1. todo'[q] = todo[q] \ {i}
      BY <1>3 DEF TypeOK
    <3>2. pc'[q] = IF todo'[q] = {} THEN "update" ELSE "scan"
      BY <1>3 DEF TypeOK
    <3>3. (pc'[r] = "scan" => j \notin todo'[r]) => j \notin todo[r]
      BY <2>3, <3>1, <3>2
    <3> QED
      BY <1>2, <1>3, <2>3, <3>3 DEF Scanned
  <2> QED
    BY <2>1, <2>2, <2>3
<1>7. FirstPass'
  BY <1>1, <1>2, <1>3 DEF FirstPass
<1>8. ReadyMeansPublished' /\ RowsOfOneModule'
  BY DEF Scan, db, ReadyMeansPublished, RowsOfOneModule
<1> QED
  BY <1>4, <1>5, <1>6, <1>7, <1>8

(* What pm_ovsdb_update makes of a port of its process.                    *)
LEMMA PublishedPort ==
  ASSUME LoopInv, NEW q \in Procs, Update(q), NEW i \in Intfs
  PROVE  /\ SoundPort(ports[q][i], Cage[i])
         /\ ports[q][i].connector # NULL
         /\ ports'[q][i] = [ports[q][i] EXCEPT !.module_info_changed = FALSE]
         /\ SoundPort(ports'[q][i], Cage[i])
         /\ PmInfo(ports'[q][i]) = PmInfo(ports[q][i])
<1>1. ports'[q][i] = [ports[q][i] EXCEPT !.module_info_changed = FALSE]
  BY DEF LoopInv, TypeOK, Update
<1>2. SoundPort(ports[q][i], Cage[i]) /\ ports[q][i].connector # NULL
  BY DEF LoopInv, Update, Scanned, RecordsSound
<1>3. PICK p : p = ports[q][i]
  OBVIOUS
<1>4. PICK cage \in Connectors : cage = Cage[i]
  BY PmdAssumption
<1>5. /\ SoundPort([p EXCEPT !.module_info_changed = FALSE], cage)
      /\ PmInfo([p EXCEPT !.module_info_changed = FALSE]) = PmInfo(p)
  <2>1. SoundPort(p, cage)
    BY <1>2, <1>3, <1>4, Zenon
  <2> QED
    BY <2>1, UnpublishedFields
<1> QED
  BY <1>1, <1>2, <1>3, <1>4, <1>5, Zenon

(* What it makes of the ports of all processes.                            *)
LEMMA UpdatePorts ==
  ASSUME LoopInv, NEW q \in Procs, Update(q), NEW r \in Procs,
         NEW i \in Intfs
  PROVE  /\ r # q => /\ ports'[r] = ports[r] /\ pc'[r] = pc[r]
                     /\ cur_hw_set'[r] = cur_hw_set[r]
         /\ r = q => /\ pc'[q] = "run" /\ cur_hw_set'[q]
                     /\ SoundPort(ports[q][i], Cage[i])
                     /\ ports[q][i].connector # NULL
                     /\ ports'[q][i] = [ports[q][i] EXCEPT
                                          !.module_info_changed = FALSE]
                     /\ SoundPort(ports'[q][i], Cage[i])
                     /\ PmInfo(ports'[q][i]) = PmInfo(ports[q][i])
<1>1. /\ r # q => /\ ports'[r] = ports[r] /\ pc'[r] = pc[r]
                  /\ cur_hw_set'[r] = cur_hw_set[r]
      /\ r = q => pc'[q] = "run" /\ cur_hw_set'[q]
  BY DEF LoopInv, TypeOK, Update
<1> QED
  BY <1>1, PublishedPort, Zenon

(* pm_ovsdb_update: the first transaction of a process publishes every     *)
(* port, so that cur_hw is set together with the last row that waited.     *)
LEMMA UpdateStep ==
  ASSUME LoopInv, NEW q \in Procs, Update(q)
  PROVE  LoopInv'
<1> USE DEF LoopInv
<1>1. \A i \in Intfs : /\ PmInfo(ports[q][i]) \in Info
                       /\ PmInfo(ports[q][i]) # NULL
                       /\ InfoOfOneModule(PmInfo(ports[q][i]), Cage[i])
  <2>1. \A i \in Intfs : /\ SoundPort(ports[q][i], Cage[i])
                         /\ ports[q][i].connector # NULL
                         /\ Cage[i] \in Connectors
    BY PmdAssumption DEF Update, Scanned, RecordsSound
  <2> QED
    BY <2>1, PublishedSound
<1>2. \A i \in Intfs : pm_info'[i] \in {pm_info[i], PmInfo(ports[q][i])}
  BY DEF Update, Commit, Publish, TypeOK
<1>3. pm_info' \in [Intfs -> Info \cup {NULL}] /\ cur_hw' \in {0, 1}
  BY <1>1 DEF Update, Commit, Publish, TypeOK
<1>4. TypeOK'
  <2>1. [i \in Intfs |-> [ports[q][i] EXCEPT !.module_info_changed = FALSE]]
          \in [Intfs -> Port \cup {NULL}]
    BY UpdatePorts DEF SoundPort
  <2>2. ports' \in [Procs -> [Intfs -> Port \cup {NULL}]]
    BY <2>1 DEF Update, TypeOK
  <2> QED
    BY <1>3, <2>2 DEF TypeOK, Update, hw, server
<1>5. RecordsSound'
  BY UpdatePorts DEF RecordsSound
<1>6. Scanned'
  <2> SUFFICES ASSUME NEW r \in Procs, NEW i \in Intfs,
                      pc'[r] \in {"scan", "update"}
               PROVE  /\ ports'[r][i] # NULL
                      /\ (pc'[r] = "scan" => i \notin todo'[r])
                           => ports'[r][i].connector # NULL
    BY DEF Scanned
  <2>1. r # q /\ ports'[r] = ports[r] /\ pc'[r] = pc[r]
    BY UpdatePorts
  <2>2. todo' = todo
    BY DEF Update
  <2> QED
    BY <2>1, <2>2 DEF Scanned
<1>7. FirstPass'
  BY ZenonT(30), UpdatePorts DEF FirstPass
<1>8. ReadyMeansPublished'
  <2> SUFFICES ASSUME cur_hw' = 1, NEW i \in Intfs PROVE pm_info'[i] # NULL
    BY DEF ReadyMeansPublished
  <2>1. CASE cur_hw = 1
    BY <1>1, <1>2, <2>1 DEF ReadyMeansPublished
  <2>2. CASE cur_hw # 1
    <3>1. conn[q] /\ lock = q /\ ~cur_hw_set[q]
      BY <2>2 DEF Update, Commit, Publish, TypeOK
    <3>2. i \in Changed(q)
      BY <3>1, UpdatePorts DEF Changed, FirstPass, Update, Scanned
    <3>3. pm_info'[i] = PmInfo(ports[q][i])
      BY <3>1, <3>2 DEF Update, Commit, Publish
    <3> QED
      BY <1>1, <3>3
  <2> QED
    BY <2>1, <2>2
<1>9. RowsOfOneModule'
  BY <1>1, <1>2 DEF RowsOfOneModule
<1> QED
  BY <1>4, <1>5, <1>6, <1>7, <1>8, <1>9

(* The invariant is inductive.                                             *)
LEMMA LoopInvNext == LoopInv /\ [Next]_vars => LoopInv'
<1> SUFFICES ASSUME LoopInv, [Next]_vars PROVE LoopInv'
  OBVIOUS
<1>1. CASE \E q \in Procs : Connect(q) \/ GrantLock(q) \/ Drop(q)
  BY <1>1, ServerStep
<1>2. CASE \E q \in Procs : Start(q) \/ Crash(q)
  BY <1>2, StartStep, CrashStep
<1>3. CASE \E q \in Procs : Step(q)
  BY <1>3, RunStep, ScanStep, UpdateStep DEF Step
<1>4. CASE \/ \E i \in Intfs : \/ \E m \in Modules : Insert(i, m)
                               \/ Remove(i) \/ Configure(i)
           \/ BusDegrades \/ BusSettles
  BY <1>4, OutsideStep
<1>5. CASE UNCHANGED vars
  BY <1>5 DEF vars, LoopInv, TypeOK, RecordsSound, Scanned, FirstPass,
              ReadyMeansPublished, RowsOfOneModule
<1> QED
  BY <1>1, <1>2, <1>3, <1>4, <1>5 DEF Next

(* LoopInvariant: the invariant holds in every state of every process.     *)
THEOREM LoopInvariant == Spec => []LoopInv
  BY LoopInvInit, LoopInvNext, PTL DEF Spec

(* LoopTypeCorrect: every variable keeps its type; in particular every map *)
(* that is ever published has a connector.                                 *)
THEOREM LoopTypeCorrect == Spec => []TypeOK
<1>1. LoopInv => TypeOK
  BY DEF LoopInv
<1> QED
  BY <1>1, LoopInvariant, PTL

(* ReadyAfterPublication: cur_hw is not set before every interface has its *)
(* pm_info, whatever crashes, reconnections and takeovers precede it.      *)
THEOREM ReadyAfterPublication == Spec => []ReadyMeansPublished
<1>1. LoopInv => ReadyMeansPublished
  BY DEF LoopInv
<1> QED
  BY <1>1, LoopInvariant, PTL

(* DatabaseOfOneModule: the attributes of pm_parse in a row are those of   *)
(* one module, and its monitoring data its own if it promises any, also    *)
(* when two processes scan at the same time.                               *)
THEOREM DatabaseOfOneModule == Spec => []RowsOfOneModule
<1>1. LoopInv => RowsOfOneModule
  BY DEF LoopInv
<1> QED
  BY <1>1, LoopInvariant, PTL

(***************************************************************************)
(* LockInv.                                                                *)
(***************************************************************************)
(* No process has the lock, a session or a port when the system starts.    *)
LEMMA LockInvInit == Init => LockInv
<1> SUFFICES ASSUME Init PROVE LockInv
  OBVIOUS
<1>1. LoopInv
  BY LoopInvInit
<1>2. Standing
  BY PmdAssumption DEF Init, Standing, NoPorts
<1>3. UnpublishedIsFlagged
  BY PmdAssumption DEF Init, UnpublishedIsFlagged
<1> QED
  BY <1>1, <1>2, <1>3 DEF LockInv

(* A step that leaves ports, rows and the points of the loop alone, and    *)
(* the lock to the process that has it.                                    *)
LEMMA LockUntouched ==
  ASSUME LockInv, LoopInv', UNCHANGED <<ports, pm_info, lock>>,
         \A q \in Procs : conn[q] => conn'[q],
         \A q \in Procs : pc'[q] \in {"scan", "update"} => pc'[q] = pc[q]
  PROVE  LockInv'
<1>1. Standing'
  BY DEF LockInv, Standing
<1>2. UnpublishedIsFlagged'
  BY DEF LockInv, UnpublishedIsFlagged
<1> QED
  BY <1>1, <1>2 DEF LockInv

(* The free lock goes to a process that has no ports yet.                  *)
LEMMA GrantStep ==
  ASSUME LockInv, LoopInv', NEW q \in Procs, GrantLock(q)
  PROVE  LockInv'
<1>1. /\ lock = NULL /\ lock' = q /\ conn[q]
      /\ UNCHANGED <<ports, pm_info, pc, conn>>
  BY DEF GrantLock, procs, db
<1>2. \A r \in Procs : /\ pc[r] \notin {"scan", "update"}
                       /\ \A i \in Intfs : ports[r][i] = NULL
  BY <1>1, PmdAssumption DEF LockInv, Standing
<1>3. Standing'
  BY <1>1, <1>2 DEF Standing
<1>4. UnpublishedIsFlagged'
  BY <1>1, <1>2 DEF UnpublishedIsFlagged
<1> QED
  BY <1>3, <1>4 DEF LockInv

(* A process that dies gives back the lock together with its ports.        *)
LEMMA CrashReleases ==
  ASSUME LockInv, LoopInv', NEW q \in Procs, Crash(q)
  PROVE  LockInv'
<1>1. \A r \in Procs :
        IF r = q
        THEN pc'[r] = "down" /\ \A i \in Intfs : ports'[r][i] = NULL
        ELSE ports'[r] = ports[r] /\ pc'[r] = pc[r] /\ conn'[r] = conn[r]
  BY DEF LockInv, LoopInv, TypeOK, Crash, EndSession, NoPorts
<1>2. \A r \in Procs : lock' = r <=> lock = r /\ r # q
  BY PmdAssumption DEF Crash, EndSession
<1>3. pm_info' = pm_info
  BY DEF Crash, db
<1>4. Standing'
  BY <1>1, <1>2 DEF LockInv, Standing
<1>5. UnpublishedIsFlagged'
  BY <1>1, <1>2, <1>3 DEF LockInv, UnpublishedIsFlagged
<1> QED
  BY <1>4, <1>5 DEF LockInv

(* pmd_reconfigure is entered with the lock, and publishes nothing: a new  *)
(* port has no connector, and one that stays is no different to a reader.  *)
LEMMA RunWithLock ==
  ASSUME LockInv, LoopInv', NEW q \in Procs, Run(q)
  PROVE  LockInv'
<1>1. TypeOK /\ RecordsSound
  BY DEF LockInv, LoopInv
<1>2. lock = q /\ conn[q] /\ UNCHANGED <<lock, conn, pm_info>>
  BY DEF Run, server, db
<1>3. Standing'
  BY <1>1, <1>2, RunPorts DEF LockInv, Standing
<1>4. UnpublishedIsFlagged'
  <2> SUFFICES ASSUME NEW i \in Intfs
               PROVE  \/ ports'[q][i].module_info_changed
                      \/ ports'[q][i].connector = NULL
                      \/ pm_info'[i] = PmInfo(ports'[q][i])
    BY <1>2 DEF UnpublishedIsFlagged
  <2> DEFINE p == ports[q][i]
             r == Reconfigured(p, hw_enable[i])
  <2>1. ports'[q][i] = r
    BY <1>1, RunPorts
  <2>2. /\ Cage[i] \in Connectors /\ hw_enable[i] \in BOOLEAN
        /\ p # NULL => SoundPort(p, Cage[i])
    BY <1>1, PmdAssumption DEF TypeOK, RecordsSound
  <2>3. IF p = NULL
        THEN r.connector = NULL
        ELSE /\ r.connector = p.connector
             /\ r.module_info_changed = p.module_info_changed
             /\ PmInfo(r) = PmInfo(p)
    BY <2>2, ReconfiguredPort, Zenon
  <2>4. p # NULL => \/ p.module_info_changed
                    \/ p.connector = NULL
                    \/ pm_info[i] = PmInfo(p)
    BY <1>2 DEF LockInv, UnpublishedIsFlagged
  <2> HIDE DEF p, r
  <2> QED
    BY <1>2, <2>1, <2>3, <2>4
<1> QED
  BY <1>3, <1>4 DEF LockInv

(* A scan flags what it changes.                                           *)
LEMMA ScanWithLock ==
  ASSUME LockInv, LoopInv', NEW q \in Procs, NEW i \in Intfs, Scan(q, i)
  PROVE  LockInv'
<1>1. /\ \/ ports'[q][i] = ports[q][i]
         \/ ports'[q][i].module_info_changed
      /\ ports' = [ports EXCEPT ![q][i] = ports'[q][i]]
  BY ScanPorts DEF LockInv
<1>2. /\ lock = q
      /\ ports[q][i] # NULL
      /\ UNCHANGED <<lock, conn, pm_info>>
  BY DEF LockInv, LoopInv, Scanned, Standing, Scan, server, db
<1>3. \A r \in Procs : r # q => ports'[r] = ports[r] /\ pc'[r] = pc[r]
  BY <1>1 DEF LockInv, LoopInv, TypeOK, Scan
<1>4. \A j \in Intfs : j # i => ports'[q][j] = ports[q][j]
  BY <1>1 DEF LockInv, LoopInv, TypeOK
<1>5. Standing'
  BY <1>2, <1>3 DEF LockInv, Standing
<1>6. UnpublishedIsFlagged'
  BY <1>1, <1>2, <1>4 DEF LockInv, UnpublishedIsFlagged
<1> QED
  BY <1>5, <1>6 DEF LockInv

(* pm_ovsdb_update commits as the owner of the lock, so that the flags it  *)
(* clears are those of ports whose rows it has just written.               *)
LEMMA UpdateWithLock ==
  ASSUME LockInv, LoopInv', NEW q \in Procs, Update(q)
  PROVE  LockInv'
<1>1. LoopInv
  BY DEF LockInv
<1>2. lock = q /\ conn[q] /\ UNCHANGED <<lock, conn>>
  BY DEF LockInv, Standing, Update, server
<1>3. Standing'
  <2>1. pc'[q] = "run"
    BY <1>1 DEF Update, LoopInv, TypeOK
  <2>2. \A r \in Procs : r # q => ports'[r] = ports[r] /\ pc'[r] = pc[r]
    BY <1>1 DEF Update, LoopInv, TypeOK
  <2> QED
    BY <1>2, <2>1, <2>2 DEF LockInv, Standing
<1>4. UnpublishedIsFlagged'
  <2> SUFFICES ASSUME NEW i \in Intfs
               PROVE  pm_info'[i] = PmInfo(ports'[q][i])
    BY <1>2 DEF UnpublishedIsFlagged
  <2>1. /\ ports[q][i] # NULL
        /\ ports[q][i].connector # NULL
        /\ PmInfo(ports'[q][i]) = PmInfo(ports[q][i])
    <3>1. ports[q][i] # NULL
      BY <1>1 DEF Update, LoopInv, Scanned
    <3>2. /\ ports[q][i].connector # NULL
          /\ PmInfo(ports'[q][i]) = PmInfo(ports[q][i])
      BY <1>1, PublishedPort
    <3> QED
      BY <3>1, <3>2
  <2>2. pm_info'[i] = IF i \in Changed(q)
                      THEN PmInfo(ports[q][i]) ELSE pm_info[i]
    BY <1>2 DEF Update, Commit, Publish
  <2>3. i \notin Changed(q) => pm_info[i] = PmInfo(ports[q][i])
    BY <1>2, <2>1 DEF Changed, LockInv, UnpublishedIsFlagged
  <2> QED
    BY <2>1, <2>2, <2>3
<1> QED
  BY <1>3, <1>4 DEF LockInv

(* The invariant is inductive if no connection is lost.                    *)
LEMMA LockInvNext == ~Drops /\ LockInv /\ [Next]_vars => LockInv'
<1> SUFFICES ASSUME ~Drops, LockInv, [Next]_vars PROVE LockInv'
  OBVIOUS
<1>0. LoopInv'
  BY LoopInvNext DEF LockInv
<1>1. CASE \E q \in Procs : Connect(q) \/ GrantLock(q) \/ Drop(q)
  <2>1. ASSUME NEW q \in Procs, Connect(q) PROVE LockInv'
    BY <1>0, <2>1, LockUntouched
       DEF Connect, procs, db, LockInv, LoopInv, TypeOK
  <2>2. ASSUME NEW q \in Procs, Drop(q) PROVE FALSE
    BY <2>2 DEF Drop
  <2> QED
    BY <1>0, <1>1, <2>1, <2>2, GrantStep
<1>2. CASE \E q \in Procs : Start(q)
  BY <1>0, <1>2, LockUntouched
     DEF Start, server, db, LockInv, LoopInv, TypeOK
<1>3. CASE \E q \in Procs : Crash(q) \/ Step(q)
  BY <1>0, <1>3, CrashReleases, RunWithLock, ScanWithLock, UpdateWithLock
     DEF Step
<1>4. CASE \/ \E i \in Intfs : \/ \E m \in Modules : Insert(i, m)
                               \/ Remove(i) \/ Configure(i)
           \/ BusDegrades \/ BusSettles
  BY <1>0, <1>4, LockUntouched
     DEF Insert, Remove, Configure, BusDegrades, BusSettles, procs, db, server
<1>5. CASE UNCHANGED vars
  BY <1>0, <1>5, LockUntouched DEF vars
<1> QED
  BY <1>1, <1>2, <1>3, <1>4, <1>5 DEF Next

(* LockInvariant: the invariant holds in every state if no connection is   *)
(* lost.                                                                   *)
THEOREM LockInvariant == ~Drops => (Spec => []LockInv)
<1> SUFFICES ASSUME ~Drops PROVE Spec => []LockInv
  OBVIOUS
<1>1. LockInv /\ [Next]_vars => LockInv'
  BY LockInvNext
<1> QED
  BY <1>1, LockInvInit, PTL DEF Spec

(* LockExcludes: if no connection is lost, no two processes work on the    *)
(* modules at the same time.                                               *)
THEOREM LockExcludes == ~Drops => (Spec => []OneScanner)
<1>1. LockInv => OneScanner
  BY DEF LockInv, Standing, OneScanner
<1> QED
  BY <1>1, LockInvariant, PTL

(* NothingUnflagged: if no connection is lost, what the owner of the lock  *)
(* has on record is in the database or flagged for the next transaction.   *)
THEOREM NothingUnflagged == ~Drops => (Spec => []UnpublishedIsFlagged)
<1>1. LockInv => UnpublishedIsFlagged
  BY DEF LockInv
<1> QED
  BY <1>1, LockInvariant, PTL
=============================================================================
