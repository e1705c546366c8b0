------------------------------ MODULE SimProofs -----------------------------
(***************************************************************************)
(* The simulation build: what Rows promises holds also when passes scan    *)
(* and publish, commands exchange the modules and the process is stopped   *)
(* by a command, for any number of interfaces, subsystems and modules.     *)
(*                                                                         *)
(* RowsInv is proved again, from the lemmas of RowsProofs and from         *)
(* EntriesKept: scan, publication and commands touch no part of a port or  *)
(* row that reconciliation looks at.                                       *)
(***************************************************************************)
EXTENDS Sim, RowsProofs

(* A flagged port has a connector to publish.                              *)
FlaggedHasConnector ==
  \A n \in Names :
    ovs_intfs[n] # NULL /\ ovs_intfs[n].port.module_info_changed =>
      ovs_intfs[n].port.connector # NULL

SimInv == RowsInv /\ TypeOK /\ FlaggedHasConnector

(***************************************************************************)
(* Steps outside pmd_reconfigure.                                          *)
(***************************************************************************)
(* A step that leaves uuids and requests alone keeps what reconciliation   *)
(* has established.                                                        *)
LEMMA EntriesKept ==
  ASSUME RowsInv,
         UNCHANGED <<subs, has_lock, changed, todo, ovs_subs, yaml>>,
         pc # "subs", pc' \in {"run", "update"}, UpToDate' => UpToDate,
         rows' \in [Names -> Row \cup {NULL}],
         \A n \in Names :
           IF rows[n] = NULL
           THEN rows'[n] = NULL
           ELSE /\ rows'[n] # NULL
                /\ rows'[n].uuid = rows[n].uuid
                /\ rows'[n].enable = rows[n].enable,
         ovs_intfs' \in [Names -> Entry \cup {NULL}],
         \A n \in Names :
           IF ovs_intfs[n] = NULL
           THEN ovs_intfs'[n] = NULL
           ELSE /\ ovs_intfs'[n] # NULL
                /\ ovs_intfs'[n].uuid = ovs_intfs[n].uuid
                /\ ovs_intfs'[n].configured = ovs_intfs[n].configured
                /\ ovs_intfs'[n].port.hw_enable = ovs_intfs[n].port.hw_enable
  PROVE  RowsInv'
<1> USE DEF RowsInv
<1>1. RowsTypeOK'
  <2>1. \A s \in Subs : subs[s] # NULL => subs[s].interfaces \subseteq Names
    BY DEF RowsTypeOK, SubRow
  <2>2. \A s \in Subs : subs[s] # NULL =>
          \A n \in subs[s].interfaces : rows'[n] # NULL
    BY <2>1 DEF RowsTypeOK
  <2>3. /\ \A n \in Names : rows'[n] # NULL => rows'[n].uuid \in Uuids({n})
        /\ \A n \in Names : ovs_intfs'[n] # NULL =>
             ovs_intfs'[n].uuid \in Uuids({n})
    BY DEF RowsTypeOK
  <2> QED
    BY <2>2, <2>3 DEF RowsTypeOK
<1>2. YamlSound' /\ Configured' /\ TodoSound'
  BY DEF YamlSound, Configured, TodoSound, LiveSubs
<1>3. Reconciled' => UpToDate
  BY DEF Reconciled
<1>4. UpToDate => PortsMatch' /\ SubsMatch' /\ Requested'
  <2> SUFFICES ASSUME UpToDate PROVE PortsMatch' /\ SubsMatch' /\ Requested'
    OBVIOUS
  <2>1. PortsMatch /\ SubsMatch /\ Requested
    BY DEF Reconciled
  <2> QED
    BY <2>1 DEF PortsMatch, SubsMatch, Requested
<1>5. UpToDate => (\A s \in LiveSubs \ todo : Served(s))'
  <2> SUFFICES ASSUME UpToDate PROVE (\A s \in LiveSubs \ todo : Served(s))'
    OBVIOUS
  <2>1. \A s \in LiveSubs \ todo :
          Served(s) /\ s \in Subs /\ subs[s].interfaces \subseteq Names
    BY DEF Reconciled, LiveSubs, RowsTypeOK, SubRow
  <2> QED
    BY <2>1 DEF LiveSubs, Served
<1> QED
  BY <1>1, <1>2, <1>3, <1>4, <1>5

(* The record a simulated scan leaves.                                     *)
LEMMA SimScannedSound ==
  ASSUME NEW e \in Entry, e # NULL,
         e.port.module_info_changed => e.port.connector # NULL
  PROVE  LET p == SimScanned(e)
         IN  /\ p \in Port
             /\ p.hw_enable = e.port.hw_enable
             /\ p.module_info_changed => p.connector # NULL
             /\ p = e.port \/ p.module_info_changed
<1> DEFINE port == e.port
           m == e.module_data
           i == Identify(port, Cage, m)
<1>1. port \in Port /\ m \in Modules \cup {Empty}
  BY DEF Entry
<1>2. CASE SimScanned(e) = port
  BY <1>1, <1>2
<1>3. CASE SimScanned(e) = Absent(port)
  <2>1. Absent(port) \in Port
    BY <1>1, AbsentType
  <2>2. /\ Absent(port).connector = "absent"
        /\ Absent(port).hw_enable = port.hw_enable
        /\ Absent(port).module_info_changed
    BY <1>1 DEF Absent, pm_delete_all_data, Port
  <2> QED
    BY <1>3, <2>1, <2>2, NullAttributeAssumption DEF ConnectorNames
<1>4. CASE SimScanned(e) = MarkUnknown(port)
  <2>1. MarkUnknown(port) \in Port
    BY <1>1, MarkUnknownType
  <2>2. /\ MarkUnknown(port).connector = "unknown"
        /\ MarkUnknown(port).hw_enable = port.hw_enable
        /\ MarkUnknown(port).module_info_changed
    BY <1>1 DEF MarkUnknown, pm_delete_all_data, Port
  <2> QED
    BY <1>4, <2>1, <2>2, NullAttributeAssumption DEF ConnectorNames
<1>5. CASE m # Empty /\ A0[m].sums_ok /\ SimScanned(e) \in {i, pm_set_a2(i, Ones)}
  <2>1. m \in Modules
    BY <1>1, <1>5
  <2>2. i \in Port /\ i.connector # NULL
    BY <1>1, <1>5, <2>1, IdentifyType, IdentifySound, CageAssumption
  <2>3. i.hw_enable = port.hw_enable /\ i.module_info_changed
    BY <1>1 DEF Identify, Port
  <2> HIDE DEF i, port
  <2>4. /\ pm_set_a2(i, Ones) \in Port
        /\ pm_set_a2(i, Ones).connector = i.connector
        /\ pm_set_a2(i, Ones).hw_enable = i.hw_enable
        /\ pm_set_a2(i, Ones).module_info_changed
    <3>1. pm_set_a2(i, Ones) \in Port
      BY <2>2, SetA2Type
    <3> QED
      BY <2>2, <3>1 DEF pm_set_a2, Port
  <2> QED
    BY <1>5, <2>2, <2>3, <2>4 DEF port
<1> QED
  BY <1>2, <1>3, <1>4, <1>5 DEF SimScanned, MarkAbsent

(* pm_read_state writes the records and nothing else.                      *)
LEMMA SimScanStep ==
  ASSUME SimInv, Scan
  PROVE  SimInv'
<1>1. RowsInv /\ RowsTypeOK /\ FlaggedHasConnector
  BY DEF SimInv, RowsInv
<1>2. /\ pc = "scan" /\ pc' = "update"
      /\ UNCHANGED <<rows, subs, has_lock, changed, todo, ovs_subs, yaml, client>>
      /\ ovs_intfs' = [n \in Names |->
                         IF ovs_intfs[n] = NULL THEN NULL
                         ELSE [ovs_intfs[n] EXCEPT
                                 !.port = SimScanned(ovs_intfs[n])]]
  BY DEF Scan, replica
<1>3. \A n \in Names :
        IF ovs_intfs[n] = NULL
        THEN ovs_intfs'[n] = NULL
        ELSE /\ ovs_intfs'[n] \in Entry
             /\ ovs_intfs'[n].uuid = ovs_intfs[n].uuid
             /\ ovs_intfs'[n].configured = ovs_intfs[n].configured
             /\ ovs_intfs'[n].port.hw_enable = ovs_intfs[n].port.hw_enable
             /\ ovs_intfs'[n].port.module_info_changed
                  => ovs_intfs'[n].port.connector # NULL
  <2> SUFFICES ASSUME NEW n \in Names, ovs_intfs[n] # NULL
               PROVE  /\ ovs_intfs'[n] \in Entry
                      /\ ovs_intfs'[n].uuid = ovs_intfs[n].uuid
                      /\ ovs_intfs'[n].configured = ovs_intfs[n].configured
                      /\ ovs_intfs'[n].port.hw_enable
                           = ovs_intfs[n].port.hw_enable
                      /\ ovs_intfs'[n].port.module_info_changed
                           => ovs_intfs'[n].port.connector # NULL
    BY <1>2
  <2> DEFINE e == ovs_intfs[n]
             p == SimScanned(e)
  <2>1. e \in Entry /\ (e.port.module_info_changed => e.port.connector # NULL)
    BY <1>1 DEF RowsTypeOK, FlaggedHasConnector
  <2>2. /\ p \in Port
        /\ p.hw_enable = e.port.hw_enable
        /\ p.module_info_changed => p.connector # NULL
    BY <2>1, SimScannedSound
  <2>3. ovs_intfs'[n] = [e EXCEPT !.port = p]
    BY <1>2
  <2> HIDE DEF e, p
  <2>4. /\ ovs_intfs'[n] \in Entry
        /\ ovs_intfs'[n].uuid = e.uuid
        /\ ovs_intfs'[n].configured = e.configured
        /\ ovs_intfs'[n].port = p
    BY <2>1, <2>2, <2>3 DEF Entry
  <2> QED
    BY <2>2, <2>4 DEF e
<1>4. ovs_intfs' \in [Names -> Entry \cup {NULL}]
  BY <1>2, <1>3
<1>5. RowsInv'
  <2>1. UpToDate
    BY <1>2 DEF UpToDate, InPass
  <2> QED
    BY <1>1, <1>2, <1>3, <1>4, <2>1, EntriesKept, NullRowAssumption
       DEF RowsTypeOK
<1>6. FlaggedHasConnector'
  BY <1>3 DEF FlaggedHasConnector
<1>7. TypeOK'
  BY <1>2, <1>5 DEF SimInv, RowsInv, TypeOK
<1> QED
  BY <1>5, <1>6, <1>7 DEF SimInv

(* pm_ovsdb_update writes pm_info of the rows and clears the flags.        *)
LEMMA SimUpdateStep ==
  ASSUME SimInv, Update
  PROVE  SimInv'
<1>1. RowsInv /\ RowsTypeOK /\ FlaggedHasConnector
  BY DEF SimInv, RowsInv
<1>2. /\ pc = "update" /\ pc' = "run"
      /\ UNCHANGED <<subs, has_lock, changed, todo, ovs_subs, yaml, client>>
      /\ rows' = [n \in Names |->
                    IF Writes(n)
                    THEN [rows[n] EXCEPT !.pm_info = PmInfo(ovs_intfs[n].port)]
                    ELSE rows[n]]
      /\ ovs_intfs' = [n \in Names |->
                         IF Writes(n)
                         THEN [ovs_intfs[n] EXCEPT
                                 !.port.module_info_changed = FALSE]
                         ELSE ovs_intfs[n]]
  BY DEF Update
<1>3. ASSUME NEW n \in Names, Writes(n)
      PROVE  /\ rows'[n] \in Row
             /\ rows'[n].uuid = rows[n].uuid
             /\ rows'[n].enable = rows[n].enable
             /\ ovs_intfs'[n] \in Entry
             /\ ovs_intfs'[n].uuid = ovs_intfs[n].uuid
             /\ ovs_intfs'[n].configured = ovs_intfs[n].configured
             /\ ovs_intfs'[n].port.hw_enable = ovs_intfs[n].port.hw_enable
             /\ ovs_intfs'[n].port.module_info_changed = FALSE
  <2> DEFINE e == ovs_intfs[n]
             p == [e.port EXCEPT !.module_info_changed = FALSE]
             info == PmInfo(e.port)
  <2>1. /\ rows[n] \in Row /\ e \in Entry
        /\ e.port.module_info_changed
    BY <1>1, <1>3 DEF Writes, RowsTypeOK
  <2>2. e.port \in Port /\ e.port.connector # NULL
    BY <1>1, <1>3, <2>1 DEF Writes, FlaggedHasConnector, Entry
  <2>3. info \in Info
    BY <2>2, PmInfoType
  <2>4. p \in Port /\ p.hw_enable = e.port.hw_enable
        /\ p.module_info_changed = FALSE
    BY <2>2 DEF Port
  <2>5. /\ rows'[n] = [rows[n] EXCEPT !.pm_info = info]
        /\ ovs_intfs'[n] = [e EXCEPT !.port = p]
    BY <1>2, <1>3, <2>1 DEF Entry
  <2> HIDE DEF e, p, info
  <2>6. /\ rows'[n] \in Row
        /\ rows'[n].uuid = rows[n].uuid
        /\ rows'[n].enable = rows[n].enable
    BY <2>1, <2>3, <2>5 DEF Row
  <2>7. /\ ovs_intfs'[n] \in Entry
        /\ ovs_intfs'[n].uuid = e.uuid
        /\ ovs_intfs'[n].configured = e.configured
        /\ ovs_intfs'[n].port = p
    BY <2>1, <2>4, <2>5 DEF Entry
  <2> QED
    BY <2>4, <2>6, <2>7 DEF e
<1>4. \A n \in Names : ~Writes(n) =>
        rows'[n] = rows[n] /\ ovs_intfs'[n] = ovs_intfs[n]
  BY <1>2
<1>5. \A n \in Names : Writes(n) => rows[n] # NULL /\ ovs_intfs[n] # NULL
  BY DEF Writes
<1>6. /\ rows' \in [Names -> Row \cup {NULL}]
      /\ ovs_intfs' \in [Names -> Entry \cup {NULL}]
  <2>1. \A n \in Names : /\ rows'[n] \in Row \cup {NULL}
                         /\ ovs_intfs'[n] \in Entry \cup {NULL}
    BY <1>1, <1>3, <1>4 DEF RowsTypeOK
  <2> QED
    BY <1>2, <2>1
<1>7. RowsInv'
  <2>1. UpToDate
    BY <1>2 DEF UpToDate, InPass
  <2>2. \A n \in Names :
          IF rows[n] = NULL
          THEN rows'[n] = NULL
          ELSE /\ rows'[n] # NULL
               /\ rows'[n].uuid = rows[n].uuid
               /\ rows'[n].enable = rows[n].enable
    BY <1>3, <1>4, <1>5, NullRowAssumption
  <2>3. \A n \in Names :
          IF ovs_intfs[n] = NULL
          THEN ovs_intfs'[n] = NULL
          ELSE /\ ovs_intfs'[n] # NULL
               /\ ovs_intfs'[n].uuid = ovs_intfs[n].uuid
               /\ ovs_intfs'[n].configured = ovs_intfs[n].configured
               /\ ovs_intfs'[n].port.hw_enable = ovs_intfs[n].port.hw_enable
    BY <1>3, <1>4, <1>5, NullRowAssumption
  <2> QED
    BY <1>1, <1>2, <1>6, <2>1, <2>2, <2>3, EntriesKept
<1>8. FlaggedHasConnector'
  BY <1>1, <1>3, <1>4 DEF FlaggedHasConnector
<1>9. TypeOK'
  BY <1>2, <1>7 DEF SimInv, RowsInv, TypeOK
<1> QED
  BY <1>7, <1>8, <1>9 DEF SimInv

(***************************************************************************)
(* The commands.                                                           *)
(***************************************************************************)
(* The arguments of the two commands that have any.                        *)
LEMMA CommandArguments ==
  ASSUME TypeOK
  PROVE  /\ client.op = "insert" => /\ client.name \in Names
                                    /\ client.file \in Modules \cup {NULL}
         /\ client.op = "remove" => client.name \in Names
  BY DEF TypeOK, Commands, Idle

(* A command exchanges the module of a port and leaves its record alone.   *)
LEMMA SetModuleStep ==
  ASSUME SimInv, NEW n \in Names, NEW m \in Modules \cup {Empty},
         pc = "run", ovs_intfs[n] # NULL, SetModule(n, m)
  PROVE  RowsInv' /\ FlaggedHasConnector'
<1>1. RowsInv /\ RowsTypeOK /\ FlaggedHasConnector
  BY DEF SimInv, RowsInv
<1> DEFINE new == [ovs_intfs[n] EXCEPT !.module_data = m]
<1>2. /\ UNCHANGED <<rows, subs, has_lock, changed, pc, todo, ovs_subs, yaml>>
      /\ ovs_intfs' = [ovs_intfs EXCEPT ![n] = new]
  BY DEF SetModule, replica
<1>3. /\ new \in Entry
      /\ new.uuid = ovs_intfs[n].uuid
      /\ new.configured = ovs_intfs[n].configured
      /\ new.port = ovs_intfs[n].port
  <2>1. ovs_intfs[n] \in Entry
    BY <1>1 DEF RowsTypeOK
  <2> QED
    BY <2>1 DEF Entry
<1> HIDE DEF new
<1>4. /\ ovs_intfs' \in [Names -> Entry \cup {NULL}]
      /\ ovs_intfs'[n] = new /\ new # NULL
      /\ \A k \in Names : k # n => ovs_intfs'[k] = ovs_intfs[k]
  BY <1>1, <1>2, <1>3, NullRowAssumption DEF RowsTypeOK
<1>5. RowsInv'
  <2>1. UpToDate' => UpToDate
    BY <1>2 DEF UpToDate, InPass
  <2>2. \A k \in Names :
          IF ovs_intfs[k] = NULL
          THEN ovs_intfs'[k] = NULL
          ELSE /\ ovs_intfs'[k] # NULL
               /\ ovs_intfs'[k].uuid = ovs_intfs[k].uuid
               /\ ovs_intfs'[k].configured = ovs_intfs[k].configured
               /\ ovs_intfs'[k].port.hw_enable = ovs_intfs[k].port.hw_enable
    BY <1>3, <1>4
  <2> QED
    BY <1>1, <1>2, <1>4, <2>1, <2>2, EntriesKept DEF RowsTypeOK
<1>6. FlaggedHasConnector'
  BY <1>1, <1>3, <1>4 DEF FlaggedHasConnector
<1> QED
  BY <1>5, <1>6

(* Every command keeps the invariant, whatever becomes of its client.      *)
LEMMA ServeStep ==
  ASSUME SimInv, Serve
  PROVE  SimInv'
<1>1. RowsInv /\ FlaggedHasConnector /\ TypeOK
  BY DEF SimInv
<1>2. client' \in {Idle, [op |-> "unanswered"]}
  BY DEF Serve, SimInsert, SimRemove, SimMalformed, Dump, Exit, Reply
<1>3. RowsInv' /\ FlaggedHasConnector'
  <2>1. CASE UNCHANGED row_vars
    BY <1>1, <2>1, RowsStutter DEF row_vars, FlaggedHasConnector
  <2>2. CASE SimInsert /\ ~UNCHANGED row_vars
    <3> DEFINE m == IF client.file = NULL THEN Empty ELSE client.file
    <3>1. /\ pc = "run" /\ client.name \in Names
          /\ m \in Modules \cup {Empty}
          /\ ovs_intfs[client.name] # NULL
          /\ SetModule(client.name, m)
      BY <1>1, <2>2, CommandArguments DEF SimInsert, Handling
    <3> QED
      BY <3>1, SetModuleStep
  <2>3. CASE SimRemove /\ ~UNCHANGED row_vars
    <3>1. /\ pc = "run" /\ client.name \in Names
          /\ ovs_intfs[client.name] # NULL
          /\ SetModule(client.name, Empty)
      BY <1>1, <2>3, CommandArguments DEF SimRemove, Handling
    <3> QED
      BY <3>1, SetModuleStep
  <2>4. CASE Exit
    BY <1>1, <2>4, StopStep DEF Exit, Stop, NoPorts, FlaggedHasConnector
  <2> QED
    BY <2>1, <2>2, <2>3, <2>4 DEF Serve, SimMalformed, Dump
<1>4. TypeOK'
  BY <1>2, <1>3 DEF RowsInv, TypeOK
<1> QED
  BY <1>3, <1>4 DEF SimInv

(***************************************************************************)
(* The whole.                                                              *)
(***************************************************************************)
(* Reconciliation flags no port.                                           *)
LEMMA ReconcileKeepsFlags ==
  ASSUME SimInv, Database \/ Start \/ Reconcile
  PROVE  FlaggedHasConnector'
<1>1. RowsInv /\ RowsTypeOK /\ FlaggedHasConnector
  BY DEF SimInv, RowsInv
<1>2. CASE UNCHANGED ovs_intfs
  BY <1>1, <1>2 DEF FlaggedHasConnector
<1>3. CASE Reconfigure
  BY <1>1, <1>3 DEF Reconfigure, Dropped, FlaggedHasConnector
<1>4. CASE ModifyInterfaces
  <2> SUFFICES ASSUME NEW n \in Names, rows[n] # NULL, ovs_intfs[n] # NULL
               PROVE  /\ Modified(n).port.connector = ovs_intfs[n].port.connector
                      /\ Modified(n).port.module_info_changed
                           = ovs_intfs[n].port.module_info_changed
    BY <1>1, <1>4 DEF ModifyInterfaces, FlaggedHasConnector
  <2>1. ovs_intfs[n] \in Entry
    BY <1>1 DEF RowsTypeOK
  <2> QED
    BY <2>1 DEF Modified, Entry, Port
<1>5. ASSUME NEW s \in Subs, NewSub(s) \/ KnownSub(s)
      PROVE  FlaggedHasConnector'
  <2>1. \A n \in Names :
          ovs_intfs'[n] = ovs_intfs[n] \/ ovs_intfs'[n] = NewEntry(s, n)
    BY <1>1, <1>5 DEF NewSub, KnownSub, WithPorts, RowsTypeOK
  <2>2. \A n \in Names : NewEntry(s, n).port.module_info_changed = FALSE
    BY DEF NewEntry, NewPort
  <2> QED
    BY <1>1, <2>1, <2>2 DEF FlaggedHasConnector
<1> QED
  BY <1>2, <1>3, <1>4, <1>5
     DEF Database, AddRow, DeleteRow, SetEnable, AddSub, DeleteSub, List,
         Replicate, GetLock, LoseLock, Start, Reconcile, NothingNew, tables

(* SimInvariant: the invariant holds in every state of the simulation.     *)
THEOREM SimInvariant == Spec => []SimInv
<1>1. Init => SimInv
  <2> SUFFICES ASSUME Init PROVE SimInv
    OBVIOUS
  <2>1. RowsInv
    BY RowsInvInit DEF Init
  <2>2. TypeOK /\ FlaggedHasConnector
    BY <2>1 DEF Init, RowsInit, NoPorts, FlaggedHasConnector, TypeOK, RowsInv
  <2> QED
    BY <2>1, <2>2 DEF SimInv
<1>2. SimInv /\ [Next]_vars => SimInv'
  <2> SUFFICES ASSUME SimInv, [Next]_vars PROVE SimInv'
    OBVIOUS
  <2>0. RowsInv /\ FlaggedHasConnector /\ TypeOK
    BY DEF SimInv
  <2>1. CASE (Database \/ Start \/ Reconcile) /\ UNCHANGED client
    <3>1. RowsInv'
      BY <2>0, <2>1, DatabaseStep, StartStep, ReconcileStep
    <3>2. FlaggedHasConnector'
      BY <2>1, ReconcileKeepsFlags
    <3>3. TypeOK'
      BY <2>0, <2>1, <3>1 DEF RowsInv, TypeOK
    <3> QED
      BY <3>1, <3>2, <3>3 DEF SimInv
  <2>2. CASE Scan \/ Update \/ Serve
    BY <2>2, SimScanStep, SimUpdateStep, ServeStep
  <2>3. CASE \/ \E command \in Commands : Request(command)
             \/ Hangup
             \/ UNCHANGED vars
    <3>1. /\ UNCHANGED row_vars
          /\ client' \in Commands \cup {Idle, client}
      BY <2>3 DEF Request, Hangup, vars
    <3>2. RowsInv' /\ FlaggedHasConnector'
      BY <2>0, <3>1, RowsStutter DEF row_vars, FlaggedHasConnector
    <3>3. TypeOK'
      BY <2>0, <3>1, <3>2 DEF RowsInv, TypeOK
    <3> QED
      BY <3>2, <3>3 DEF SimInv
  <2>4. CASE Crash
    <3>1. RowsInv' /\ FlaggedHasConnector'
      BY <2>0, <2>4, StopStep DEF Crash, Stop, NoPorts, FlaggedHasConnector
    <3>2. TypeOK'
      BY <2>4, <3>1 DEF Crash, RowsInv, TypeOK
    <3> QED
      BY <3>1, <3>2 DEF SimInv
  <2> QED
    BY <2>1, <2>2, <2>3, <2>4 DEF Next, Pass
<1> QED
  BY <1>1, <1>2, PTL DEF Spec

(* SimTypeCorrect: every variable of the simulation keeps its type.        *)
THEOREM SimTypeCorrect == Spec => []TypeOK
<1>1. SimInv => TypeOK
  BY DEF SimInv
<1> QED
  BY <1>1, SimInvariant, PTL

(* SimKeepsPromises: in the passes of the simulation, with its scans,      *)
(* publications and commands between them, the tables match the rows,      *)
(* every listed port exists and every request has been applied.            *)
THEOREM SimKeepsPromises ==
  Spec => [](TablesMatchRows /\ RowsServed /\ RequestsApplied)
<1>1. SimInv => TablesMatchRows /\ RowsServed /\ RequestsApplied
  BY RowsPromises DEF SimInv
<1> QED
  BY <1>1, SimInvariant, PTL

(***************************************************************************)
(* UnflaggedIsPublished.  It speaks of a pass, when by TablesMatchRows the *)
(* entry and the row of a name belong together; what every step keeps is   *)
(* that whenever they do, an unflagged port has nothing to tell the row.   *)
(***************************************************************************)
NothingToTell(row, entry) ==
  /\ entry # NULL /\ entry.port.connector # NULL
  /\ ~entry.port.module_info_changed
  /\ row # NULL /\ row.uuid = entry.uuid
  => row.pm_info = PmInfo(entry.port)

Told == \A n \in Names : NothingToTell(rows[n], ovs_intfs[n])

(* Rows come and go: a new one has a uuid that no port holds.              *)
LEMMA DatabaseTold ==
  ASSUME SimInv, Told, Database
  PROVE  Told'
<1>1. RowsTypeOK
  BY DEF SimInv, RowsInv
<1>2. UNCHANGED ovs_intfs
  BY DEF Database, AddRow, DeleteRow, SetEnable, AddSub, DeleteSub, List,
         Replicate, GetLock, LoseLock, tables
<1>3. ASSUME NEW n \in Names, NEW enable \in BOOLEAN, AddRow(n, enable)
      PROVE  Told'
  <2>1. rows'[n].uuid = Fresh(n, PortUuid(n))
    BY <1>1, <1>3 DEF AddRow, RowsTypeOK
  <2>2. ovs_intfs[n] # NULL => PortUuid(n) = ovs_intfs[n].uuid /\ PortUuid(n) # NULL
    BY <1>1, NullRowAssumption DEF PortUuid, RowsTypeOK, Entry
  <2>3. ovs_intfs[n] # NULL => rows'[n].uuid # ovs_intfs[n].uuid
    BY <2>1, <2>2, FreshUuid
  <2>4. \A k \in Names : k # n => rows'[k] = rows[k]
    BY <1>1, <1>3 DEF AddRow, RowsTypeOK
  <2> QED
    BY <1>2, <2>3, <2>4 DEF Told, NothingToTell
<1>4. ASSUME NEW n \in Names, DeleteRow(n)
      PROVE  Told'
  <2>1. \A k \in Names : rows'[k] = IF k = n THEN NULL ELSE rows[k]
    BY <1>1, <1>4 DEF DeleteRow, RowsTypeOK
  <2> QED
    BY <1>2, <2>1 DEF Told, NothingToTell
<1>5. ASSUME NEW n \in Names, SetEnable(n)
      PROVE  Told'
  <2>1. /\ rows[n] \in Row
        /\ rows'[n] = [rows[n] EXCEPT !.enable = ~@]
        /\ \A k \in Names : k # n => rows'[k] = rows[k]
    BY <1>1, <1>5 DEF SetEnable, RowsTypeOK
  <2>2. rows'[n].uuid = rows[n].uuid /\ rows'[n].pm_info = rows[n].pm_info
    BY <2>1 DEF Row
  <2> QED
    BY <1>2, <1>5, <2>1, <2>2 DEF Told, NothingToTell, SetEnable
<1>6. CASE UNCHANGED rows
  BY <1>2, <1>6 DEF Told
<1> QED
  BY <1>3, <1>4, <1>5, <1>6
     DEF Database, AddSub, DeleteSub, List, GetLock, LoseLock, replica

(* Reconciliation drops ports, adds ports that have not been scanned, and  *)
(* stores requests, which are not published.                               *)
LEMMA ReconcileTold ==
  ASSUME SimInv, Told, Reconcile
  PROVE  Told'
<1>1. RowsTypeOK
  BY DEF SimInv, RowsInv
<1>2. UNCHANGED rows
  BY DEF Reconcile, NothingNew, Reconfigure, ModifyInterfaces, NewSub,
         KnownSub, SubDone, replica
<1>3. CASE NothingNew
  BY <1>2, <1>3 DEF NothingNew, tables, Told
<1>4. CASE Reconfigure
  <2>1. \A n \in Names : ovs_intfs'[n] \in {NULL, ovs_intfs[n]}
    BY <1>4 DEF Reconfigure
  <2> QED
    BY <1>2, <2>1 DEF Told, NothingToTell
<1>5. CASE ModifyInterfaces
  <2> SUFFICES ASSUME NEW n \in Names, rows[n] # NULL, ovs_intfs[n] # NULL
               PROVE  /\ Modified(n).uuid = ovs_intfs[n].uuid
                      /\ Modified(n).port.connector = ovs_intfs[n].port.connector
                      /\ Modified(n).port.module_info_changed
                           = ovs_intfs[n].port.module_info_changed
                      /\ PmInfo(Modified(n).port) = PmInfo(ovs_intfs[n].port)
    BY <1>2, <1>5 DEF ModifyInterfaces, Told, NothingToTell
  <2>1. ovs_intfs[n] \in Entry
    BY <1>1 DEF RowsTypeOK
  <2> QED
    BY <2>1 DEF Modified, Entry, Port, PmInfo
<1>6. ASSUME NEW s \in Subs, NewSub(s) \/ KnownSub(s)
      PROVE  Told'
  <2>1. \A n \in Names :
          ovs_intfs'[n] = ovs_intfs[n] \/ ovs_intfs'[n] = NewEntry(s, n)
    BY <1>1, <1>6 DEF NewSub, KnownSub, WithPorts, RowsTypeOK
  <2>2. \A n \in Names : NewEntry(s, n).port.connector = NULL
    BY DEF NewEntry, NewPort
  <2> QED
    BY <1>2, <2>1, <2>2 DEF Told, NothingToTell
<1> QED
  BY <1>3, <1>4, <1>5, <1>6 DEF Reconcile

(* A scan leaves a port as it was or flags it.                             *)
LEMMA ScanTold ==
  ASSUME SimInv, Told, Scan
  PROVE  Told'
<1> SUFFICES ASSUME NEW n \in Names, ovs_intfs[n] # NULL
             PROVE  NothingToTell(rows[n], ovs_intfs'[n])
  BY DEF Scan, replica, Told, NothingToTell
<1> DEFINE e == ovs_intfs[n]
           p == SimScanned(e)
<1>1. e \in Entry /\ (e.port.module_info_changed => e.port.connector # NULL)
  BY DEF SimInv, RowsInv, RowsTypeOK, FlaggedHasConnector
<1>2. p = e.port \/ p.module_info_changed
  BY <1>1, SimScannedSound
<1>3. ovs_intfs'[n] = [e EXCEPT !.port = p]
  BY DEF Scan
<1>4. NothingToTell(rows[n], e)
  BY DEF Told
<1> HIDE DEF e, p
<1>5. ovs_intfs'[n].uuid = e.uuid /\ ovs_intfs'[n].port = p
  BY <1>1, <1>3 DEF Entry
<1> QED
  BY <1>1, <1>2, <1>4, <1>5, NullRowAssumption DEF NothingToTell

(* Publication tells the row everything before it clears the flag.         *)
LEMMA UpdateTold ==
  ASSUME SimInv, Told, Update
  PROVE  Told'
<1> SUFFICES ASSUME NEW n \in Names
             PROVE  NothingToTell(rows'[n], ovs_intfs'[n])
  BY DEF Told
<1>1. CASE ~Writes(n)
  BY <1>1 DEF Update, Told
<1>2. CASE Writes(n)
  <2> DEFINE e == ovs_intfs[n]
             p == [e.port EXCEPT !.module_info_changed = FALSE]
  <2>1. rows[n] \in Row /\ e \in Entry
    BY <1>2 DEF Writes, SimInv, RowsInv, RowsTypeOK
  <2>2. /\ rows'[n] = [rows[n] EXCEPT !.pm_info = PmInfo(e.port)]
        /\ ovs_intfs'[n] = [e EXCEPT !.port = p]
    BY <1>2, <2>1 DEF Update, Entry
  <2>3. PmInfo(p) = PmInfo(e.port)
    BY <2>1 DEF Entry, Port, PmInfo
  <2> HIDE DEF e, p
  <2>4. rows'[n].pm_info = PmInfo(p) /\ ovs_intfs'[n].port = p
    BY <2>1, <2>2, <2>3 DEF Row, Entry
  <2> QED
    BY <2>4 DEF NothingToTell
<1> QED
  BY <1>1, <1>2

(* A command exchanges a module and leaves port and row alone.             *)
LEMMA SetModuleTold ==
  ASSUME SimInv, Told, NEW n \in Names, NEW m, SetModule(n, m),
         ovs_intfs[n] # NULL
  PROVE  Told'
<1>1. ovs_intfs[n] \in Entry /\ RowsTypeOK
  BY DEF SimInv, RowsInv, RowsTypeOK
<1>2. /\ ovs_intfs'[n] = [ovs_intfs[n] EXCEPT !.module_data = m]
      /\ \A k \in Names : k # n => ovs_intfs'[k] = ovs_intfs[k]
      /\ UNCHANGED rows
  BY <1>1 DEF SetModule, RowsTypeOK, replica
<1>3. /\ ovs_intfs'[n].uuid = ovs_intfs[n].uuid
      /\ ovs_intfs'[n].port = ovs_intfs[n].port
  BY <1>1, <1>2 DEF Entry
<1>4. NothingToTell(rows[n], ovs_intfs'[n])
  <2>1. NothingToTell(rows[n], ovs_intfs[n])
    BY DEF Told
  <2> QED
    BY <1>3, <2>1, Zenon DEF NothingToTell
<1>5. \A k \in Names : NothingToTell(rows'[k], ovs_intfs'[k])
  BY <1>2, <1>4, Zenon DEF Told
<1> QED
  BY <1>5 DEF Told

(* NothingOwed: in a pass a port without the flag has nothing to tell the  *)
(* row that has its name, whatever rows were deleted and added, modules    *)
(* exchanged and processes restarted before.                               *)
THEOREM NothingOwed == Spec => []UnflaggedIsPublished
<1>1. Init => Told
  BY DEF Init, RowsInit, NoPorts, Told, NothingToTell
<1>2. SimInv /\ Told /\ [Next]_vars => Told'
  <2> SUFFICES ASSUME SimInv, Told, [Next]_vars PROVE Told'
    OBVIOUS
  <2>1. CASE Database \/ Reconcile \/ Scan \/ Update
    BY <2>1, DatabaseTold, ReconcileTold, ScanTold, UpdateTold
  <2>2. CASE UNCHANGED <<rows, ovs_intfs>>
    BY <2>2 DEF Told
  <2>3. CASE Stop
    BY <2>3 DEF Stop, NoPorts, Told, NothingToTell
  <2>4. CASE SimInsert \/ SimRemove
    <3>1. /\ client.op = "insert" => client.name \in Names
          /\ client.op = "remove" => client.name \in Names
      BY CommandArguments DEF SimInv
    <3> QED
      BY <2>2, <2>4, <3>1, SetModuleTold
         DEF SimInsert, SimRemove, Handling, row_vars
  <2> QED
    BY <2>1, <2>2, <2>3, <2>4
       DEF Next, Start, Pass, Request, Serve, SimMalformed, Dump, Exit,
           Crash, Hangup, vars, row_vars, replica, tables
<1>3. SimInv /\ Told => UnflaggedIsPublished
  BY RowsPromises
     DEF SimInv, Told, NothingToTell, TablesMatchRows, UnflaggedIsPublished
<1> QED
  BY <1>1, <1>2, <1>3, SimInvariant, PTL DEF Spec

=============================================================================
