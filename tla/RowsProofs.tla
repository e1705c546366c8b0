----------------------------- MODULE RowsProofs -----------------------------
(***************************************************************************)
(* What reconciliation promises to the rest of a pass, for any number of   *)
(* interfaces and subsystems, any hardware description and any history of  *)
(* the rows.                                                               *)
(*                                                                         *)
(* The promises are about a pass, and are made before it: RowsInv states   *)
(* them for every point from which a pass can be reached without another   *)
(* pmd_reconfigure, which includes the main loop as long as the replica    *)
(* has not changed, and for the subsystems that pmd_reconfigure has dealt  *)
(* with so far.                                                            *)
(***************************************************************************)
EXTENDS Rows, PmPortProofs

(* Nothing in the replica is news to the process.                          *)
UpToDate == InPass \/ (pc = "run" /\ ~changed)

(* ... or it is being reconciled with.                                     *)
Reconciled == UpToDate \/ pc \in {"subs", "modify"}

PortsMatch ==
  \A n \in Names : ovs_intfs[n] # NULL =>
    rows[n] # NULL /\ rows[n].uuid = ovs_intfs[n].uuid

SubsMatch ==
  \A s \in Subs : ovs_subs[s] # NULL =>
    subs[s] # NULL /\ subs[s].uuid = ovs_subs[s]

Served(s) ==
  yaml[s].rc = 0 =>
    \A n \in subs[s].interfaces \cap HwDesc[s] : ovs_intfs[n] # NULL

(* The files of a subsystem that were read to their end say what they say. *)
YamlSound == \A s \in Subs : yaml[s].rc = 0 => yaml[s].ports = HwDesc[s]

(* The subsystems that are still to be processed.                          *)
TodoSound == todo \subseteq LiveSubs /\ (todo # {} => pc = "subs")

(* pm_configure_port has been given what is on record.                     *)
Configured ==
  \A n \in Names : ovs_intfs[n] # NULL =>
    ovs_intfs[n].configured = ovs_intfs[n].port.hw_enable

(* ... and what is on record is what the row asks for.                     *)
Requested ==
  \A n \in Names : ovs_intfs[n] # NULL =>
    ovs_intfs[n].port.hw_enable = rows[n].enable

RowsInv ==
  /\ RowsTypeOK
  /\ YamlSound /\ TodoSound /\ Configured
  /\ Reconciled => /\ PortsMatch /\ SubsMatch
                   /\ \A s \in LiveSubs \ todo : Served(s)
  /\ UpToDate => Requested

(***************************************************************************)
(* Uuids.                                                                  *)
(***************************************************************************)
(* There is a uuid for a new row that no entry of a table holds.           *)
LEMMA FreshUuid ==
  ASSUME NEW name, NEW entry
  PROVE  /\ Fresh(name, entry) \in Uuids({name})
         /\ entry # NULL => Fresh(name, entry) # entry
<1>1. /\ <<name, 1>> \in Uuids({name})
      /\ <<name, 2>> \in Uuids({name})
      /\ <<name, 1>> # <<name, 2>>
  BY DEF Uuids
<1>2. \E uuid \in Uuids({name}) : entry = NULL \/ entry # uuid
  BY <1>1, Zenon
<1> QED
  BY <1>2, Zenon DEF Fresh

(* A uuid belongs to one name.                                             *)
LEMMA UuidOfOneName ==
  ASSUME NEW names, NEW n \in names
  PROVE  /\ Uuids({n}) \subseteq Uuids(names)
         /\ \A m \in names : \A uuid \in Uuids({n}) :
              uuid \in Uuids({m}) => m = n
  BY DEF Uuids

(***************************************************************************)
(* The database.                                                           *)
(***************************************************************************)
(* The invariant holds before the process runs.                            *)
LEMMA RowsInvInit == RowsInit => RowsInv
<1> SUFFICES ASSUME RowsInit PROVE RowsInv
  OBVIOUS
<1>1. RowsTypeOK
  BY DEF RowsInit, RowsTypeOK, NoPorts, NoSubs, NoYaml
<1>2. YamlSound /\ TodoSound /\ Configured
  BY DEF RowsInit, YamlSound, TodoSound, Configured, NoPorts, NoYaml
<1>3. ~Reconciled /\ ~UpToDate
  BY DEF RowsInit, Reconciled, UpToDate, InPass
<1> QED
  BY <1>1, <1>2, <1>3 DEF RowsInv

(* A change of the replica puts the promises off until it is noted.        *)
LEMMA ReplicateStep ==
  ASSUME RowsInv, RowsTypeOK', Replicate
  PROVE  RowsInv'
<1>1. /\ pc = "run" /\ pc' = "run" /\ changed'
      /\ UNCHANGED <<todo, ovs_intfs, yaml>>
  BY DEF Replicate, tables
<1>2. YamlSound' /\ Configured'
  BY <1>1 DEF RowsInv, YamlSound, Configured
<1>3. TodoSound'
  BY <1>1 DEF RowsInv, TodoSound
<1>4. ~Reconciled' /\ ~UpToDate'
  BY <1>1 DEF Reconciled, UpToDate, InPass
<1> QED
  BY <1>2, <1>3, <1>4 DEF RowsInv

(* The steps that write interface rows keep the types.                     *)
LEMMA RowWritesType ==
  ASSUME RowsInv, NEW n \in Names,
         \/ \E enable \in BOOLEAN : AddRow(n, enable)
         \/ DeleteRow(n)
         \/ SetEnable(n)
  PROVE  RowsTypeOK'
<1> USE DEF RowsInv
<1>1. /\ pc = "run" /\ changed' = TRUE
      /\ UNCHANGED <<has_lock, pc, todo, ovs_intfs, ovs_subs, yaml>>
  BY DEF AddRow, DeleteRow, SetEnable, Replicate, tables
<1>2. ASSUME NEW new \in Row, rows' = [rows EXCEPT ![n] = new], subs' = subs,
             new.uuid \in Uuids({n})
      PROVE  RowsTypeOK'
  <2>1. /\ rows' \in [Names -> Row \cup {NULL}]
        /\ rows'[n] = new /\ new # NULL
        /\ \A m \in Names : m # n => rows'[m] = rows[m]
    BY <1>2, NullRowAssumption DEF RowsTypeOK
  <2>2. \A m \in Names : rows'[m] # NULL => rows'[m].uuid \in Uuids({m})
    BY <1>2, <2>1 DEF RowsTypeOK
  <2>3. \A s \in Subs : subs[s] # NULL => subs[s].interfaces \subseteq Names
    BY DEF RowsTypeOK, SubRow
  <2>4. \A s \in Subs : subs[s] # NULL =>
          \A m \in subs[s].interfaces : rows'[m] # NULL
    BY <2>1, <2>3 DEF RowsTypeOK
  <2> QED
    BY <1>1, <1>2, <2>1, <2>2, <2>4 DEF RowsTypeOK
<1>3. ASSUME NEW enable \in BOOLEAN, AddRow(n, enable)
      PROVE  RowsTypeOK'
  <2> DEFINE new == [uuid |-> Fresh(n, PortUuid(n)), enable |-> enable,
                     pm_info |-> NULL]
  <2>1. new \in Row /\ new.uuid \in Uuids({n})
    <3>1. Fresh(n, PortUuid(n)) \in Uuids({n})
      BY FreshUuid
    <3>2. Fresh(n, PortUuid(n)) \in Uuids(Names)
      BY <3>1, UuidOfOneName
    <3> QED
      BY <3>1, <3>2 DEF Row
  <2>2. rows' = [rows EXCEPT ![n] = new] /\ subs' = subs
    BY <1>3 DEF AddRow
  <2> HIDE DEF new
  <2> QED
    BY <1>2, <2>1, <2>2
<1>4. CASE SetEnable(n)
  <2> DEFINE new == [rows[n] EXCEPT !.enable = ~@]
  <2>1. rows[n] # NULL /\ rows' = [rows EXCEPT ![n] = new] /\ subs' = subs
    BY <1>4 DEF SetEnable
  <2>2. new \in Row /\ new.uuid \in Uuids({n})
    <3>1. rows[n] \in Row /\ rows[n].uuid \in Uuids({n})
      BY <2>1 DEF RowsTypeOK
    <3> QED
      BY <3>1 DEF Row
  <2> HIDE DEF new
  <2> QED
    BY <1>2, <2>1, <2>2
<1>5. CASE DeleteRow(n)
  <2>1. /\ rows' = [rows EXCEPT ![n] = NULL]
        /\ subs' = [s \in Subs |->
                      IF subs[s] = NULL THEN NULL
                      ELSE [subs[s] EXCEPT !.interfaces = @ \ {n}]]
    BY <1>5 DEF DeleteRow
  <2>2. \A s \in Subs : subs[s] # NULL =>
          LET sub == [subs[s] EXCEPT !.interfaces = @ \ {n}]
          IN  /\ sub \in SubRow
              /\ sub.uuid = subs[s].uuid
              /\ sub.interfaces = subs[s].interfaces \ {n}
    BY DEF RowsTypeOK, SubRow
  <2>3. /\ rows' \in [Names -> Row \cup {NULL}]
        /\ subs' \in [Subs -> SubRow \cup {NULL}]
    BY <2>1, <2>2 DEF RowsTypeOK
  <2>4. \A m \in Names : rows'[m] # NULL => m # n /\ rows'[m] = rows[m]
    BY <2>1 DEF RowsTypeOK
  <2>5. \A s \in Subs : subs'[s] # NULL =>
          /\ subs'[s].uuid \in Uuids({s})
          /\ \A m \in subs'[s].interfaces : rows'[m] # NULL
    BY SMTT(30), <2>1, <2>2 DEF RowsTypeOK
  <2> QED
    BY <1>1, <2>3, <2>4, <2>5 DEF RowsTypeOK
<1> QED
  BY <1>3, <1>4, <1>5

(* The steps that write subsystem rows keep the types.                     *)
LEMMA SubWritesType ==
  ASSUME RowsInv, NEW s \in Subs,
         \/ AddSub(s)
         \/ DeleteSub(s)
         \/ \E n \in Names : List(s, n)
  PROVE  RowsTypeOK'
<1> USE DEF RowsInv
<1>1. /\ pc = "run" /\ changed' = TRUE /\ rows' = rows
      /\ UNCHANGED <<has_lock, pc, todo, ovs_intfs, ovs_subs, yaml>>
  BY DEF AddSub, DeleteSub, List, Replicate, tables
<1>2. ASSUME NEW new \in SubRow \cup {NULL}, subs' = [subs EXCEPT ![s] = new],
             new # NULL => /\ new.uuid \in Uuids({s})
                           /\ \A n \in new.interfaces : rows[n] # NULL
      PROVE  RowsTypeOK'
  BY <1>1, <1>2 DEF RowsTypeOK
<1>3. CASE AddSub(s)
  <2> DEFINE new == [uuid |-> Fresh(s, ovs_subs[s]), interfaces |-> {}]
  <2>1. new \in SubRow /\ new.uuid \in Uuids({s}) /\ new.interfaces = {}
    BY FreshUuid, UuidOfOneName DEF SubRow
  <2>2. subs' = [subs EXCEPT ![s] = new]
    BY <1>3 DEF AddSub
  <2> HIDE DEF new
  <2> QED
    BY <1>2, <2>1, <2>2
<1>4. CASE DeleteSub(s)
  BY <1>2, <1>4 DEF DeleteSub
<1>5. CASE \E n \in Names : List(s, n)
  <2>1. PICK n \in Names : List(s, n)
    BY <1>5
  <2> DEFINE listed == subs[s].interfaces
             new == [subs[s] EXCEPT !.interfaces =
                       IF n \in @ THEN @ \ {n} ELSE @ \cup {n}]
  <2>2. subs[s] # NULL /\ rows[n] # NULL /\ subs' = [subs EXCEPT ![s] = new]
    BY <2>1 DEF List
  <2>3. /\ new \in SubRow /\ new.uuid = subs[s].uuid
        /\ new.interfaces \subseteq listed \cup {n}
    BY <2>2 DEF RowsTypeOK, SubRow
  <2>4. /\ new.uuid \in Uuids({s})
        /\ \A m \in new.interfaces : rows[m] # NULL
    BY <2>2, <2>3 DEF RowsTypeOK
  <2> HIDE DEF new
  <2> QED
    BY <1>2, <2>2, <2>3, <2>4
<1> QED
  BY <1>3, <1>4, <1>5

(* The database and its lock.                                              *)
LEMMA DatabaseStep ==
  ASSUME RowsInv, Database
  PROVE  RowsInv'
<1>1. CASE GetLock \/ LoseLock
  <2>1. /\ UNCHANGED <<rows, subs, changed, pc, todo, ovs_intfs, ovs_subs, yaml>>
        /\ has_lock' \in BOOLEAN
    BY <1>1 DEF GetLock, LoseLock, replica, tables
  <2> QED
    BY ZenonT(30), <2>1 DEF RowsInv, RowsTypeOK, YamlSound, TodoSound, Configured,
                PortsMatch, SubsMatch, Served, Requested, Reconciled,
                UpToDate, InPass, LiveSubs
<1>2. CASE \E n \in Names : \/ \E enable \in BOOLEAN : AddRow(n, enable)
                            \/ DeleteRow(n) \/ SetEnable(n)
  BY <1>2, RowWritesType, ReplicateStep DEF AddRow, DeleteRow, SetEnable
<1>3. CASE \E s \in Subs : \/ AddSub(s) \/ DeleteSub(s)
                           \/ \E n \in Names : List(s, n)
  BY <1>3, SubWritesType, ReplicateStep DEF AddSub, DeleteSub, List
<1> QED
  BY <1>1, <1>2, <1>3 DEF Database

(***************************************************************************)
(* The process.                                                            *)
(***************************************************************************)
(* A process that starts has everything to learn.                          *)
LEMMA StartStep ==
  ASSUME RowsInv, Start
  PROVE  RowsInv'
<1>1. /\ pc = "down" /\ pc' = "run" /\ changed' = TRUE
      /\ UNCHANGED <<rows, subs, has_lock, todo, ovs_intfs, ovs_subs, yaml>>
  BY DEF Start, replica, tables
<1>2. RowsTypeOK'
  BY <1>1 DEF RowsInv, RowsTypeOK
<1>3. YamlSound' /\ Configured' /\ TodoSound'
  BY <1>1 DEF RowsInv, YamlSound, Configured, TodoSound, LiveSubs
<1>4. ~Reconciled' /\ ~UpToDate'
  BY <1>1 DEF Reconciled, UpToDate, InPass
<1> QED
  BY <1>2, <1>3, <1>4 DEF RowsInv

(* The tables go with the process.                                         *)
LEMMA StopStep ==
  ASSUME RowsInv, Stop
  PROVE  RowsInv'
<1>1. /\ pc' = "down" /\ has_lock' = FALSE /\ todo' = {}
      /\ ovs_intfs' = NoPorts /\ ovs_subs' = NoSubs /\ yaml' = NoYaml
      /\ UNCHANGED <<rows, subs, changed>>
  BY DEF Stop, replica
<1>2. RowsTypeOK'
  BY <1>1 DEF RowsInv, RowsTypeOK, NoPorts, NoSubs, NoYaml
<1>3. YamlSound' /\ Configured' /\ TodoSound'
  BY <1>1 DEF YamlSound, Configured, TodoSound, NoPorts, NoYaml
<1>4. ~Reconciled' /\ ~UpToDate'
  BY <1>1 DEF Reconciled, UpToDate, InPass
<1> QED
  BY <1>2, <1>3, <1>4 DEF RowsInv

(* pmd_run goes straight to the scan, or comes back from it.               *)
LEMMA NothingNewStep ==
  ASSUME RowsInv, NothingNew \/ RestOfPass
  PROVE  RowsInv'
<1>1. /\ UNCHANGED <<rows, subs, has_lock, changed, todo, ovs_intfs, ovs_subs,
                     yaml>>
      /\ UpToDate /\ pc # "subs" /\ pc' \in {"run", "scan"}
  BY DEF NothingNew, RestOfPass, replica, tables, UpToDate, InPass
<1>2. RowsTypeOK'
  BY <1>1 DEF RowsInv, RowsTypeOK
<1>3. YamlSound' /\ Configured' /\ TodoSound'
  BY <1>1 DEF RowsInv, YamlSound, Configured, TodoSound, LiveSubs
<1>4. PortsMatch' /\ SubsMatch' /\ Requested'
  BY <1>1 DEF RowsInv, Reconciled, PortsMatch, SubsMatch, Requested
<1>5. (\A s \in LiveSubs \ todo : Served(s))'
  BY <1>1 DEF RowsInv, Reconciled, LiveSubs, Served
<1> QED
  BY <1>2, <1>3, <1>4, <1>5 DEF RowsInv

(* The first part of pmd_reconfigure: a port that stays has its row, since *)
(* a uuid lives only under the name it was made for.                       *)
LEMMA ReconfigureStep ==
  ASSUME RowsInv, Reconfigure
  PROVE  RowsInv'
<1> USE DEF RowsInv
<1>1. /\ changed' = FALSE /\ todo' = LiveSubs
      /\ pc' = IF LiveSubs = {} THEN "modify" ELSE "subs"
      /\ UNCHANGED <<rows, subs, has_lock, yaml>>
      /\ ovs_intfs' = [n \in Names |-> IF Dropped(n) THEN NULL ELSE ovs_intfs[n]]
      /\ ovs_subs' = [s \in Subs |->
                        IF ovs_subs[s] # NULL /\ ~SubLives(ovs_subs[s])
                        THEN NULL ELSE ovs_subs[s]]
  BY DEF Reconfigure, replica
<1>2. \A n \in Names : ovs_intfs'[n] # NULL =>
        /\ ovs_intfs'[n] = ovs_intfs[n]
        /\ RowLives(ovs_intfs[n].uuid)
  BY <1>1 DEF Dropped
<1>3. \A s \in Subs : ovs_subs'[s] # NULL =>
        /\ ovs_subs'[s] = ovs_subs[s]
        /\ SubLives(ovs_subs[s])
  BY <1>1
<1>4. RowsTypeOK'
  <2>1. ovs_intfs' \in [Names -> Entry \cup {NULL}]
    BY <1>1 DEF RowsTypeOK
  <2>2. ovs_subs' \in [Subs -> Uuids(Subs) \cup {NULL}]
    BY <1>1 DEF RowsTypeOK
  <2>3. LiveSubs \subseteq Subs
    BY DEF LiveSubs
  <2> QED
    BY <1>1, <1>2, <1>3, <2>1, <2>2, <2>3 DEF RowsTypeOK
<1>5. YamlSound' /\ Configured' /\ TodoSound'
  BY <1>1, <1>2 DEF YamlSound, Configured, TodoSound, LiveSubs
<1>6. PortsMatch'
  <2> SUFFICES ASSUME NEW n \in Names, ovs_intfs'[n] # NULL
               PROVE  rows[n] # NULL /\ rows[n].uuid = ovs_intfs[n].uuid
    BY <1>1, <1>2 DEF PortsMatch
  <2>1. PICK m \in Names : rows[m] # NULL /\ rows[m].uuid = ovs_intfs[n].uuid
    BY <1>2 DEF RowLives
  <2>2. rows[m].uuid \in Uuids({m}) /\ ovs_intfs[n].uuid \in Uuids({n})
    BY <1>2, <2>1 DEF RowsTypeOK
  <2> QED
    BY <2>1, <2>2, UuidOfOneName
<1>7. SubsMatch'
  <2> SUFFICES ASSUME NEW s \in Subs, ovs_subs'[s] # NULL
               PROVE  subs[s] # NULL /\ subs[s].uuid = ovs_subs[s]
    BY <1>1, <1>3 DEF SubsMatch
  <2>1. PICK r \in Subs : subs[r] # NULL /\ subs[r].uuid = ovs_subs[s]
    BY <1>3 DEF SubLives
  <2>2. subs[r].uuid \in Uuids({r}) /\ ovs_subs[s] \in Uuids({s})
    BY <1>3, <2>1 DEF RowsTypeOK
  <2> QED
    BY <2>1, <2>2, UuidOfOneName
<1>8. (LiveSubs \ todo)' = {} /\ ~UpToDate'
  BY <1>1 DEF LiveSubs, UpToDate, InPass
<1> QED
  BY <1>4, <1>5, <1>6, <1>7, <1>8

(***************************************************************************)
(* ovsdb_if_subsys_process.                                                *)
(***************************************************************************)
(* A new port takes its uuid and its request from the row.                 *)
LEMMA NewEntryType ==
  ASSUME RowsTypeOK, NEW s \in Subs, NEW n \in Names, rows[n] # NULL
  PROVE  LET e == NewEntry(s, n)
         IN  /\ e \in Entry /\ e # NULL
             /\ e.uuid = rows[n].uuid
             /\ e.configured = e.port.hw_enable
<1>1. rows[n] \in Row
  BY DEF RowsTypeOK
<1>2. rows[n].uuid \in Uuids(Names) /\ rows[n].enable \in BOOLEAN
  BY <1>1 DEF Row
<1>3. /\ NewPort(rows[n].enable) \in Port
      /\ NewPort(rows[n].enable).hw_enable = rows[n].enable
  BY <1>2, NewPortType DEF NewPort
<1>4. NewEntry(s, n) \in Entry
  BY <1>2, <1>3 DEF NewEntry, Entry
<1> QED
  BY <1>3, <1>4, NullRowAssumption DEF NewEntry

(* Ports are added for the listed interfaces that are known, and no other  *)
(* entry is touched.                                                       *)
LEMMA WithPortsSound ==
  ASSUME RowsTypeOK, NEW s \in LiveSubs, NEW known,
         NEW table, table = WithPorts(s, known)
  PROVE  /\ table \in [Names -> Entry \cup {NULL}]
         /\ \A n \in Names : ovs_intfs[n] # NULL => table[n] = ovs_intfs[n]
         /\ \A n \in subs[s].interfaces \cap known : table[n] # NULL
         /\ \A n \in Names : table[n] # NULL =>
              \/ table[n] = ovs_intfs[n]
              \/ /\ rows[n] # NULL
                 /\ table[n].uuid = rows[n].uuid
                 /\ table[n].configured = table[n].port.hw_enable
<1>1. /\ s \in Subs /\ subs[s] # NULL
      /\ subs[s].interfaces \subseteq Names
      /\ \A n \in subs[s].interfaces : rows[n] # NULL
  BY DEF LiveSubs, RowsTypeOK, SubRow
<1>2. \A n \in subs[s].interfaces :
        /\ NewEntry(s, n) \in Entry /\ NewEntry(s, n) # NULL
        /\ NewEntry(s, n).uuid = rows[n].uuid
        /\ NewEntry(s, n).configured = NewEntry(s, n).port.hw_enable
  BY <1>1, NewEntryType
<1>3. \A n \in Names :
        table[n] = IF n \in subs[s].interfaces \cap known /\ ovs_intfs[n] = NULL
                   THEN NewEntry(s, n) ELSE ovs_intfs[n]
  BY DEF WithPorts, HasYamlPort
<1>4. table \in [Names -> Entry \cup {NULL}]
  BY <1>2 DEF WithPorts, HasYamlPort, RowsTypeOK
<1> QED
  BY <1>1, <1>2, <1>3, <1>4

(* One subsystem is done: what is left to be shown of its tables.          *)
LEMMA SubDoneStep ==
  ASSUME RowsInv, NEW s \in Subs, SubDone(s),
         ovs_subs' \in [Subs -> Uuids(Subs) \cup {NULL}],
         \A r \in Subs : ovs_subs'[r] # NULL =>
           ovs_subs'[r] = ovs_subs[r] \/ (r = s /\ ovs_subs'[r] = subs[r].uuid),
         yaml' \in [Subs -> [rc : {0, 1}, ports : SUBSET Names]],
         \A r \in Subs \ {s} : yaml'[r] = yaml[r],
         yaml'[s].rc = 0 => yaml'[s].ports = HwDesc[s],
         \/ yaml'[s].rc = 1 /\ ovs_intfs' = ovs_intfs
         \/ ovs_intfs' = WithPorts(s, yaml'[s].ports)
  PROVE  RowsInv'
<1> USE DEF RowsInv
<1>1. /\ pc = "subs" /\ s \in todo /\ todo' = todo \ {s}
      /\ pc' = IF todo' = {} THEN "modify" ELSE "subs"
      /\ UNCHANGED <<rows, subs, has_lock, changed>>
      /\ s \in LiveSubs
  BY DEF SubDone, replica, TodoSound
<1>2. Reconciled /\ PortsMatch /\ SubsMatch
  BY <1>1 DEF Reconciled
<1>3. /\ ovs_intfs' \in [Names -> Entry \cup {NULL}]
      /\ \A n \in Names : ovs_intfs[n] # NULL => ovs_intfs'[n] = ovs_intfs[n]
      /\ \A n \in Names : ovs_intfs'[n] # NULL =>
           \/ ovs_intfs'[n] = ovs_intfs[n]
           \/ /\ rows[n] # NULL
              /\ ovs_intfs'[n].uuid = rows[n].uuid
              /\ ovs_intfs'[n].configured = ovs_intfs'[n].port.hw_enable
  <2>1. CASE ovs_intfs' = ovs_intfs
    BY <2>1 DEF RowsTypeOK
  <2>2. CASE ovs_intfs' = WithPorts(s, yaml'[s].ports)
    BY <1>1, <2>2, WithPortsSound
  <2> QED
    BY <2>1, <2>2
<1>4. PortsMatch'
  BY <1>1, <1>2, <1>3 DEF PortsMatch
<1>5. SubsMatch'
  BY <1>1, <1>2 DEF SubsMatch, LiveSubs
<1>6. Configured'
  BY <1>3 DEF Configured
<1>7. RowsTypeOK'
  <2>1. \A n \in Names : ovs_intfs'[n] # NULL =>
          ovs_intfs'[n].uuid \in Uuids({n})
    BY <1>3 DEF RowsTypeOK
  <2>2. \A r \in Subs : ovs_subs'[r] # NULL => ovs_subs'[r] \in Uuids({r})
    BY <1>1, <1>5 DEF SubsMatch, RowsTypeOK
  <2> QED
    BY <1>1, <1>3, <2>1, <2>2 DEF RowsTypeOK
<1>8. YamlSound' /\ TodoSound'
  BY <1>1 DEF YamlSound, TodoSound, LiveSubs
<1>9. (\A r \in LiveSubs \ todo : Served(r))'
  <2> SUFFICES ASSUME NEW r \in LiveSubs, r \notin todo \/ r = s,
                      yaml'[r].rc = 0,
                      NEW n \in subs[r].interfaces \cap HwDesc[r]
               PROVE  ovs_intfs'[n] # NULL
    BY <1>1 DEF LiveSubs, Served
  <2>1. CASE r = s
    <3>1. ovs_intfs' = WithPorts(s, HwDesc[s])
      BY <2>1
    <3> QED
      BY <1>1, <2>1, <3>1, WithPortsSound
  <2>2. CASE r # s
    <3>1. r \in Subs /\ yaml[r].rc = 0 /\ n \in Names
      BY <2>2 DEF LiveSubs, RowsTypeOK, SubRow
    <3>2. ovs_intfs[n] # NULL
      BY <1>2, <2>2, <3>1 DEF Served
    <3> QED
      BY <1>3, <3>1, <3>2
  <2> QED
    BY <2>1, <2>2
<1>10. ~UpToDate'
  BY <1>1 DEF UpToDate, InPass
<1> QED
  BY <1>4, <1>5, <1>6, <1>7, <1>8, <1>9, <1>10

(* A subsystem that was not known, with files that may not be readable.    *)
LEMMA NewSubStep ==
  ASSUME RowsInv, NEW s \in Subs, NewSub(s)
  PROVE  RowsInv'
<1>1. /\ SubDone(s)
      /\ ovs_subs' = [ovs_subs EXCEPT ![s] = subs[s].uuid]
  BY DEF NewSub
<1>2. PICK read \in YamlOutcomes(s) :
        /\ yaml' = [yaml EXCEPT ![s] = read]
        /\ ovs_intfs' = IF read.rc = 0 THEN WithPorts(s, read.ports)
                                       ELSE ovs_intfs
  BY DEF NewSub
<1>3. subs[s].uuid \in Uuids(Subs)
  BY <1>1 DEF SubDone, RowsInv, TodoSound, LiveSubs, RowsTypeOK, SubRow
<1>4. ovs_subs' \in [Subs -> Uuids(Subs) \cup {NULL}]
  BY <1>1, <1>3 DEF RowsInv, RowsTypeOK
<1>5. \A r \in Subs : ovs_subs'[r] # NULL =>
        ovs_subs'[r] = ovs_subs[r] \/ (r = s /\ ovs_subs'[r] = subs[r].uuid)
  BY <1>1 DEF RowsInv, RowsTypeOK
<1>6. /\ read \in [rc : {0, 1}, ports : SUBSET Names]
      /\ read.rc = 0 => read.ports = HwDesc[s]
  <2>1. HwDesc[s] \subseteq Names
    BY RowsAssumption
  <2>2. yaml[s].ports \subseteq Names
    BY DEF RowsInv, RowsTypeOK
  <2>3. \A parsed \in SUBSET HwDesc[s] :
          yaml[s].ports \cup parsed \in SUBSET Names
    BY <2>1, <2>2
  <2> QED
    BY <2>1, <2>3 DEF YamlOutcomes, If
<1>7. /\ yaml' \in [Subs -> [rc : {0, 1}, ports : SUBSET Names]]
      /\ yaml'[s] = read
      /\ \A r \in Subs \ {s} : yaml'[r] = yaml[r]
  BY <1>2, <1>6 DEF RowsInv, RowsTypeOK
<1>8. \/ yaml'[s].rc = 1 /\ ovs_intfs' = ovs_intfs
      \/ ovs_intfs' = WithPorts(s, yaml'[s].ports)
  <2>1. read.rc \in {0, 1}
    BY <1>6
  <2> QED
    BY <1>2, <1>7, <2>1
<1> QED
  BY <1>1, <1>4, <1>5, <1>6, <1>7, <1>8, SubDoneStep

(* A subsystem that was known: interfaces may have been listed since.      *)
LEMMA KnownSubStep ==
  ASSUME RowsInv, NEW s \in Subs, KnownSub(s)
  PROVE  RowsInv'
<1>1. /\ SubDone(s)
      /\ ovs_intfs' = WithPorts(s, yaml[s].ports)
      /\ UNCHANGED <<ovs_subs, yaml>>
  BY DEF KnownSub
<1> QED
  BY <1>1, SubDoneStep DEF RowsInv, RowsTypeOK, YamlSound

(***************************************************************************)
(* ovsdb_if_intf_modify and the whole.                                     *)
(***************************************************************************)
(* An entry after ovsdb_if_intf_modify.                                    *)
LEMMA ModifiedSound ==
  ASSUME RowsTypeOK, Configured, NEW n \in Names, rows[n] # NULL,
         ovs_intfs[n] # NULL
  PROVE  /\ Modified(n) \in Entry
         /\ Modified(n).uuid = ovs_intfs[n].uuid
         /\ Modified(n).port.hw_enable = rows[n].enable
         /\ Modified(n).configured = rows[n].enable
<1>1. /\ ovs_intfs[n] \in Entry
      /\ ovs_intfs[n].configured = ovs_intfs[n].port.hw_enable
  BY DEF RowsTypeOK, Configured
<1>2. rows[n].enable \in BOOLEAN
  BY DEF RowsTypeOK, Row
<1>3. CASE ovs_intfs[n].port.hw_enable = rows[n].enable
  BY <1>1, <1>3 DEF Modified
<1>4. CASE ovs_intfs[n].port.hw_enable # rows[n].enable
  <2> DEFINE p == [ovs_intfs[n].port EXCEPT !.hw_enable = rows[n].enable]
  <2>1. p \in Port /\ p.hw_enable = rows[n].enable
    BY <1>1, <1>2 DEF Entry, Port
  <2>2. Modified(n) = [ovs_intfs[n] EXCEPT !.port = p,
                                           !.configured = rows[n].enable]
    BY <1>1, <1>4 DEF Modified, Entry
  <2> HIDE DEF p
  <2> QED
    BY <1>1, <1>2, <2>1, <2>2 DEF Entry
<1> QED
  BY <1>3, <1>4

(* The last loop of pmd_reconfigure.                                       *)
LEMMA ModifyStep ==
  ASSUME RowsInv, ModifyInterfaces
  PROVE  RowsInv'
<1> USE DEF RowsInv
<1>1. /\ pc = "modify" /\ pc' = "scan"
      /\ ovs_intfs' = [n \in Names |->
                         IF rows[n] # NULL /\ ovs_intfs[n] # NULL
                         THEN Modified(n) ELSE ovs_intfs[n]]
      /\ UNCHANGED <<rows, subs, has_lock, changed, todo, ovs_subs, yaml>>
  BY DEF ModifyInterfaces, replica
<1>2. Reconciled /\ PortsMatch /\ SubsMatch /\ todo = {}
  BY <1>1 DEF Reconciled, TodoSound
<1>3. \A n \in Names :
        IF ovs_intfs[n] = NULL
        THEN ovs_intfs'[n] = NULL
        ELSE /\ ovs_intfs'[n] \in Entry
             /\ ovs_intfs'[n] # NULL
             /\ ovs_intfs'[n].uuid = ovs_intfs[n].uuid
             /\ ovs_intfs'[n].port.hw_enable = rows[n].enable
             /\ ovs_intfs'[n].configured = rows[n].enable
  BY <1>1, <1>2, ModifiedSound, NullRowAssumption DEF PortsMatch
<1>4. RowsTypeOK'
  <2>1. ovs_intfs' \in [Names -> Entry \cup {NULL}]
    BY <1>1, <1>3
  <2>2. \A n \in Names : ovs_intfs'[n] # NULL =>
          ovs_intfs'[n].uuid \in Uuids({n})
    BY <1>3 DEF RowsTypeOK
  <2> QED
    BY <1>1, <2>1, <2>2 DEF RowsTypeOK
<1>5. YamlSound' /\ TodoSound'
  BY <1>1, <1>2 DEF YamlSound, TodoSound, LiveSubs
<1>6. Configured' /\ Requested'
  BY <1>1, <1>3 DEF Configured, Requested
<1>7. PortsMatch' /\ SubsMatch'
  BY <1>1, <1>2, <1>3 DEF PortsMatch, SubsMatch
<1>8. (\A s \in LiveSubs \ todo : Served(s))'
  <2>1. \A s \in LiveSubs : s \in Subs /\ subs[s].interfaces \subseteq Names
    BY DEF LiveSubs, RowsTypeOK, SubRow
  <2> QED
    BY <1>1, <1>2, <1>3, <2>1 DEF LiveSubs, Served
<1> QED
  BY <1>4, <1>5, <1>6, <1>7, <1>8

(* Reconciliation keeps the invariant.                                     *)
LEMMA ReconcileStep ==
  ASSUME RowsInv, Reconcile
  PROVE  RowsInv'
  BY NothingNewStep, ReconfigureStep, NewSubStep, KnownSubStep, ModifyStep
     DEF Reconcile

(* A step that changes nothing keeps it.                                   *)
LEMMA RowsStutter ==
  ASSUME RowsInv, UNCHANGED row_vars
  PROVE  RowsInv'
  BY ZenonT(30) DEF row_vars, RowsInv, RowsTypeOK, YamlSound, TodoSound, Configured,
         PortsMatch, SubsMatch, Served, Requested, Reconciled, UpToDate,
         InPass, LiveSubs

(* RowsInvariant: the invariant holds at every point of pmd_run.           *)
THEOREM RowsInvariant == RowsSpec => []RowsInv
<1>1. RowsInv /\ [RowsNext]_row_vars => RowsInv'
  BY DatabaseStep, StartStep, ReconcileStep, NothingNewStep, StopStep,
     RowsStutter
     DEF RowsNext
<1> QED
  BY <1>1, RowsInvInit, PTL DEF RowsSpec

(***************************************************************************)
(* The properties the runs check.                                          *)
(***************************************************************************)
(* RowsInv implies them, which is also what Sim needs of it.               *)
LEMMA RowsPromises ==
  RowsInv => /\ RowsTypeOK /\ TablesMatchRows
             /\ RowsServed /\ RequestsApplied
<1> SUFFICES ASSUME RowsInv
             PROVE  /\ TablesMatchRows /\ RowsServed /\ RequestsApplied
  BY DEF RowsInv
<1>1. InPass => /\ PortsMatch /\ SubsMatch /\ Configured /\ Requested
                /\ \A s \in LiveSubs : Served(s)
  BY DEF RowsInv, Reconciled, UpToDate, InPass, TodoSound
<1> QED
  BY <1>1 DEF TablesMatchRows, RowsServed, RequestsApplied, PortsMatch,
              SubsMatch, Served, Configured, Requested

(* RowsTypeCorrect: every variable keeps its type, and no list refers to a *)
(* row that is gone.                                                       *)
THEOREM RowsTypeCorrect == RowsSpec => []RowsTypeOK
  BY RowsPromises, RowsInvariant, PTL

(* TablesFollowRows: in a pass every entry of the tables stands for the    *)
(* row of its name, whatever was deleted and added under the same name.    *)
THEOREM TablesFollowRows == RowsSpec => []TablesMatchRows
  BY RowsPromises, RowsInvariant, PTL

(* ListedPortsExist: in a pass every pluggable interface of a subsystem    *)
(* whose files were read has a port.                                       *)
THEOREM ListedPortsExist == RowsSpec => []RowsServed
  BY RowsPromises, RowsInvariant, PTL

(* RequestsReachHardware: in a pass the hardware was last told what the    *)
(* row of the port asks for.                                               *)
THEOREM RequestsReachHardware == RowsSpec => []RequestsApplied
  BY RowsPromises, RowsInvariant, PTL
=============================================================================
