-------------------------------- MODULE Rows --------------------------------
(***************************************************************************)
(* The reconciliation of an ops-pmd process with the interface and         *)
(* subsystem rows of the database, and the hardware description it reads   *)
(* for a subsystem (src/src/ovsdb_access.c, src/src/config.c).             *)
(*                                                                         *)
(* Rows come and go, also under a name that was used before; the process   *)
(* finds its tables by name and the rows by uuid.  The tables are the      *)
(* shashes ovs_intfs and ovs_subs.  Sim composes this with the scan, the   *)
(* publication and the commands.                                           *)
(***************************************************************************)
EXTENDS PmPort

CONSTANTS Names,      \* the names of interfaces
          Subs,       \* the names of subsystems
          HwDesc,     \* HwDesc[s]: the pluggable ports the files of s describe
          YamlFails   \* reading the files of a subsystem may fail

ASSUME RowsAssumption ==
  /\ HwDesc \in [Subs -> SUBSET Names]
  /\ YamlFails \in BOOLEAN

VARIABLES
  rows,       \* rows[n]: the interface row of that name in the replica
  subs,       \* subs[s]: the subsystem row of that name in the replica
  has_lock,   \* ovsdb_idl_has_lock
  changed,    \* the replica has changed since idl_seqno was noted
  pc,         \* where the process is in pmd_run, or "down"
  todo,       \* the subsystems ovsdb_if_subsys_process has not been given
  ovs_intfs,  \* the table of ports
  ovs_subs,   \* the table of subsystems: the uuid of the row each stands for
  yaml        \* what the YAML handle knows of each subsystem

replica == <<rows, subs>>
tables == <<ovs_intfs, ovs_subs, yaml>>
row_vars == <<rows, subs, has_lock, changed, pc, todo, ovs_intfs, ovs_subs, yaml>>

(***************************************************************************)
(* A uuid is never used twice.  What refers to a row is the row itself and *)
(* one entry of a table: two uuids for each name are as good as any        *)
(* number, if a new row takes the one that nothing refers to.              *)
(***************************************************************************)
Uuids(names) == names \X {1, 2}

Fresh(name, entry) ==
  CHOOSE uuid \in Uuids({name}) : entry = NULL \/ entry # uuid

(* The columns of an interface row and of a subsystem row.                 *)
Row == [uuid : Uuids(Names), enable : BOOLEAN, pm_info : Info \cup {NULL}]

SubRow == [uuid : Uuids(Subs), interfaces : SUBSET Names]

(* An entry of ovs_intfs: the record of PmPort, and what ties it to a row. *)
Entry ==
  [uuid : Uuids(Names), subsystem : Subs, configured : BOOLEAN,
   module_data : Modules \cup {Empty}, port : Port]

ASSUME NullRowAssumption ==
  /\ NULL \notin Row /\ NULL \notin SubRow /\ NULL \notin Entry
  /\ NULL \notin Uuids(Names) /\ NULL \notin Uuids(Subs)

PortUuid(n) == IF ovs_intfs[n] = NULL THEN NULL ELSE ovs_intfs[n].uuid

(* RowsTypeOK, one type invariant: every variable stays in its range, what *)
(* bears a name has a uuid of that name, and an interface listed by a      *)
(* subsystem has a row.                                                    *)
RowsTypeOK ==
  /\ rows \in [Names -> Row \cup {NULL}]
  /\ \A n \in Names : rows[n] # NULL => rows[n].uuid \in Uuids({n})
  /\ subs \in [Subs -> SubRow \cup {NULL}]
  /\ \A s \in Subs : subs[s] # NULL =>
       /\ subs[s].uuid \in Uuids({s})
       /\ \A n \in subs[s].interfaces : rows[n] # NULL
  /\ has_lock \in BOOLEAN /\ changed \in BOOLEAN
  /\ pc \in {"down", "run", "subs", "modify", "scan", "update"}
  /\ todo \subseteq Subs
  /\ ovs_intfs \in [Names -> Entry \cup {NULL}]
  /\ \A n \in Names : ovs_intfs[n] # NULL => ovs_intfs[n].uuid \in Uuids({n})
  /\ ovs_subs \in [Subs -> Uuids(Subs) \cup {NULL}]
  /\ \A s \in Subs : ovs_subs[s] # NULL => ovs_subs[s] \in Uuids({s})
  /\ yaml \in [Subs -> [rc : {0, 1}, ports : SUBSET Names]]

NoPorts == [n \in Names |-> NULL]

NoSubs == [s \in Subs |-> NULL]

NoYaml == [s \in Subs |-> [rc |-> 1, ports |-> {}]]

RowsInit ==
  /\ rows = [n \in Names |-> NULL]
  /\ subs = [s \in Subs |-> NULL]
  /\ has_lock = FALSE
  /\ changed = FALSE
  /\ pc = "down"
  /\ todo = {}
  /\ ovs_intfs = NoPorts
  /\ ovs_subs = NoSubs
  /\ yaml = NoYaml

(***************************************************************************)
(* The database.  What others write reaches the replica in ovsdb_idl_run,  *)
(* which pmd_run calls before anything else, and each time moves the       *)
(* sequence number on: all the columns written by others are monitored     *)
(* with alerts, pm_info and cur_hw are not.                                *)
(***************************************************************************)
Replicate ==
  /\ pc = "run"
  /\ changed' = TRUE
  /\ UNCHANGED <<has_lock, pc, todo, tables>>

AddRow(n, enable) ==
  /\ rows[n] = NULL
  /\ rows' = [rows EXCEPT ![n] = [uuid |-> Fresh(n, PortUuid(n)),
                                  enable |-> enable, pm_info |-> NULL]]
  /\ subs' = subs
  /\ Replicate

(* The lists of the subsystems are references and go with the row.         *)
DeleteRow(n) ==
  /\ rows[n] # NULL
  /\ rows' = [rows EXCEPT ![n] = NULL]
  /\ subs' = [s \in Subs |->
                IF subs[s] = NULL THEN NULL
                ELSE [subs[s] EXCEPT !.interfaces = @ \ {n}]]
  /\ Replicate

SetEnable(n) ==
  /\ rows[n] # NULL
  /\ rows' = [rows EXCEPT ![n].enable = ~@]
  /\ subs' = subs
  /\ Replicate

AddSub(s) ==
  /\ subs[s] = NULL
  /\ subs' = [subs EXCEPT ![s] = [uuid |-> Fresh(s, ovs_subs[s]),
                                  interfaces |-> {}]]
  /\ rows' = rows
  /\ Replicate

DeleteSub(s) ==
  /\ subs[s] # NULL
  /\ subs' = [subs EXCEPT ![s] = NULL]
  /\ rows' = rows
  /\ Replicate

(* Interface n enters the list of s, or leaves it.                         *)
List(s, n) ==
  /\ subs[s] # NULL /\ rows[n] # NULL
  /\ subs' = [subs EXCEPT
                ![s].interfaces = IF n \in @ THEN @ \ {n} ELSE @ \cup {n}]
  /\ rows' = rows
  /\ Replicate

GetLock ==
  /\ pc = "run" /\ ~has_lock
  /\ has_lock' = TRUE
  /\ UNCHANGED <<replica, changed, pc, todo, tables>>

LoseLock ==
  /\ pc = "run" /\ has_lock
  /\ has_lock' = FALSE
  /\ UNCHANGED <<replica, changed, pc, todo, tables>>

Database ==
  \/ \E n \in Names : \/ \E enable \in BOOLEAN : AddRow(n, enable)
                      \/ DeleteRow(n) \/ SetEnable(n)
  \/ \E s \in Subs : \/ AddSub(s) \/ DeleteSub(s)
                     \/ \E n \in Names : List(s, n)
  \/ GetLock \/ LoseLock

(***************************************************************************)
(* The process starts with idl_seqno of an empty replica, on which         *)
(* pmd_configure finds nothing, and is served the rows later.              *)
(***************************************************************************)
Start ==
  /\ pc = "down"
  /\ pc' = "run"
  /\ changed' = TRUE
  /\ UNCHANGED <<replica, has_lock, todo, tables>>

(* The end of the process, by the exit command or a crash.                 *)
Stop ==
  /\ pc' = "down"
  /\ has_lock' = FALSE
  /\ todo' = {}
  /\ ovs_intfs' = NoPorts
  /\ ovs_subs' = NoSubs
  /\ yaml' = NoYaml
  /\ UNCHANGED <<replica, changed>>

(***************************************************************************)
(* pmd_reconfigure.  Ports and subsystems are looked up by their uuid.     *)
(***************************************************************************)
RowLives(uuid) == \E n \in Names : rows[n] # NULL /\ rows[n].uuid = uuid

SubLives(uuid) == \E s \in Subs : subs[s] # NULL /\ subs[s].uuid = uuid

(* A slip: a port is kept as long as there is a row of its name.           *)
DroppedByName(n) == ovs_intfs[n] # NULL /\ rows[n] = NULL

Dropped(n) == ovs_intfs[n] # NULL /\ ~RowLives(ovs_intfs[n].uuid)

LiveSubs == {s \in Subs : subs[s] # NULL}

NothingNew ==
  /\ pc = "run" /\ has_lock
  /\ ~changed
  /\ pc' = "scan"
  /\ UNCHANGED <<replica, has_lock, changed, todo, tables>>

(* Notes idl_seqno and forgets what is gone; the configuration of a        *)
(* subsystem stays in the YAML handle.                                     *)
Reconfigure ==
  /\ pc = "run" /\ has_lock
  /\ changed
  /\ changed' = FALSE
  /\ ovs_intfs' = [n \in Names |-> IF Dropped(n) THEN NULL ELSE ovs_intfs[n]]
  /\ ovs_subs' = [s \in Subs |->
                    IF ovs_subs[s] # NULL /\ ~SubLives(ovs_subs[s])
                    THEN NULL ELSE ovs_subs[s]]
  /\ todo' = LiveSubs
  /\ pc' = IF LiveSubs = {} THEN "modify" ELSE "subs"
  /\ UNCHANGED <<replica, has_lock, yaml>>

(***************************************************************************)
(* pm_read_yaml_files: add the subsystem, parse its devices and its ports, *)
(* initialize the devices.  A failure ends it and leaves what was parsed.  *)
(***************************************************************************)
YamlOutcomes(s) ==
  {[rc |-> 0, ports |-> HwDesc[s]]}
    \cup If(YamlFails, {[rc |-> 1, ports |-> yaml[s].ports \cup parsed] :
                          parsed \in SUBSET HwDesc[s]})

(* A slip: the port is not tied to a subsystem.                            *)
NewEntryNoSubsystem(s, n) ==
  [uuid |-> rows[n].uuid, subsystem |-> NULL, configured |-> rows[n].enable,
   module_data |-> Empty, port |-> NewPort(rows[n].enable)]

(* ovsdb_if_intf_create: a new record, the request of the row applied.     *)
NewEntry(s, n) ==
  [uuid |-> rows[n].uuid, subsystem |-> s, configured |-> rows[n].enable,
   module_data |-> Empty, port |-> NewPort(rows[n].enable)]

(* pm_get_yaml_port: the description of n among the ports that were parsed *)
(* for its subsystem (the pluggable ones).                                 *)
HasYamlPort(parsed, n) == n \in parsed

(* The interfaces of the list that have no port get one, if they are       *)
(* described.                                                              *)
WithPorts(s, parsed) ==
  [n \in Names |-> IF /\ n \in subs[s].interfaces
                      /\ ovs_intfs[n] = NULL
                      /\ HasYamlPort(parsed, n)
                   THEN NewEntry(s, n)
                   ELSE ovs_intfs[n]]

SubDone(s) ==
  /\ pc = "subs" /\ s \in todo
  /\ todo' = todo \ {s}
  /\ pc' = IF todo' = {} THEN "modify" ELSE "subs"
  /\ UNCHANGED <<replica, has_lock, changed>>

(* ovsdb_if_subsys_process of a new subsystem: entered first, then read.   *)
NewSub(s) ==
  /\ SubDone(s)
  /\ ovs_subs[s] = NULL
  /\ ovs_subs' = [ovs_subs EXCEPT ![s] = subs[s].uuid]
  /\ \E read \in YamlOutcomes(s) :
       /\ yaml' = [yaml EXCEPT ![s] = read]
       /\ ovs_intfs' = IF read.rc = 0 THEN WithPorts(s, read.ports)
                                      ELSE ovs_intfs

(* A slip: a subsystem that is known already is not looked at.             *)
KnownSubIgnored(s) ==
  /\ SubDone(s)
  /\ ovs_subs[s] # NULL
  /\ UNCHANGED tables

(* ovsdb_if_subsys_process of a subsystem that was entered before: only    *)
(* the loop over its list, with whatever has been parsed for it.           *)
KnownSub(s) ==
  /\ SubDone(s)
  /\ ovs_subs[s] # NULL
  /\ ovs_intfs' = WithPorts(s, yaml[s].ports)
  /\ UNCHANGED <<ovs_subs, yaml>>

(* A slip: the request is stored and not given to the hardware.            *)
ModifiedUnapplied(n) == [ovs_intfs[n] EXCEPT !.port.hw_enable = rows[n].enable]

(* ovsdb_if_intf_modify: pm_configure_port if hw_enable has changed.       *)
Modified(n) ==
  IF ovs_intfs[n].port.hw_enable = rows[n].enable
  THEN ovs_intfs[n]
  ELSE [ovs_intfs[n] EXCEPT !.port.hw_enable = rows[n].enable,
                            !.configured = rows[n].enable]

(* The last loop of pmd_reconfigure, over the rows.                        *)
ModifyInterfaces ==
  /\ pc = "modify"
  /\ ovs_intfs' = [n \in Names |->
                     IF rows[n] # NULL /\ ovs_intfs[n] # NULL
                     THEN Modified(n) ELSE ovs_intfs[n]]
  /\ pc' = "scan"
  /\ UNCHANGED <<replica, has_lock, changed, todo, ovs_subs, yaml>>

(* pm_read_state and pm_ovsdb_update leave the tables alone: Sim has them. *)
RestOfPass ==
  /\ pc = "scan"
  /\ pc' = "run"
  /\ UNCHANGED <<replica, has_lock, changed, todo, tables>>

Reconcile ==
  \/ NothingNew \/ Reconfigure \/ ModifyInterfaces
  \/ \E s \in Subs : NewSub(s) \/ KnownSub(s)

RowsNext ==
  \/ Database \/ Start \/ Reconcile \/ RestOfPass
  \/ pc # "down" /\ Stop

RowsSpec == RowsInit /\ [][RowsNext]_row_vars

(***************************************************************************)
(* What reconciliation promises to the rest of a pass.                     *)
(***************************************************************************)
InPass == pc \in {"scan", "update"}

(* TablesMatchRows: while the ports are scanned and published, each entry  *)
(* of ovs_intfs stands for the row that now has its name, and each entry   *)
(* of ovs_subs likewise, whatever rows were deleted and added under the    *)
(* same names since the last pass, with or without the lock.  So the look  *)
(* up by uuid in pm_ovsdb_update never fails.                              *)
TablesMatchRows ==
  InPass =>
    /\ \A n \in Names : ovs_intfs[n] # NULL =>
         rows[n] # NULL /\ rows[n].uuid = ovs_intfs[n].uuid
    /\ \A s \in Subs : ovs_subs[s] # NULL =>
         subs[s] # NULL /\ subs[s].uuid = ovs_subs[s]

(* RowsServed: in a pass every pluggable interface of a subsystem whose    *)
(* files were read has a port, be the interface listed later than the      *)
(* subsystem was read, and whatever became of the files of the others.     *)
RowsServed ==
  InPass =>
    \A s \in LiveSubs :
      yaml[s].rc = 0 =>
        \A n \in subs[s].interfaces \cap HwDesc[s] : ovs_intfs[n] # NULL

(* RequestsApplied: in a pass what pm_configure_port was last asked for is *)
(* what the row of the port asks for.                                      *)
RequestsApplied ==
  InPass =>
    \A n \in Names : ovs_intfs[n] # NULL =>
      ovs_intfs[n].configured = rows[n].enable
=============================================================================
