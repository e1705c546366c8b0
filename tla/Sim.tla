-------------------------------- MODULE Sim ---------------------------------
(***************************************************************************)
(* The simulation build of ops-pmd (PLATFORM_SIMULATION in src/src/plug.c  *)
(* and src/src/pmd.c): the cage of a port is the buffer module_data, which *)
(* the command ops-pmd/sim fills and frees.  A pass reconciles (Rows),     *)
(* scans every port and publishes; commands are served between passes.     *)
(***************************************************************************)
EXTENDS Rows

CONSTANT Cage   \* the connector of every port

ASSUME CageAssumption == Cage \in Connectors

VARIABLE client   \* what a client of the control socket is waiting for

vars == <<row_vars, client>>

Commands ==
  [op : {"insert"}, name : Names, file : Modules \cup {NULL}]
    \cup [op : {"remove"}, name : Names]
    \cup [op : {"malformed", "dump", "exit"}]

Idle == [op |-> "idle"]

(* One type invariant: every variable stays in its range.                  *)
TypeOK == RowsTypeOK /\ client \in Commands \cup {Idle, [op |-> "unanswered"]}

Init == RowsInit /\ client = Idle

(***************************************************************************)
(* The scan.  Presence and the serial ID come from module_data and cannot  *)
(* fail; pm_read_a2 always fails, and pm_set_a2 gets a page of ones.       *)
(***************************************************************************)
(* A slip: the presence of a module is not taken from module_data.         *)
SimScannedNeverAbsent(entry) ==
  IF entry.module_data = Empty THEN entry.port
  ELSE LET port == Identify(entry.port, Cage, entry.module_data)
       IN  IF port.a2_read_requested THEN pm_set_a2(port, Ones) ELSE port

SimScanned(entry) ==
  LET m == entry.module_data
      port == entry.port
  IN  IF m = Empty THEN MarkAbsent(port)
      ELSE IF ~A0Wanted(port) THEN port
      ELSE IF ~A0[m].sums_ok THEN MarkUnknown(port)
      ELSE LET identified == Identify(port, Cage, m)
           IN  IF identified.a2_read_requested
               THEN pm_set_a2(identified, Ones)
               ELSE identified

Scan ==
  /\ pc = "scan"
  /\ ovs_intfs' = [n \in Names |->
                     IF ovs_intfs[n] = NULL THEN NULL
                     ELSE [ovs_intfs[n] EXCEPT !.port = SimScanned(ovs_intfs[n])]]
  /\ pc' = "update"
  /\ UNCHANGED <<replica, has_lock, changed, todo, ovs_subs, yaml, client>>

(* pm_ovsdb_update: each changed port writes to the row of its uuid, if    *)
(* there is one.                                                           *)
Writes(n) ==
  /\ ovs_intfs[n] # NULL
  /\ rows[n] # NULL /\ rows[n].uuid = ovs_intfs[n].uuid
  /\ ovs_intfs[n].port.module_info_changed

Update ==
  /\ pc = "update"
  /\ rows' = [n \in Names |->
                IF Writes(n)
                THEN [rows[n] EXCEPT !.pm_info = PmInfo(ovs_intfs[n].port)]
                ELSE rows[n]]
  /\ ovs_intfs' = [n \in Names |->
                     IF Writes(n)
                     THEN [ovs_intfs[n] EXCEPT !.port.module_info_changed = FALSE]
                     ELSE ovs_intfs[n]]
  /\ pc' = "run"
  /\ UNCHANGED <<subs, has_lock, changed, todo, ovs_subs, yaml, client>>

(***************************************************************************)
(* The control socket.  unixctl_server_run calls the handler of a request  *)
(* between two passes; the connection waits until the handler has replied. *)
(***************************************************************************)
Request(command) ==
  /\ pc # "down"
  /\ client = Idle
  /\ client' = command
  /\ UNCHANGED row_vars

Handling(op) == pc = "run" /\ client.op = op

SetModule(n, m) ==
  /\ ovs_intfs' = [ovs_intfs EXCEPT ![n].module_data = m]
  /\ UNCHANGED <<replica, has_lock, changed, pc, todo, ovs_subs, yaml>>

Reply == client' = Idle

(* A slip: what could not be read is stored all the same.                  *)
SimInsertUnread ==
  /\ Handling("insert")
  /\ IF ovs_intfs[client.name] = NULL
     THEN UNCHANGED row_vars
     ELSE SetModule(client.name, client.file)
  /\ Reply

(* pmd_sim_insert: the module that is there goes before the file of the    *)
(* new one is opened; NULL is a file that cannot be opened or read.        *)
SimInsert ==
  /\ Handling("insert")
  /\ IF ovs_intfs[client.name] = NULL
     THEN UNCHANGED row_vars
     ELSE SetModule(client.name,
                    IF client.file = NULL THEN Empty ELSE client.file)
  /\ Reply

(* A slip: no reply if there is nothing to remove.                         *)
SimRemoveSilent ==
  /\ Handling("remove")
  /\ IF ovs_intfs[client.name] = NULL
     THEN UNCHANGED row_vars /\ client' = [op |-> "unanswered"]
     ELSE SetModule(client.name, Empty) /\ Reply

(* pmd_sim_remove; removing what is not there is an error and no change.   *)
SimRemove ==
  /\ Handling("remove")
  /\ IF ovs_intfs[client.name] = NULL
     THEN UNCHANGED row_vars
     ELSE SetModule(client.name, Empty)
  /\ Reply

(* pmd_unixctl_sim returns from its usage branch without a reply.          *)
SimMalformed ==
  /\ Handling("malformed")
  /\ client' = [op |-> "unanswered"]
  /\ UNCHANGED row_vars

(* pm_debug_dump reads the ports.                                          *)
Dump ==
  /\ Handling("dump")
  /\ Reply
  /\ UNCHANGED row_vars

(* ops_pmd_exit replies and ends the main loop.                            *)
Exit ==
  /\ Handling("exit")
  /\ Reply
  /\ Stop

Serve == SimInsert \/ SimRemove \/ SimMalformed \/ Dump \/ Exit

(* A crash closes the connections; a client whose command was never        *)
(* answered gives up when it pleases.                                      *)
Crash ==
  /\ pc # "down"
  /\ Stop
  /\ client' = Idle

Hangup ==
  /\ client = [op |-> "unanswered"]
  /\ client' = Idle
  /\ UNCHANGED row_vars

Pass == (Reconcile /\ UNCHANGED client) \/ Scan \/ Update

Next ==
  \/ (Database \/ Start) /\ UNCHANGED client
  \/ Pass
  \/ \E command \in Commands : Request(command)
  \/ Serve
  \/ Crash
  \/ Hangup

(***************************************************************************)
(* Fairness: the main loop turns, and each turn serves the control socket. *)
(* Both go on only while the process is up and, for a pass, has the lock.  *)
(***************************************************************************)
Spec == Init /\ [][Next]_vars /\ WF_vars(Pass) /\ SF_vars(Serve)

(***************************************************************************)
(* Properties.                                                             *)
(***************************************************************************)

(* UnflaggedIsPublished: while a pass scans and publishes, a port that has *)
(* been scanned and is not flagged has nothing to tell: the row that has   *)
(* its name now, be it a new one under a name used before, holds the map   *)
(* of the port as it is.  module_info_changed is one flag of a port and    *)
(* not of a row: what was published to a row that has been replaced since  *)
(* must not count.                                                         *)
UnflaggedIsPublished ==
  InPass =>
    \A n \in Names :
      /\ ovs_intfs[n] # NULL
      /\ ovs_intfs[n].port.connector # NULL
      /\ ~ovs_intfs[n].port.module_info_changed
      => rows[n] # NULL /\ rows[n].pm_info = PmInfo(ovs_intfs[n].port)

(* A row that stays, is listed by a subsystem that was read, and belongs   *)
(* to a process that stays up with the lock.                               *)
Steady(n, s, uuid) ==
  /\ pc # "down" /\ has_lock
  /\ rows[n] # NULL /\ rows[n].uuid = uuid
  /\ subs[s] # NULL /\ yaml[s].rc = 0
  /\ n \in subs[s].interfaces \cap HwDesc[s]

Holds(n, m) == ovs_intfs[n] # NULL => ovs_intfs[n].module_data = m

(* PresenceReachesRow: such a row in the end says whether there is a       *)
(* module, also if it replaced another row of the same name whose port had *)
(* already been published, and also across restarts of the process.        *)
PresenceReachesRow ==
  \A n \in Names, s \in Subs, uuid \in Uuids(Names), m \in Modules \cup {Empty} :
    <>[](Steady(n, s, uuid) /\ Holds(n, m)) =>
      <>[](/\ rows[n] # NULL /\ rows[n].pm_info # NULL
           /\ (rows[n].pm_info.connector = "absent") <=> (m = Empty))

(* Answered: the client of every well formed command is released, by one   *)
(* reply, also where the handler reports an error, or by the end of the    *)
(* process.                                                                *)
Answered ==
  client.op \in {"insert", "remove", "dump", "exit"} ~> client = Idle
=============================================================================
