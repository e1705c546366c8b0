--------------------------------- MODULE Pmd --------------------------------
(***************************************************************************)
(* The main loop of ops-pmd and its database (pmd_run in src/src/pmd.c,    *)
(* pmd_reconfigure and pm_ovsdb_update in src/src/ovsdb_access.c): several *)
(* ops-pmd processes compete for the OVSDB lock "ops_pmd"; the one that    *)
(* has it brings its ports up to date with the rows, scans every cage and  *)
(* publishes what has changed.                                             *)
(*                                                                         *)
(* The rows (one daemon row, one interface row per cage, all in subsystems *)
(* with readable YAML files) do not change; their columns do.  The scan of *)
(* one cage is one step, with the outcomes PlugContract establishes.       *)
(***************************************************************************)
EXTENDS PmPort

CONSTANTS Procs,     \* the ops-pmd processes
          Intfs,     \* the interface rows
          Cage,      \* Cage[i] is the connector of interface i
          Drops,     \* a database connection may be lost
          Glitches   \* i2c operations may fail

ASSUME PmdAssumption ==
  /\ Cage \in [Intfs -> Connectors]
  /\ Drops \in BOOLEAN /\ Glitches \in BOOLEAN
  /\ NULL \notin Procs

VARIABLES
  slot,        \* slot[i]: what is in the cage of interface i
  tx,          \* tx[i]: the SFP+ transmit signal of the cage is enabled
  bus,         \* "good", or "flaky": i2c operations may fail
  hw_enable,   \* hw_enable[i]: hw_intf_config:enable of row i
  pm_info,     \* pm_info[i]: the pm_info column of row i
  cur_hw,      \* the cur_hw column of the daemon row
  lock,        \* the server's owner of the lock
  conn,        \* conn[q]: q has a session with the server
  pc,          \* pc[q]: where q is in its main loop
  ports,       \* ports[q][i]: ovs_intfs of q, NULL if there is no entry
  todo,        \* todo[q]: the ports q has not scanned in this pass
  cur_hw_set   \* cur_hw_set[q]: the static variable of ovsdb_access.c

hw == <<slot, tx, bus>>
db == <<hw_enable, pm_info, cur_hw>>
server == <<lock, conn>>
procs == <<pc, ports, todo, cur_hw_set>>
vars == <<slot, tx, bus, hw_enable, pm_info, cur_hw, lock, conn,
          pc, ports, todo, cur_hw_set>>

(* One type invariant: every variable stays in its range.                  *)
TypeOK ==
  /\ slot \in [Intfs -> Modules \cup {Empty}]
  /\ tx \in [Intfs -> BOOLEAN]
  /\ bus \in {"good", "flaky"}
  /\ hw_enable \in [Intfs -> BOOLEAN]
  /\ pm_info \in [Intfs -> Info \cup {NULL}]
  /\ cur_hw \in {0, 1}
  /\ lock \in Procs \cup {NULL}
  /\ conn \in [Procs -> BOOLEAN]
  /\ pc \in [Procs -> {"down", "run", "scan", "update"}]
  /\ ports \in [Procs -> [Intfs -> Port \cup {NULL}]]
  /\ todo \in [Procs -> SUBSET Intfs]
  /\ cur_hw_set \in [Procs -> BOOLEAN]

NoPorts == [i \in Intfs |-> NULL]

Init ==
  /\ slot \in [Intfs -> Modules \cup {Empty}]
  /\ tx = [i \in Intfs |-> FALSE]
  /\ bus = "good"
  /\ hw_enable \in [Intfs -> BOOLEAN]
  /\ pm_info = [i \in Intfs |-> NULL]
  /\ cur_hw = 0
  /\ lock = NULL
  /\ conn = [q \in Procs |-> FALSE]
  /\ pc = [q \in Procs |-> "down"]
  /\ ports = [q \in Procs |-> NoPorts]
  /\ todo = [q \in Procs |-> {}]
  /\ cur_hw_set = [q \in Procs |-> FALSE]

(***************************************************************************)
(* The OVSDB server and the IDL sessions with it.  A session is opened by  *)
(* ovsdb_idl_run and asks for the lock as soon as it exists; the server    *)
(* gives it to one session at a time and takes it back when the session    *)
(* ends.  A transaction does not outlive the session it was begun in.      *)
(***************************************************************************)
Connect(q) ==
  /\ pc[q] = "run"
  /\ ~conn[q]
  /\ conn' = [conn EXCEPT ![q] = TRUE]
  /\ UNCHANGED <<hw, db, lock, procs>>

GrantLock(q) ==
  /\ lock = NULL
  /\ conn[q]
  /\ lock' = q
  /\ UNCHANGED <<hw, db, conn, procs>>

EndSession(q) ==
  /\ conn' = [conn EXCEPT ![q] = FALSE]
  /\ lock' = IF lock = q THEN NULL ELSE lock

Drop(q) ==
  /\ Drops
  /\ conn[q]
  /\ EndSession(q)
  /\ UNCHANGED <<hw, db, procs>>

(***************************************************************************)
(* A process.                                                              *)
(***************************************************************************)
(* main up to the loop: pmd_configure runs on a replica that is still      *)
(* empty and does nothing.                                                 *)
Start(q) ==
  /\ pc[q] = "down"
  /\ pc' = [pc EXCEPT ![q] = "run"]
  /\ UNCHANGED <<hw, db, server, ports, todo, cur_hw_set>>

Crash(q) ==
  /\ pc[q] # "down"
  /\ pc' = [pc EXCEPT ![q] = "down"]
  /\ ports' = [ports EXCEPT ![q] = NoPorts]
  /\ todo' = [todo EXCEPT ![q] = {}]
  /\ cur_hw_set' = [cur_hw_set EXCEPT ![q] = FALSE]
  /\ EndSession(q)
  /\ UNCHANGED <<hw, db>>

(***************************************************************************)
(* pmd_reconfigure: ovsdb_if_intf_create for a row without a port, and     *)
(* ovsdb_if_intf_modify for one with.  Both call pm_configure_port, once   *)
(* each time; of what it does to the hardware only the SFP+ signal is kept *)
(* here, the rest is in Plug.                                              *)
(***************************************************************************)
Reconfigured(p, enable) ==
  IF p = NULL THEN NewPort(enable) ELSE [p EXCEPT !.hw_enable = enable]

(* A slip: the signal is set when the port is created, and never again.    *)
ConfiguresTxOnce(q, i) == Cage[i] = "SFP_PLUS" /\ ports[q][i] = NULL

ConfiguresTx(q, i) ==
  /\ Cage[i] = "SFP_PLUS"
  /\ ports[q][i] = NULL \/ ports[q][i].hw_enable # hw_enable[i]

TxAfter(q, i) ==
  IF ConfiguresTx(q, i)
  THEN {hw_enable[i]} \cup If(bus = "flaky", {tx[i]})
  ELSE {tx[i]}

(* A slip: the lock is not asked for.                                      *)
RunUnlocked(q) ==
  /\ pc[q] = "run"
  /\ conn[q]
  /\ ports' = [ports EXCEPT
                 ![q] = [i \in Intfs |-> Reconfigured(@[i], hw_enable[i])]]
  /\ tx' = tx
  /\ todo' = [todo EXCEPT ![q] = Intfs]
  /\ pc' = [pc EXCEPT ![q] = "scan"]
  /\ UNCHANGED <<slot, bus, db, server, cur_hw_set>>

(* pmd_run as far as pmd_reconfigure; without the lock it returns at once  *)
(* and the main loop comes back later.                                     *)
Run(q) ==
  /\ pc[q] = "run"
  /\ conn[q] /\ lock = q
  /\ ports' = [ports EXCEPT
                 ![q] = [i \in Intfs |-> Reconfigured(@[i], hw_enable[i])]]
  /\ tx' \in {t \in [Intfs -> BOOLEAN] : \A i \in Intfs : t[i] \in TxAfter(q, i)}
  /\ todo' = [todo EXCEPT ![q] = Intfs]
  /\ pc' = [pc EXCEPT ![q] = "scan"]
  /\ UNCHANGED <<slot, bus, db, server, cur_hw_set>>

(* One turn of the loop of pm_read_state; the shash has no fixed order.    *)
Scan(q, i) ==
  /\ pc[q] = "scan"
  /\ i \in todo[q]
  /\ \E outcome \in ScanOutcomes(ports[q][i], Cage[i], slot[i],
                                       bus = "flaky") :
       ports' = [ports EXCEPT ![q][i] = outcome]
  /\ todo' = [todo EXCEPT ![q] = @ \ {i}]
  /\ pc' = [pc EXCEPT ![q] = IF todo'[q] = {} THEN "update" ELSE "scan"]
  /\ UNCHANGED <<hw, db, server, cur_hw_set>>

(***************************************************************************)
(* pm_ovsdb_update.  The flags are cleared while the transaction is built; *)
(* the server applies it if it comes from the owner of the lock, and       *)
(* whether it did is not looked at.                                        *)
(***************************************************************************)
Changed(q) == {i \in Intfs : ports[q][i].module_info_changed}

Publish(q, ready) ==
  IF conn[q] /\ lock = q
  THEN /\ pm_info' = [i \in Intfs |-> IF i \in Changed(q)
                                      THEN PmInfo(ports[q][i])
                                      ELSE pm_info[i]]
       /\ cur_hw' = ready
  ELSE UNCHANGED <<pm_info, cur_hw>>

(* Three slips: cur_hw is counted up, never set, or set in every pass.     *)
CommitCounts(q) == Publish(q, IF cur_hw_set[q] THEN cur_hw ELSE cur_hw + 1)

CommitNeverReady(q) == Publish(q, cur_hw)

CommitAlwaysReady(q) == Publish(q, 1)

Commit(q) == Publish(q, IF cur_hw_set[q] THEN cur_hw ELSE 1)

Update(q) ==
  /\ pc[q] = "update"
  /\ Commit(q)
  /\ ports' = [ports EXCEPT
                 ![q] = [i \in Intfs |->
                           [@[i] EXCEPT !.module_info_changed = FALSE]]]
  /\ cur_hw_set' = [cur_hw_set EXCEPT ![q] = TRUE]
  /\ pc' = [pc EXCEPT ![q] = "run"]
  /\ UNCHANGED <<hw, hw_enable, server, todo>>

(***************************************************************************)
(* The cages, and who configures the interfaces.  As in Plug, a module is  *)
(* replaced only when its removal has been noticed.                        *)
(***************************************************************************)
OnRecord(p) == p # NULL /\ p.present

Insert(i, m) ==
  /\ slot[i] = Empty
  /\ ~\E q \in Procs : OnRecord(ports[q][i])
  /\ slot' = [slot EXCEPT ![i] = m]
  /\ UNCHANGED <<tx, bus, db, server, procs>>

Remove(i) ==
  /\ slot[i] # Empty
  /\ slot' = [slot EXCEPT ![i] = Empty]
  /\ UNCHANGED <<tx, bus, db, server, procs>>

BusDegrades ==
  /\ Glitches
  /\ bus = "good"
  /\ bus' = "flaky"
  /\ UNCHANGED <<slot, tx, db, server, procs>>

BusSettles ==
  /\ bus = "flaky"
  /\ bus' = "good"
  /\ UNCHANGED <<slot, tx, db, server, procs>>

Configure(i) ==
  /\ hw_enable' = [hw_enable EXCEPT ![i] = ~@]
  /\ UNCHANGED <<hw, pm_info, cur_hw, server, procs>>

Step(q) == Run(q) \/ (\E i \in Intfs : Scan(q, i)) \/ Update(q)

Next ==
  \/ \E q \in Procs : \/ Connect(q) \/ GrantLock(q) \/ Drop(q)
                      \/ Start(q) \/ Crash(q) \/ Step(q)
  \/ \E i \in Intfs : \/ \E m \in Modules : Insert(i, m)
                      \/ Remove(i) \/ Configure(i)
  \/ BusDegrades \/ BusSettles

(***************************************************************************)
(* Fairness: the main loop turns, a live process reconnects, and the       *)
(* server hands the lock to the sessions that wait for it in turn.         *)
(***************************************************************************)
Fairness ==
  \A q \in Procs : /\ WF_vars(Step(q))
                   /\ WF_vars(Connect(q))
                   /\ SF_vars(GrantLock(q))

Spec == Init /\ [][Next]_vars /\ Fairness

(***************************************************************************)
(* Safety.                                                                 *)
(***************************************************************************)

(* ReadyMeansPublished: once cur_hw says that ops-pmd has initialized,     *)
(* every interface has its pm_info, whichever process got that far and     *)
(* whatever crashed on the way: the row is set in the transaction that     *)
(* publishes the first scan, which writes an attribute of every port.      *)
ReadyMeansPublished == cur_hw = 1 => \A i \in Intfs : pm_info[i] # NULL

(* OneScanner: no two processes work on the modules at the same time.      *)
OneScanner ==
  \A q, r \in Procs :
    pc[q] \in {"scan", "update"} /\ pc[r] \in {"scan", "update"} => q = r

(* UnpublishedIsFlagged: what a process of good standing (it has the lock  *)
(* and has created its ports) holds for an interface is what the row says, *)
(* or is flagged for the next transaction: no attribute changes behind     *)
(* module_info_changed.                                                    *)
UnpublishedIsFlagged ==
  \A q \in Procs, i \in Intfs :
    lock = q /\ ports[q][i] # NULL =>
      \/ ports[q][i].module_info_changed
      \/ ports[q][i].connector = NULL
      \/ pm_info[i] = PmInfo(ports[q][i])

(***************************************************************************)
(* Liveness, once things have settled: every process stays down or stays   *)
(* connected, at least one of them is up, and the bus works.               *)
(***************************************************************************)
Settled ==
  /\ \A q \in Procs : <>[](pc[q] = "down") \/ <>[]conn[q]
  /\ \E q \in Procs : <>[]conn[q]
  /\ <>[](bus = "good")

Describes(info, c) ==
  /\ info # NULL
  /\ IF c = Empty
     THEN info.connector = "absent"
     ELSE IF A0[c].sums_ok
          THEN info.id = c
          ELSE info.id = NULL /\ info.connector = "unknown"

(* Converges: if the cage of i keeps its contents, the row of i in the end *)
(* describes them, across crashes and takeovers by another process.        *)
Converges ==
  \A i \in Intfs, c \in Modules \cup {Empty} :
    Settled /\ <>[](slot[i] = c) => <>[]Describes(pm_info[i], c)

(* BecomesReady: cur_hw is set in the end.                                 *)
BecomesReady == Settled => <>[](cur_hw = 1)

(* LaserConverges: if no i2c write fails, an SFP+ transmitter in the end   *)
(* is what its row asks for, whichever process the request was made to.    *)
LaserConverges ==
  \A i \in Intfs, enable \in BOOLEAN :
    /\ Cage[i] = "SFP_PLUS"
    /\ Settled /\ [](bus = "good") /\ <>[](hw_enable[i] = enable)
    => <>[](tx[i] = enable)
=============================================================================
