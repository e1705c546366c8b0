# ops-pmd in TLA+

ops-pmd is the OpenSwitch daemon for pluggable modules (SFP+, QSFP+, QSFP28).
It polls every cage over i2c, identifies the module in it, publishes what it
found in the database (`Interface:pm_info`), and switches lasers on and off as
the database asks (`Interface:hw_intf_config:enable`). This directory models
the daemon, checks it with TLC and proves its safety properties with TLAPS.

Paths below are relative to the root of the repository, which holds the C code
in `src/`.

## 1. Inventory

| Component | State | Operations | Hard because |
|---|---|---|---|
| Identification (`src/pm_detect.c`, `include/plug.h`) | none | `sfpp_sum_verify`, `pm_parse` | long tables; writes a dozen attributes of a record that may hold older ones |
| Monitoring, DOM (`src/pm_dom.c`, `include/pm_dom.h`) | none | `set_a2_read_request`, `pm_set_a2` | conversions through strings and floats |
| Port record (`include/pmd.h.in`, `src/plug.c`) | `pm_port_t`: flags `present`, `retry`, `a2_read_requested`, `optical`, `hw_enable`, `module_info_changed`, and the attributes | the `SET_*`/`DELETE` macros, `pm_delete_all_data` | several flags with several writers, none of them cleared everywhere |
| Scan and hardware control (`src/plug.c`) | the retry counts of one call | `pm_read_module_state`, `pm_get_presence`, `pm_read_a0`, `pm_read_a2`, `pm_reset_port`, `pm_configure_port` | backward gotos; the module changes between any two i2c operations; operations fail; a crash leaves a reset asserted |
| Main loop (`src/pmd.c`) | none of its own | `pmd_run`, `pmd_wait`, `main` | several processes, one OVSDB lock, lost sessions |
| Database access (`src/ovsdb_access.c`) | `ovs_intfs`, `ovs_subs`, `idl_seqno`, `cur_hw_set` | `pmd_reconfigure`, `ovsdb_if_intf_create`, `ovsdb_if_intf_modify`, `pm_ovsdb_update` | flags cleared before a commit whose result is not looked at |
| Hardware description (`src/config.c`) | the YAML handle | `pm_read_yaml_files`, `pm_get_yaml_port` | failure half way |
| Simulation and commands (`src/plug.c`, `src/pmd.c`) | `module_data` | `ops-pmd/sim`, `ops-pmd/dump`, `exit` | error paths without a reply |

Interaction: one thread per process. `pmd_run` runs the IDL, returns unless it
has the lock, brings the ports up to date with the rows (`pmd_reconfigure`),
scans every port (`pm_read_state`) and publishes in one transaction
(`pm_ovsdb_update`). Concurrency comes from outside: people who plug modules,
an i2c bus that fails, other ops-pmd processes, the database server, crashes.

What makes each part correct:

* identification and record: what `pm_parse` found is of one module whose page
  is intact, or there is none of it; an A2 page on record, and the monitoring
  data taken from it, are of that module too;
* scan: it returns; it identifies a module that stays, reports a cage that
  stays empty, and keeps the identity of a module in service; it does not
  reset a module in service;
* laser: the transmitter is what the database asks for;
* main loop: one process at a time works on the modules, whatever changes is
  published in the end, and `cur_hw` is set after, not before, the first
  publication;
* reconciliation: while ports are scanned and published each belongs to the
  row that has its name now, every pluggable interface of a readable subsystem
  has one, and it is configured as its row asks;
* commands: each is answered, and whether they inserted or removed a module
  reaches the row;
* byte-level routines: no corrupt page is accepted for one wrong byte, no
  buffer is overrun, no text is lost, and a column says what was read.

`PROJECT.json` lists the hazards behind these, each at its line.

## 2. Modules

| Module | Stands for |
|---|---|
| `PmDetect` | a serial ID page as the facts the code reads from it; `pm_parse` as a function from page and cage to connector, status, speed, cable, optical |
| `PmDom` | `set_a2_read_request` and `pm_set_a2`, with `SET_FLOAT_STRING` as it is: compare with the truncated old string, print two decimals |
| `PmPort` | `pm_port_t` and what each outcome of a scan does to it; the scan as one step (`ScanOutcomes`) |
| `Plug` | one cage, one i2c operation per step, with module insertion and removal, bus failures, crashes and laser requests in between |
| `PortReport` | abstract: what may be reported of a cage, without retries, flags or i2c |
| `PlugContract` | `Plug` with history variables, to justify `ScanOutcomes` |
| `Pmd` | several processes, the lock, the rows and their columns, the scan of a cage as one step |
| `Rows` | one process and the interface and subsystem rows: `pmd_reconfigure`, the YAML files, the tables `ovs_intfs` and `ovs_subs` |
| `Sim` | `Rows` with the scan of the simulation build, the publication, and the commands of the control socket |
| `PmBytes` | the routines on bytes: check bytes, hex output, OUI, text fields, readings; the columns that are set and published |
| `MCPlug`, `MCPlugContract`, `MCPmd`, `MCRows`, `MCSim`, `MCPmBytes` | concrete modules, pages, cages, rows and inputs for TLC |
| `PmPortProofs` | lemmas about `pm_parse` and the operations on a record |
| `PlugProofs`, `PlugContractProofs` | theorems about one cage: safety, refinement of `PortReport`, the scan as one step |
| `PmdProofs` | theorems about processes, lock and publication |
| `RowsProofs`, `SimProofs` | theorems about reconciliation, and about the simulation build |
| `PmBytesProofs`, `PmPageProofs` | theorems about readings and columns, and about sums, hex output and text fields |

Layers: `PmDetect` < `PmDom` < `PmPort` < `Plug`, `Pmd` and `Rows` < `Sim`;
`PmBytes` extends `PmDom`. The proofs follow the same layers: `PmPortProofs` <
`PlugProofs` < `PlugContractProofs`; `PmPortProofs` < `PmdProofs`;
`RowsProofs` < `SimProofs`. `Plug` implements `PortReport`; `PlugContract` ties the one-step scan that `Pmd` uses to `Plug`.

### State and actions against the code

**PmDetect, PmDom, PmPort.** A page is a record of the facts `pm_parse`,
`sfpp_sum_verify` and `set_a2_read_request` read from it. The vendor strings
and `a0` are copies of page bytes, so they are represented by the module the
page belongs to (`id`). `supported_speeds` always equals `max_speed`;
`power_mode` and `a0_uppers` are never set. The monitoring columns are written
with two macros only: one column of alarm flags and one power reading (in
0.0001 mW) stand for all. A reading exactly half way between two printed
values is rounded as its binary float falls, so the assumption on `A2` keeps
those out. Each macro sets `module_info_changed`; each operation of `PmPort`
writes at least one attribute with an unconditional macro, so it sets the flag.
`PmInfo` is the map that is published: every attribute but the raw pages.

**Plug.** `pc` is the point in `pm_read_module_state`: `presence` (also where
both retries of the A0 read come back to), `a0`, `set_reset` and `clear_reset`
(the two writes of `pm_reset_port`), `a2`. `PresenceReadFails`, `SeesAbsent`,
`SeesPresent` are `pm_get_presence` and its use; `ReadA0`, `RetryA0`,
`GiveUpA0` the serial ID read with its checksum; `ReadA2`, `RetryA2`,
`GiveUpA2` the A2 read, which continues with what the A0 read left of the
retries. `Create` and `Modify` are the two callers of `pm_configure_port`.
`Crash` loses the memory of the daemon and keeps the hardware: a reset may stay
asserted. A module held in reset answers nothing. A QSFP module powers up, and
leaves reset, with its transmitters on, and an empty QSFP cage has none; its disable is a register in the module
(`pm_configure_qsfp`), that of an SFP+ cage is a signal of the board. `bus` is
`good`, or `flaky`: then any operation may fail. `FastSwap` says whether a
module may be replaced before its removal was noticed.

**Pmd.** `Run` is `pmd_run` as far as `pmd_reconfigure`; `Scan` one turn of the
loop of `pm_read_state`; `Update` is `pm_ovsdb_update`, which clears the flags
whether or not the transaction succeeds. The server and the IDL are external:
`Connect`, `GrantLock`, `Drop`. A transaction is applied if its process still
has its session and the lock. Of the hardware only the SFP+ transmit signal is
kept, the rest is in `Plug`.

**Rows.** The replica has at most one row per name; a row deleted and added
again has another uuid. Two uuids per name stand for all there ever are: only
the row and one table entry can refer to one, so a new row takes the other.
`Replicate` is what `ovsdb_idl_run` does to the replica; it moves the sequence
number on (`changed`), except for `pm_info` and `cur_hw`, which are subscribed
without alerts. `Reconfigure` is the first half of `pmd_reconfigure`, which
drops ports and subsystems whose uuid is gone; `NewSub` and `KnownSub` are
`ovsdb_if_subsys_process`, in any order of the subsystems, `HasYamlPort` is
`pm_get_yaml_port`; `ModifyInterfaces`
the last loop. All are steps of their own only so that the order of the
subsystems is open: nothing else happens between them. `YamlOutcomes` is
`pm_read_yaml_files`: on failure whatever was parsed stays in the handle, the
subsystem stays in `ovs_subs`, and the next pass makes ports from the handle.
`Start` finds an empty replica, so `pmd_configure` has nothing to do.
`configured` is the request that `pm_configure_port` was last given.

**Sim.** `module_data` is the cage of a port. `SimScanned` is
`pm_read_module_state` with the simulated reads, which cannot fail, and the A2
read, which always does. `SimInsert`, `SimRemove`, `SimMalformed`, `Dump`,
`Exit` are the handlers of the control socket, called between two passes.
`client` is the one connection: waiting with a command, `unanswered` after a
handler that did not reply, or idle.

**PmBytes.** `last` is the last call with its arguments and its result. A call
starts from `Idle`; a reading may follow one of the same column, which is then
what `SET_FLOAT_STRING` finds. Characters are ASCII codes, bytes 0..255 or, for
`char`, -128..127. A reading is an integer of 0.0001 units, which every float
of the code is within its precision; those half way between two printed values
are kept out. `lsb/256` is an integer division, as in the code.

The definitions called slips in the modules (`AbsentKeepsData`,
`RetryA0Unlimited`, ...) are no part of the specification: each is a plausible
mistake that, put in the place of the definition below it, has to violate a
property. `PROJECT.json` lists which.

## 3. Runs

`tlc -config X.cfg M` with the module given in `PROJECT.json`.

| Run | Instance | Shows |
|---|---|---|
| `plug_sfp` | SFP+; two optical modules, a copper, an unrecognized and a corrupt one; bus failures, crashes | safety, termination of the scan, detection of insertion and removal, implements `PortReport` |
| `plug_qsfp` | QSFP28 with reset; monitored, copper, corrupt module | the retry path with its reset recovers; a module in service is never reset; a whole scan has the outcomes `ScanOutcomes` lists, and no others |
| `plug_fast_swap` | QSFP+ with reset, exchanges between polls and within a scan | what still holds then: the attributes of `pm_parse` are of one module, the A2 page with its columns of one, possibly the one put in its place during the scan; identity only lost as absent; no reset in service |
| `pmd_failover` | two processes, one SFP+ cage, good and corrupt module, bus failures, crashes | one scanner; nothing unpublished is unflagged; rows, `cur_hw` and SFP+ lasers converge |
| `pmd_drops` | one process, two cages, sessions lost at any point | `cur_hw` never precedes the first `pm_info` of any interface |
| `rows` | two subsystems that may both list a pluggable interface and one that is not, YAML failures, restarts, a lock that comes and goes | the tables agree with the rows whenever ports are scanned or published |
| `sim` | one interface of one subsystem, good and corrupt module, commands, YAML failures, crashes | a port without the flag has nothing to tell the row that has its name now; presence reaches that row in the end; commands are answered |
| `bytes` | each one-byte error in two pages; buffers of 0 to 9 and of 128 bytes; all text fields of 2 and 4 bytes over NUL, space and a letter; sequences of readings around whole numbers | the routines agree with their reference definitions |

Four runs state what a document, a test or a comment says, and TLC finds that
the code does otherwise:

| Run | What happens |
|---|---|
| `plug_qsfp_laser` | a QSFP module put into an empty cage while `hw_enable` is false is identified and keeps its lasers on: `pm_configure_port` is not called after identification. The run starts from an empty cage (`EmptyCageSpec`) |
| `plug_stale_dom` | monitoring data survive the removal of the module: `pm_delete_all_data` knows only `ovs_module_columns` |
| `pmd_lost_update` | a transaction lost with the session is never repeated: the flags were cleared before the commit |
| `pmd_two_scanners` | the lock is looked at only at the top of `pmd_run`: a pass under way continues after the lock is lost |

Observations from modelling that other runs bound rather than refute:

* the monitoring data of a removed module also stay beside the identity of the
  next one, if that has no monitoring: `NoMixture` speaks of the DOM attributes
  of a record with an A2 page only, and `plug_stale_dom` shows the reason;
* a module inserted over another by `ops-pmd/sim` is not read, as in a fast
  swap: `PresenceReachesRow` is about presence, not about which module it is;
* with sessions that are lost `cur_hw` may never be set: `cur_hw_set` is set
  with the transaction that fails (`ovsdb_access.c:658`), as in
  `pmd_lost_update`;
* a module exchanged between two polls is never read (`plug.c:300`);
  `plug_fast_swap` says what holds all the same;
* a stored "0.50" hides a new reading of 0, because `SET_FLOAT_STRING` compares
  with `strtol` of the old string (`pmd.h.in:241`); `DriftBounded` says how far
  a column can be off, and `TemperatureIsCurrent` that temperatures never are,
  since they never have a fraction;
* `tx_power_high_alarm` is published if `rx_power_high_alarm` is set
  (`ovsdb_access.c:386`); `PublishesWhatIsSet` shows that it makes no
  difference, as the two are only set together;
* a subsystem whose YAML files fail is not read again while its row stays;
* a malformed `ops-pmd/sim` command is never answered (`pmd.c:155`).

**Bounds.** Both retry counts have the value of the code (2). The modules of a
run cover each way a scan can end: identified with an A2 page, identified
without, readable but unrecognized, corrupt. Two modules are enough for a
mixture; more only repeat it. Of the two monitored modules of `plug_sfp` and
`plug_fast_swap` one reads 0.5 mW and the other none, the case in which
`SET_FLOAT_STRING` keeps the old fraction. Two processes are enough for a takeover, one
interface for what a row goes through, two for "every interface". Nothing else
is bounded: no counter grows. For reconciliation two subsystems are enough for
an interface to change hands or to be listed twice; `sim` adds scan, publication
and commands to one of each, since ports do not share state. The readings of
`bytes` include whole numbers and their neighbours in each unit; the sums are
checked for every byte value at every position. `pmd_drops` has one process, because what it
checks is the loss of a session and not competition; `pmd_two_scanners` has
two.

**Fairness.** `Plug`: weak fairness of starting a scan and of its steps. The
main loop (`pmd.c`, `main`) never waits without a timer (`pmd_wait`), and i2c
calls return. Nothing is assumed of people, bus or whoever restarts the daemon;
the liveness properties say under which of their behaviours they hold. `Pmd`:
weak fairness of a process's steps and of reconnecting, for the same reason,
and strong fairness of `GrantLock`, because the server queues the sessions that
wait for a lock. `Sim`: weak fairness of the steps of a pass and strong
fairness of serving the control socket, which every turn of the main loop does
after `pmd_run`, with or without the lock; a command can be served only between
passes, hence strong. `PresenceReachesRow` supposes that in the end row, list,
lock and module stay as they are. `Settled` is the hypothesis that each process in the end stays
down or stays connected, at least one does the latter, and the bus works.

## 4. Proofs

Every theorem holds for every value of the constants that the assumptions
admit: any set of modules with arbitrary pages, any processes, interfaces,
rows, subsystems, bytes. Every safety property of a run of section 3 that
passes, invariant or action property, is stated by a theorem; `PROJECT.json`
gives the pairs. Three carry a hypothesis, explained below.

### One cage

`PmPortProofs` has the facts about `pm_parse` and the operations on a record:
what each leaves behind has the type of a port, attributes of one module or
none, flags that agree with the attributes, and columns that agree with the A2
page, whatever they were before (`SetFloatStringNear`). `PlugProofs` proves, with or
without reset line, bus failures and fast swaps:

* `TypeCorrect`, `OneModuleOnRecord`, `UnidentifiedIsRetried`,
  `RecordIsOfTheCage`, `RequestsAreServed`: the invariants of `plug_sfp`;
* `IdentityIsKept`, `ServiceIsNotReset`: the two action properties;
* `ScanImplementsReport`: the refinement of `PortReport`.

None of these is inductive by itself. That a module on record is not read
again, for instance, holds because the scan reaches `a0` only if the flags ask
for it, and because the flags ask for it only if no module is on record; both
must be carried through every step in between, the two writes of a reset
included. `ScanInv` adds `PointsMatch` (at `a0` and in a reset the serial ID is
wanted; the A2 request is pending exactly at `a2`, where a module is on record;
a daemon that is down has none) and `DomStored` (`DomServed` for the points
other than `idle`), and has `NoMixture` in its two parts: `OneParsed`, what
`pm_parse` wrote, and `OneMonitored`, the A2 page and its columns. The second
rests on the first, since a serial ID is read only into a record without an A2
page, and, without fast swaps, on `NeverMisreports`, since the page is that of
what the cage holds by then. `ScanInvariant` proves it with one lemma per kind of step.

`PlugContractProofs` proves `ScanIsOneStep` (`ScanKeepsContract`): a whole scan
leaves a record that `ScanOutcomes` lists for something the cage held
meanwhile. `Pmd` takes the scan of a cage as one step on the strength of this.
`ContractInv` adds to `ScanInv` what has become of the record since the scan
began (`RecordSinceEntry`: nothing, up to `a2`; there, what `Identify` makes of
it for a module that was seen) and that a retry on a working bus finds the
reset cleared (`ResetCleared`), without which a failed read could not be laid
to the module. Hypothesis: `~FastSwap`. A module exchanged within a scan can
give its A2 page to the serial ID of another, and no scan in one step does
that.

### Processes and the database

`PmdProofs` proves, for any number of processes that crash and sessions that
are lost at any point: `LoopTypeCorrect`, `ReadyAfterPublication`
(`ReadyMeansPublished`) and `DatabaseOfOneModule`, which no run states: what
`pm_parse` found is in a row for one module only, and beside a module that
promises monitoring data there are only its own, or those of a failed read.
Beside other modules, and in an empty cage, monitoring data may be left over
from an earlier module (`plug_stale_dom`), and the theorem says nothing of them. `cur_hw` is written in the same transaction as the first
`pm_info`, but by whichever process comes first, and only flagged ports are
written. `LoopInv` therefore carries that a pass leaves a connector in every
port it has scanned (`Scanned`), and that such a port is flagged until the first
transaction of its process (`FirstPass`).

`LockExcludes` (`OneScanner`) and `NothingUnflagged` (`UnpublishedIsFlagged`)
suppose `~Drops`: the sessions of live processes last, crashes are allowed.
They are false otherwise, as `pmd_two_scanners` and `pmd_lost_update` show.
`LockInv` adds `Standing`: whoever has ports, or is in a pass, has the lock, and
whoever has the lock has a session. A process that takes over has no ports, so
there is never a second record of a cage that a row could disagree with.

### Rows and the simulation build

`RowsProofs` proves `RowsTypeCorrect`, `TablesFollowRows`, `ListedPortsExist`
and `RequestsReachHardware`. These speak of the end of a pass; `RowsInv` says
what holds in its middle, from the time the entries without a row are dropped
(`Reconciled`): each port and each subsystem entry has the uuid of its row, and
the subsystems that are not in `todo` any more have their ports (`Served`).
`YamlSound` ties what was parsed to the files, also over passes;
`Configured` and `Requested` tie the hardware to the record and the record to
the row. `FreshUuid` shows that a new row always finds a uuid that no port
holds.

`SimProofs` extends this to `Sim` (`SimInv`): scan, publication and commands
write into a port but leave its uuid and its request alone, so the promises of
reconciliation still hold (`SimKeepsPromises`). `NothingOwed`
(`UnflaggedIsPublished`) says that a port without the flag has nothing to tell
its row. That holds in a pass, where rows and ports match; between passes a row
may have been replaced. What is inductive is `Told`: whenever the uuids of a
port and of the row of its name agree, an unflagged port is published there. A
new row has a uuid no port holds, a new port has no connector yet, a scan flags
what it changes, and a publication writes before it clears the flag.

### Bytes

`PmBytesProofs` is about sequences of readings. `ColumnInv` says that a printed
temperature is a whole number of degrees: that is what makes the comparison
with `strtol` exact, and `TemperatureNeverStale` follows. Other columns stay
near their reading (`DriftIsBounded`), and the columns published are those set
(`MapIsComplete`).

`PmPageProofs` is about loops, which the model writes as recursive functions,
so their values are found by induction. The induction is over a set: one that
holds the start of an interval and with `i - 1` also `i` holds all of it,
because otherwise the naturals that are missing have a least element
(`IntervalInduction`). `Recursion` shows in the same way that a recursion over
an interval has a solution. From these:

* `ErrorsAreDetected`: `pm_byte_sum` computes the low byte of the sum, one
  changed byte moves the sum by less than 256, and the two ranges with their
  check bytes cover the page; a page of ones has a wrong first sum;
* `TextIsKept`: the loop ends at the last character that is not a space, or at
  the first; what it cuts off are spaces;
* `HexIsFaithful`: the text of `k` bytes ends where `PlaceInWords` puts the
  digits of byte `k`, so nothing overlaps, it fits in `AsciiSize`, and each pair
  of digits gives back its byte, also a negative one.

### Assumptions

All are in the module that declares the constants, and TLC evaluates them in
the runs: `A0` maps modules to pages, `A2` to 16 bit readings off the rounding
boundary (`ReadingsAssumption`); `NULL`, `Ones` and `Empty` are distinct from
what they are compared with, records included (`NullRecordAssumption`,
`NullRowAssumption`); the cages are of the three known types, and only QSFP
cages have a reset; files describe interfaces that have names
(`RowsAssumption`). In `PmBytes`, pages have right check bytes, by the sum of
the bytes and not by the routine under test (`PagesAssumption`); buffers are
sequences of `char`, OUIs three bytes, text fields not empty, temperatures a
signed and an unsigned byte, readings 16 bit off the rounding boundary.

### Model-checked only

Liveness, since fairness is beyond the prover: `ScanTerminates`,
`DetectsInsertion`, `DetectsRemoval` (`Plug`), `Converges`, `BecomesReady`,
`LaserConverges` (`Pmd`), `PresenceReachesRow`, `Answered` (`Sim`). What the
four runs refute is refuted by a counterexample of TLC.

## 5. Not modelled

* garbage that passes both checksums, and a garbled A2 page (it has none);
* connector types other than the three: the scan returns at once and the port
  never gets a record; cages that are not pluggable have no port at all;
* split ports: nothing sets `split` or `hw_enable_subport`;
* logging, option parsing, what the debug dump prints;
* allocations that fail: the code does not look at most of them;
* `pm_create_a2_devices`, which has no caller, and what the YAML library parses;
* rows that come and go under several processes at once: `Pmd` has several
  processes on fixed rows, `Rows` and `Sim` one process on changing rows;
* the timer: `pmd_wait` gives `PM_INTERVAL` to `poll_timer_wait_at`, which
  takes a point in time (an OVS function, outside the repository): the timer is
  always due. The models only need the loop to turn.

## 6. Plan

1. The abstract side of `Pmd`: which of its steps a reader of the database sees,
   as a specification that `Pmd` is proved to implement.
2. `PresenceReachesRow` and `Converges` have safety parts (a pass that ends
   undisturbed leaves row and cage in agreement) that can be stated as action
   properties and proved.
3. The action properties of `Plug` for the composed simulation.
