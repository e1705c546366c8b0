-------------------------------- MODULE Plug --------------------------------
(***************************************************************************)
(* The scan of one cage at the granularity of its i2c operations           *)
(* (pm_read_module_state and what it calls, src/src/plug.c), while modules *)
(* come and go, the bus misbehaves, the daemon crashes and restarts, and   *)
(* the laser is switched on and off through the database.                  *)
(*                                                                         *)
(* The build modelled is the one for hardware (PLATFORM_SIMULATION not     *)
(* defined).  One i2c operation is one step: the cage may change between   *)
(* any two of them, including during the sleeps of a reset.                *)
(***************************************************************************)
EXTENDS PmPort

CONSTANTS Cage,      \* module_device->connector, from the YAML files
          HasReset,  \* the cage has a reset signal (QSFP cages only)
          FastSwap,  \* a module may be exchanged between two scans
          BusFails   \* i2c operations may fail

ASSUME CageAssumption ==
  /\ Cage \in Connectors
  /\ HasReset \in BOOLEAN /\ FastSwap \in BOOLEAN /\ BusFails \in BOOLEAN
  /\ HasReset => Cage # "SFP_PLUS"

VARIABLES
  slot,            \* what is in the cage
  held,            \* the reset line is asserted
  laser,           \* the transmitter is enabled
  bus,             \* "good", or "flaky": any operation may fail
  port,            \* the daemon's pm_port_t
  pc,              \* where the daemon is: "down", "idle" or in the scan
  retry_count,     \* retry_count of pm_read_module_state
  presence_retry   \* retry_count of pm_get_presence

hw == <<slot, held, laser, bus>>
counts == <<retry_count, presence_retry>>
vars == <<slot, held, laser, bus, port, pc, retry_count, presence_retry>>

RetryCount == 2   \* both retry_count variables start at 2

ScanPoints == {"presence", "a0", "set_reset", "clear_reset", "a2"}

(* One type invariant: every variable stays in its range.                  *)
TypeOK ==
  /\ slot \in Modules \cup {Empty}
  /\ held \in BOOLEAN /\ laser \in BOOLEAN
  /\ bus \in {"good", "flaky"}
  /\ port \in Port
  /\ pc \in {"down", "idle"} \cup ScanPoints
  /\ retry_count \in 0 .. RetryCount
  /\ presence_retry \in 0 .. RetryCount

(***************************************************************************)
(* i2c operations.  An operation on the module itself reaches it only when *)
(* there is one and it is not held in reset; one on the CPLD always does.  *)
(***************************************************************************)
MayFail == bus = "flaky"

Reachable == slot # Empty /\ ~held

(* A slip: the checksums are not verified.                                 *)
PageUnverified == Reachable

(* sfpp_sum_verify of the page in the module.                              *)
PageIntact == Reachable /\ A0[slot].sums_ok

(***************************************************************************)
(* pm_configure_port.  The SFP transmit disable is a CPLD signal; the QSFP *)
(* one is a register of the module, written only if the module is known to *)
(* be there and to be optical.  A failed write is only logged.             *)
(***************************************************************************)
TxDisableReaches(p) ==
  \/ Cage = "SFP_PLUS"
  \/ p.present /\ p.optical /\ Reachable

pm_configure_port(p) ==
  \/ TxDisableReaches(p) /\ laser' = p.hw_enable
  \/ (MayFail \/ ~TxDisableReaches(p)) /\ UNCHANGED laser

(* pm_clear_reset: a module that leaves reset has its transmitters on.     *)
pm_clear_reset ==
  \/ /\ HasReset
     /\ held' = FALSE
     /\ laser' = (laser \/ (held /\ slot # Empty))
  \/ (MayFail \/ ~HasReset) /\ UNCHANGED <<held, laser>>

(***************************************************************************)
(* The daemon.  The transmitters of a QSFP cage are in its module: without *)
(* a module none is on.                                                    *)
(***************************************************************************)
Init ==
  /\ slot \in Modules \cup {Empty}
  /\ held \in BOOLEAN /\ (held => HasReset)
  /\ laser \in BOOLEAN /\ (laser => slot # Empty \/ Cage = "SFP_PLUS")
  /\ bus = "good"
  /\ port = NewPort(FALSE)
  /\ pc = "down"
  /\ retry_count = 0 /\ presence_retry = 0

(***************************************************************************)
(* ovsdb_if_intf_create.  Only one of its two writes is ever made: an SFP  *)
(* cage has no reset, and a QSFP module is not yet known to be present.    *)
(***************************************************************************)
Create(hw_enable) ==
  /\ pc = "down"
  /\ port' = NewPort(hw_enable)
  /\ IF Cage = "SFP_PLUS"
     THEN pm_configure_port(port') /\ UNCHANGED held
     ELSE pm_clear_reset
  /\ pc' = "idle"
  /\ UNCHANGED <<slot, bus, counts>>

(* ovsdb_if_intf_modify, when the requested hw_enable has changed.         *)
Modify(hw_enable) ==
  /\ pc = "idle"
  /\ hw_enable # port.hw_enable
  /\ port' = [port EXCEPT !.hw_enable = hw_enable]
  /\ pm_configure_port(port')
  /\ UNCHANGED <<slot, held, bus, pc, counts>>

(* pm_read_port_state is called again, PM_INTERVAL later.                  *)
StartScan ==
  /\ pc = "idle"
  /\ pc' = "presence"
  /\ retry_count' = RetryCount
  /\ presence_retry' = RetryCount
  /\ UNCHANGED <<hw, port>>

(* Back to the main loop; the counters are locals and cease to exist.      *)
Return ==
  /\ pc' = "idle"
  /\ retry_count' = 0 /\ presence_retry' = 0

(* pm_get_presence: a failed read is repeated, and in the end means "no".  *)
PresenceReadFails ==
  /\ pc = "presence"
  /\ MayFail
  /\ presence_retry > 0
  /\ presence_retry' = presence_retry - 1
  /\ UNCHANGED <<hw, port, pc, retry_count>>

SeesAbsent ==
  /\ pc = "presence"
  /\ slot = Empty \/ (MayFail /\ presence_retry = 0)
  /\ port' = MarkAbsent(port)
  /\ Return
  /\ UNCHANGED hw

SeesPresent ==
  /\ pc = "presence"
  /\ slot # Empty
  /\ \/ /\ A0Wanted(port)
        /\ pc' = "a0"
        /\ UNCHANGED counts
     \/ /\ ~A0Wanted(port) /\ port.a2_read_requested
        /\ pc' = "a2"
        /\ UNCHANGED counts
     \/ /\ ~A0Wanted(port) /\ ~port.a2_read_requested
        /\ Return
  /\ UNCHANGED <<hw, port>>

(* pm_read_a0, sfpp_sum_verify, pm_parse and set_a2_read_request.          *)
ReadA0 ==
  /\ pc = "a0"
  /\ PageIntact
  /\ port' = Identify(port, Cage, slot)
  /\ IF port'.a2_read_requested
     THEN pc' = "a2" /\ UNCHANGED counts
     ELSE Return
  /\ UNCHANGED hw

(* The read fails, or what it returns does not match its checksums.        *)
A0Fails == MayFail \/ ~PageIntact

(* A slip: the retries are not limited.                                    *)
RetryA0Unlimited ==
  /\ pc = "a0"
  /\ A0Fails
  /\ retry_count' = retry_count - 1
  /\ pc' = "set_reset"
  /\ UNCHANGED <<hw, port, presence_retry>>

RetryA0 ==
  /\ pc = "a0"
  /\ A0Fails
  /\ retry_count # 0
  /\ retry_count' = retry_count - 1
  /\ pc' = "set_reset"
  /\ UNCHANGED <<hw, port, presence_retry>>

GiveUpA0 ==
  /\ pc = "a0"
  /\ A0Fails
  /\ retry_count = 0
  /\ port' = MarkUnknown(port)
  /\ Return
  /\ UNCHANGED hw

(* A slip: the reset is asserted and not cleared.                          *)
SetResetOnly ==
  /\ pc = "set_reset"
  /\ \/ HasReset /\ held' = TRUE
     \/ (MayFail \/ ~HasReset) /\ UNCHANGED held
  /\ pc' = "presence"
  /\ presence_retry' = RetryCount
  /\ UNCHANGED <<slot, laser, bus, port, retry_count>>

(* pm_reset_port: assert the reset, wait 1 ms, clear it, wait 10 ms.       *)
SetReset ==
  /\ pc = "set_reset"
  /\ \/ HasReset /\ held' = TRUE
     \/ (MayFail \/ ~HasReset) /\ UNCHANGED held
  /\ pc' = "clear_reset"
  /\ UNCHANGED <<slot, laser, bus, port, counts>>

(* ... and go back to the presence read, with its own retries renewed.     *)
ClearReset ==
  /\ pc = "clear_reset"
  /\ pm_clear_reset
  /\ pc' = "presence"
  /\ presence_retry' = RetryCount
  /\ UNCHANGED <<slot, bus, port, retry_count>>

(* pm_read_a2, on what is left of the retries of the A0 read.              *)
ReadA2 ==
  /\ pc = "a2"
  /\ Reachable
  /\ port' = pm_set_a2(port, slot)
  /\ Return
  /\ UNCHANGED hw

(* Two slips: the retry is not counted, or goes the way of the A0 retry.   *)
RetryA2Forever ==
  /\ pc = "a2"
  /\ MayFail \/ ~Reachable
  /\ UNCHANGED vars

RetryA2WithReset ==
  /\ pc = "a2"
  /\ MayFail \/ ~Reachable
  /\ retry_count # 0
  /\ retry_count' = retry_count - 1
  /\ pc' = "set_reset"
  /\ UNCHANGED <<hw, port, presence_retry>>

RetryA2 ==
  /\ pc = "a2"
  /\ MayFail \/ ~Reachable
  /\ retry_count # 0
  /\ retry_count' = retry_count - 1
  /\ UNCHANGED <<hw, port, pc, presence_retry>>

GiveUpA2 ==
  /\ pc = "a2"
  /\ MayFail \/ ~Reachable
  /\ retry_count = 0
  /\ port' = pm_set_a2(port, Ones)
  /\ Return
  /\ UNCHANGED hw

(* The process dies and its memory with it; the hardware stays as it is.   *)
Crash ==
  /\ pc # "down"
  /\ pc' = "down"
  /\ port' = NewPort(FALSE)
  /\ retry_count' = 0 /\ presence_retry' = 0
  /\ UNCHANGED hw

(***************************************************************************)
(* The cage.  Without FastSwap a module is replaced only once its removal  *)
(* has been noticed.                                                       *)
(***************************************************************************)
Insert(m) ==
  /\ slot = Empty
  /\ FastSwap \/ ~port.present
  /\ slot' = m
  /\ laser' = (laser \/ Cage # "SFP_PLUS")
  /\ UNCHANGED <<held, bus, port, pc, counts>>

Remove ==
  /\ slot # Empty
  /\ slot' = Empty
  /\ laser' = (laser /\ Cage = "SFP_PLUS")
  /\ UNCHANGED <<held, bus, port, pc, counts>>

BusDegrades ==
  /\ BusFails
  /\ bus = "good"
  /\ bus' = "flaky"
  /\ UNCHANGED <<slot, held, laser, port, pc, counts>>

BusSettles ==
  /\ bus = "flaky"
  /\ bus' = "good"
  /\ UNCHANGED <<slot, held, laser, port, pc, counts>>

ScanStep ==
  \/ PresenceReadFails \/ SeesAbsent \/ SeesPresent
  \/ ReadA0 \/ RetryA0 \/ GiveUpA0 \/ SetReset \/ ClearReset
  \/ ReadA2 \/ RetryA2 \/ GiveUpA2

Daemon ==
  \/ \E hw_enable \in BOOLEAN : Create(hw_enable) \/ Modify(hw_enable)
  \/ StartScan \/ ScanStep \/ Crash

Environment ==
  \/ \E m \in Modules : Insert(m)
  \/ Remove \/ BusDegrades \/ BusSettles

Next == Daemon \/ Environment

(***************************************************************************)
(* Fairness: a running daemon keeps scanning, since its main loop waits at *)
(* most PM_INTERVAL.  Nothing is assumed of modules, bus, operator or of   *)
(* whoever restarts the daemon.                                            *)
(***************************************************************************)
Spec == Init /\ [][Next]_vars /\ WF_vars(StartScan) /\ WF_vars(ScanStep)

(***************************************************************************)
(* Safety.                                                                 *)
(***************************************************************************)

(* NoMixture: whatever the order of exchanges, retries and failures, the   *)
(* attributes of pm_parse (connector, status, speed, cable, vendor data)   *)
(* are those of one module whose checksums match, or there are none, and   *)
(* then no A2 page either: pm_delete_all_data and pm_parse between them    *)
(* overwrite every one of them.  An A2 page on record is the page of that  *)
(* same module, or of ones if it could not be read, and the DOM attributes *)
(* are those of that page, up to a fraction kept by SET_FLOAT_STRING.      *)
(* With FastSwap the page may be that of the module which was put in the   *)
(* place of the identified one between the two reads of a scan.  Not       *)
(* claimed of the DOM attributes of a record without an A2 page: they may  *)
(* be those of a module removed before (AbsentIsBare fails).               *)
NoMixture ==
  /\ ParsedFromOneModule(port, Cage)
  /\ MonitoredFrom(port, IF FastSwap THEN Modules ELSE {port.id})

(* RetriesUntilIdentified: the daemon stops reading the serial ID exactly  *)
(* when it has identified the module; a present module that is not         *)
(* identified is reported "unknown" and stays marked for another try, and  *)
(* a cage thought empty reports no module.  (present and retry are two     *)
(* flags with several writers in pm_read_module_state, and retry is not    *)
(* cleared on removal.)                                                    *)
RetriesUntilIdentified == FlagsTellTheReport(port)

(* DomServed: when the scan is over, a module that promises monitoring     *)
(* data has its A2 page stored - its own or, if it could not be read, the  *)
(* page of ones - and no request is left for a later scan to serve from    *)
(* another module.                                                         *)
DomServed ==
  pc = "idle" =>
    /\ ~port.a2_read_requested
    /\ (port.id # NULL /\ DomAvailable(Cage, A0[port.id]))
         => port.a2 \in {Ones} \cup (IF FastSwap THEN Modules ELSE {port.id})

(* NeverMisreports: if removals are noticed before the next insertion, a   *)
(* module on record is the one in the cage, or has just been pulled.       *)
NeverMisreports ==
  ~FastSwap /\ port.id # NULL => slot \in {port.id, Empty}

(* IdentityLostOnlyAsAbsent: an identified module stays on record, however *)
(* the bus behaves, until the daemon has reported its absence (or died):   *)
(* no step turns it into "unknown" or into another module.                 *)
IdentityLostOnlyAsAbsent ==
  [][port.id # NULL =>
       \/ port'.id = port.id
       \/ port'.connector = "absent"
       \/ pc' = "down"]_vars

(* NoResetInService: the retry path resets a module only while it is not   *)
(* identified; a module in service is never put in reset by a scan.        *)
NoResetInService == [][~held /\ held' => port.id = NULL]_vars

(* LaserObeys: the transmitter of an identified optical module is on       *)
(* exactly if hw_enable asks for it, as pm_configure_port set it.          *)
LaserObeys ==
  pc = "idle" /\ port.id # NULL /\ port.optical => laser = port.hw_enable

(* AbsentIsBare: the record of an empty cage holds connector and           *)
(* connector_status and nothing else.                                      *)
AbsentIsBare ==
  port.connector = "absent" =>
    /\ port.max_speed = NULL /\ port.cable = NULL
    /\ port.id = NULL /\ port.a2 = NULL
    /\ port.dom = NoDom

(***************************************************************************)
(* Liveness.                                                               *)
(***************************************************************************)

(* ScanTerminates: one call of pm_read_module_state returns, whatever      *)
(* fails and however often the module is exchanged during the call: its    *)
(* backward gotos are bounded by the two retry counts.                     *)
ScanTerminates == pc \in ScanPoints ~> pc \notin ScanPoints

(* ReportsModule: what the record must come to for module m.               *)
ReportsModule(m) ==
  IF A0[m].sums_ok
  THEN port.id = m
  ELSE port.id = NULL /\ port.connector = "unknown"

(* DetectsInsertion: if a module stays in the cage, the bus works and the  *)
(* daemon is up, it is identified in the end and stays so, whatever        *)
(* happened before: a reset left asserted by a failed write or a crash     *)
(* between the two writes, exhausted retries, spurious absence.            *)
DetectsInsertion ==
  \A m \in Modules :
    <>[](slot = m /\ bus = "good" /\ pc # "down") => <>[]ReportsModule(m)

(* DetectsRemoval: if the cage stays empty, the record in the end is       *)
(* "absent", also when no module was ever seen in it.                      *)
DetectsRemoval ==
  <>[](slot = Empty /\ bus = "good" /\ pc # "down")
    => <>[](port.connector = "absent")

(***************************************************************************)
(* Refinement: the scan keeps the promises of PortReport.                  *)
(***************************************************************************)
SumsMatch(m) == A0[m].sums_ok

PR == INSTANCE PortReport WITH Valid <- SumsMatch, report <- Report(port)

(* ImplementsPortReport: each i2c step maps to a step of the abstract      *)
(* report or to a stutter.                                                 *)
ImplementsPortReport == PR!Spec
=============================================================================
