---------------------------- MODULE PlugContract ----------------------------
(***************************************************************************)
(* What one whole scan of Plug amounts to.  Pmd takes the scan of a cage   *)
(* as a single step with the outcomes PmPort!ScanOutcomes allows; here     *)
(* Plug runs beside three history variables that remember how the scan     *)
(* began and what happened to the cage during it.                          *)
(***************************************************************************)
EXTENDS Plug

VARIABLES entry,      \* the record when the scan began
          seen,       \* what the cage has held since
          disturbed   \* an i2c operation may have failed since

contract_vars == <<vars, entry, seen, disturbed>>

CInit ==
  /\ Init
  /\ entry = port
  /\ seen = {}
  /\ disturbed = FALSE

InScan == pc \in ScanPoints

CNext ==
  /\ Next
  /\ IF pc' \in ScanPoints
     THEN /\ entry' = IF InScan THEN entry ELSE port
          /\ seen' = (IF InScan THEN seen ELSE {}) \cup {slot'}
          /\ disturbed' = ((InScan /\ disturbed) \/ bus' = "flaky")
     ELSE IF InScan
          THEN UNCHANGED <<entry, seen, disturbed>>
          ELSE entry' = port' /\ seen' = {} /\ disturbed' = FALSE

(* The fairness of Plug.                                                   *)
CSpec ==
  /\ CInit
  /\ [][CNext]_contract_vars
  /\ WF_vars(StartScan) /\ WF_vars(ScanStep)

(* ScanKeepsContract: when pm_read_module_state returns, the record it     *)
(* leaves is one that a scan in a single step could have left, for         *)
(* something the cage held during the call.  If nothing disturbed the call *)
(* it is the outcome for what was there all along, also when the module    *)
(* had been left in reset and had to be reset first.                       *)
ScanKeepsContract ==
  [][InScan /\ pc' = "idle" =>
       /\ \E c \in seen : port' \in ScanOutcomes(entry, Cage, c, TRUE)
       /\ (~disturbed /\ seen = {slot})
            => port' \in ScanOutcomes(entry, Cage, slot, FALSE)]_contract_vars
=============================================================================
