----------------------------- MODULE PortReport -----------------------------
(***************************************************************************)
(* What ops-pmd promises about one cage, without saying how: the report    *)
(* that ends up in pm_info against what is in the cage.  Plug implements   *)
(* it.                                                                     *)
(*                                                                         *)
(* report is "none" before the first scan, then "absent", "unknown" (a     *)
(* module nothing is known of) or the module itself.                       *)
(***************************************************************************)
CONSTANTS Modules, Empty,
          Valid(_)   \* the module's serial ID page is intact

VARIABLES slot, bus, report

vars == <<slot, bus, report>>

Init ==
  /\ slot \in Modules \cup {Empty}
  /\ bus = "good"
  /\ report = "none"

Insert(m) == slot = Empty /\ slot' = m /\ UNCHANGED <<bus, report>>

Remove == slot # Empty /\ slot' = Empty /\ UNCHANGED <<bus, report>>

BusChanges ==
  /\ bus' \in {"good", "flaky"} \ {bus}
  /\ UNCHANGED <<slot, report>>

(* Absence is reported of an empty cage, or if presence cannot be read.    *)
ReportAbsent ==
  /\ slot = Empty \/ bus = "flaky"
  /\ report' = "absent"
  /\ UNCHANGED <<slot, bus>>

(* An identified module never becomes "unknown" again.                     *)
ReportUnknown ==
  /\ report \in {"none", "absent"}
  /\ report' = "unknown"
  /\ UNCHANGED <<slot, bus>>

(* A module is reported when it is in the cage, its page is intact, and no *)
(* other module is on record.                                              *)
ReportModule ==
  /\ report \in {"none", "absent", "unknown"}
  /\ slot \in Modules
  /\ Valid(slot)
  /\ report' = slot
  /\ UNCHANGED <<slot, bus>>

Restart == report' = "none" /\ UNCHANGED <<slot, bus>>

Next ==
  \/ \E m \in Modules : Insert(m)
  \/ Remove \/ BusChanges
  \/ ReportAbsent \/ ReportUnknown \/ ReportModule \/ Restart

Spec == Init /\ [][Next]_vars
=============================================================================
