------------------------------- MODULE MCPmd --------------------------------
(***************************************************************************)
(* Two processes, one or two SFP+ cages, and the modules to put in them.   *)
(***************************************************************************)
EXTENDS Pmd, TLC

CONSTANTS p1, p2, i1, i2, sr, dac, bad

DacPage ==
  [sums_ok |-> TRUE, copper_pigtail |-> TRUE, rate_10g |-> TRUE,
   cable_technology_active |-> FALSE, length_copper |-> 3,
   compliance |-> {}, ext_compliance_code |-> "UNSPECIFIED",
   diag_monitor_type |-> {}]

SrPage ==
  [DacPage EXCEPT
     !.copper_pigtail = FALSE,
     !.compliance = {"enet_10gbase_sr"},
     !.diag_monitor_type = {"implemented_digital", "internally_calibrated",
                            "power_measurement_type"}]

Pages ==
  (sr :> SrPage) @@ (dac :> DacPage) @@ (bad :> [DacPage EXCEPT !.sums_ok = FALSE])

MCA0 == [m \in Modules |-> Pages[m]]

MCA2 == [m \in Modules |-> 5000]

MCCage == [i \in Intfs |-> "SFP_PLUS"]
=============================================================================
