-------------------------------- MODULE MCSim -------------------------------
(***************************************************************************)
(* SFP+ cages, all described by the files of every subsystem; a good and a *)
(* corrupt module.                                                         *)
(***************************************************************************)
EXTENDS Sim, TLC

CONSTANTS i1, i2, base, ext, sr, bad

SrPage ==
  [sums_ok |-> TRUE, copper_pigtail |-> FALSE, rate_10g |-> TRUE,
   cable_technology_active |-> FALSE, length_copper |-> 0,
   compliance |-> {"enet_10gbase_sr"}, ext_compliance_code |-> "UNSPECIFIED",
   diag_monitor_type |-> {"implemented_digital", "internally_calibrated",
                          "power_measurement_type"}]

MCA0 == [m \in Modules |-> [SrPage EXCEPT !.sums_ok = m # bad]]

MCA2 == [m \in Modules |-> 5000]

MCHwDesc == [s \in Subs |-> Names]
=============================================================================
