------------------------------- MODULE MCPlug -------------------------------
(***************************************************************************)
(* Modules to put in the cage of Plug.  For each cage there are modules    *)
(* with monitoring data, without, and one whose serial ID page fails its   *)
(* checksums.                                                              *)
(***************************************************************************)
EXTENDS Plug, TLC

CONSTANTS sr, dark, dac, odd, bad,   \* SFP+
          sr4, cr4, clr4, bad4       \* QSFP+ and QSFP28

BlankPage ==
  [sums_ok |-> TRUE, copper_pigtail |-> FALSE, rate_10g |-> TRUE,
   cable_technology_active |-> FALSE, length_copper |-> 0,
   compliance |-> {}, ext_compliance_code |-> "UNSPECIFIED",
   diag_monitor_type |-> {}]

SrPage ==
  [BlankPage EXCEPT
     !.compliance = {"enet_10gbase_sr"},
     !.diag_monitor_type = {"implemented_digital", "internally_calibrated",
                            "power_measurement_type"}]

DacPage == [BlankPage EXCEPT !.copper_pigtail = TRUE, !.length_copper = 3]

Sr4Page ==
  [BlankPage EXCEPT !.compliance = {"enet_40gbase_sr4"},
                    !.diag_monitor_type = {"average_input_optical_power"}]

Cr4Page == [BlankPage EXCEPT !.compliance = {"enet_40gbase_cr4"}]

Clr4Page ==
  [Sr4Page EXCEPT !.compliance = {"enet_extended"},
                  !.ext_compliance_code = "CLR4"]

Corrupt(page) == [page EXCEPT !.sums_ok = FALSE]

Pages ==
  (sr :> SrPage) @@ (dark :> SrPage) @@ (dac :> DacPage)
    @@ (odd :> BlankPage) @@ (bad :> Corrupt(SrPage))
    @@ (sr4 :> Sr4Page) @@ (cr4 :> Cr4Page) @@ (clr4 :> Clr4Page)
    @@ (bad4 :> Corrupt(Sr4Page))

MCA0 == [m \in Modules |-> Pages[m]]

(* The optical modules read 0.5 mW, except dark and clr4, which read none: *)
(* a reading of 0.00 after one of 0.50 is taken for no change.             *)
MCA2 == [m \in Modules |-> IF m \in {sr, sr4} THEN 5000 ELSE 0]

(* The daemon starts with nothing in the cage.                             *)
EmptyCageSpec == Init /\ slot = Empty /\ [][Next]_vars
=============================================================================
