-------------------------------- MODULE PmDom -------------------------------
(***************************************************************************)
(* Digital optical monitoring: when the A2 page is asked for, and what is  *)
(* made of it (src/src/pm_dom.c and the SET_FLOAT_STRING and               *)
(* SET_FLAG_STRING macros of src/include/pmd.h.in).                        *)
(*                                                                         *)
(* pm_set_a2 fills some dozens of columns, all with the same two macros:   *)
(* alarm flags, which always take the new value, and readings, which are   *)
(* printed with two decimals unless the old string already "equals" the    *)
(* new value.  One column of each sort stands for all of them.             *)
(***************************************************************************)
EXTENDS PmDetect, Integers

CONSTANTS A2,    \* A2[m] is the power reading of module m, in 0.0001 units
          Ones   \* the page pm_set_a2 is given when the A2 read has failed

(* Ones is a page of 0xff bytes, so every 16 bit reading of it is 65535.   *)
Reading(page) == IF page = Ones THEN 65535 ELSE A2[page]

Dom == [flags : Modules \cup {Ones, NULL}, power : Nat \cup {NULL}]

NoDom == [flags |-> NULL, power |-> NULL]

(* set_a2_read_request: does this page promise DOM data we can use?        *)
DomAvailable(cage, page) ==
  \/ /\ cage = "SFP_PLUS"
     /\ {"implemented_digital", "internally_calibrated",
         "power_measurement_type"} \subseteq page.diag_monitor_type
     /\ "addr_change_required" \notin page.diag_monitor_type
  \/ /\ cage # "SFP_PLUS"
     /\ "average_input_optical_power" \in page.diag_monitor_type

(***************************************************************************)
(* asprintf("%4.2f") of a reading, in hundredths.  A reading half way      *)
(* between two of them is rounded as its float falls, up or down;          *)
(* PmPort's assumption on A2 keeps such readings out.                      *)
(***************************************************************************)
TwoDecimals(raw) == (raw + 50) \div 100

(* A slip: the new value is truncated as well.                             *)
SetFloatStringTruncating(old, raw) ==
  IF old = NULL \/ old \div 100 # raw \div 10000
  THEN TwoDecimals(raw)
  ELSE old

(***************************************************************************)
(* SET_FLOAT_STRING compares strtol() of the old string, which stops at    *)
(* the decimal point, with the new value.                                  *)
(***************************************************************************)
SetFloatString(old, raw) ==
  IF old = NULL \/ (old \div 100) * 10000 # raw
  THEN TwoDecimals(raw)
  ELSE old

SetDom(dom, page) ==
  [flags |-> page, power |-> SetFloatString(dom.power, Reading(page))]

(* How far the printed string may be from its reading: half a hundredth,   *)
(* or less than a unit above a reading that is a whole number, because     *)
(* then the fraction of an earlier reading may have been kept.             *)
Near(printed, raw) ==
  LET error == 100 * printed - raw
  IN  \/ error \in -50..50
      \/ raw % 10000 = 0 /\ error \in 0..9900
=============================================================================
