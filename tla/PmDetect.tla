------------------------------ MODULE PmDetect ------------------------------
(***************************************************************************)
(* Identification of a pluggable module from its serial ID page            *)
(* (src/src/pm_detect.c).                                                  *)
(*                                                                         *)
(* A serial ID page is kept as the facts pm_parse and sfpp_sum_verify read *)
(* out of its 128 bytes; the vendor strings, which are only copied, are    *)
(* represented by the module the page belongs to.                          *)
(***************************************************************************)
EXTENDS Naturals

CONSTANTS NULL,     \* a C null pointer, the value of a deleted attribute
          Modules,  \* the pluggable modules that exist
          A0        \* A0[m] is the serial ID page stored in module m

(***************************************************************************)
(* The two code spaces of a page: the compliance bits and, for QSFP28, the *)
(* extended compliance code.                                               *)
(***************************************************************************)
ComplianceBits ==
  {"enet_1000base_sx", "enet_1000base_lx", "enet_1000base_cx",
   "enet_1000base_t", "enet_10gbase_sr", "enet_10gbase_lr",
   "enet_10gbase_lrm", "enet_10gbase_er",
   "enet_40gbase_lr4", "enet_40gbase_sr4", "enet_40gbase_cr4",
   "enet_extended"}

ExtCodes == {"UNSPECIFIED", "AOC", "SR4", "LR4", "ER4", "SR10", "CWDM4",
             "PSM4", "ACC", "CR4", "CLR4",
             "25GBASE_CR_CA_S", "25GBASE_CR_CA_N", "40GBASE_ER4",
             "4x10GBASE_SR", "40GBASE_PSM4"}

DiagBits == {"implemented_digital", "internally_calibrated",
             "power_measurement_type", "addr_change_required",
             "average_input_optical_power"}

SerialId ==
  [sums_ok : BOOLEAN,               \* CC_BASE and CC_EXT both match
   copper_pigtail : BOOLEAN,        \* connector byte is 0x21
   rate_10g : BOOLEAN,              \* bit_rate_nominal >= 0x64
   cable_technology_active : BOOLEAN,
   length_copper : Nat,
   compliance : SUBSET ComplianceBits,
   ext_compliance_code : ExtCodes,
   diag_monitor_type : SUBSET DiagBits]

Connectors == {"SFP_PLUS", "QSFP_PLUS", "QSFP28"}

(***************************************************************************)
(* What pm_parse derives from a page: the values it gives to connector,    *)
(* connector_status, max_speed (supported_speeds is always that one        *)
(* speed), cable_technology with cable_length, and to port->optical.       *)
(***************************************************************************)
Supported(connector, speed, optical) ==
  [connector |-> connector, connector_status |-> "supported",
   max_speed |-> speed, cable |-> NULL, optical |-> optical]

Unrecognized ==
  [connector |-> "unknown", connector_status |-> "unrecognized",
   max_speed |-> 0, cable |-> NULL, optical |-> FALSE]

(* The else-if chain of an SFP+ page, in the order the bits are tested.    *)
SfpType(bits) ==
  IF "enet_1000base_sx" \in bits THEN Supported("SFP_SX", 1000, TRUE)
  ELSE IF "enet_1000base_lx" \in bits THEN Supported("SFP_LX", 1000, TRUE)
  ELSE IF "enet_1000base_cx" \in bits THEN Supported("SFP_CX", 1000, FALSE)
  ELSE IF "enet_1000base_t" \in bits THEN Supported("SFP_RJ45", 1000, FALSE)
  ELSE IF "enet_10gbase_sr" \in bits THEN Supported("SFP_SR", 10000, TRUE)
  ELSE IF "enet_10gbase_lr" \in bits THEN Supported("SFP_LR", 10000, TRUE)
  ELSE IF "enet_10gbase_lrm" \in bits THEN Supported("SFP_LRM", 10000, TRUE)
  ELSE Unrecognized

(* The chain a QSFP+ page goes through, and a QSFP28 page whose            *)
(* enet_extended bit is clear.                                             *)
QsfpType(bits) ==
  IF "enet_40gbase_lr4" \in bits THEN Supported("QSFP_LR4", 40000, TRUE)
  ELSE IF "enet_40gbase_sr4" \in bits THEN Supported("QSFP_SR4", 40000, TRUE)
  ELSE IF "enet_40gbase_cr4" \in bits THEN Supported("QSFP_CR4", 40000, FALSE)
  ELSE Unrecognized

(* A copper pigtail is a direct attach cable, whatever the other bits say. *)
SfpDac(page) ==
  [connector |-> "SFP_DAC", connector_status |-> "supported",
   max_speed |-> IF page.rate_10g THEN 10000 ELSE 1000,
   cable |-> [technology |-> IF page.cable_technology_active
                             THEN "active" ELSE "passive",
              length |-> page.length_copper],
   optical |-> FALSE]

Qsfp28Type(code) ==
  CASE code = "SR4"   -> Supported("QSFP28_SR4", 100000, TRUE)
    [] code = "LR4"   -> Supported("QSFP28_LR4", 100000, TRUE)
    [] code = "CWDM4" -> Supported("QSFP28_CWDM4", 100000, TRUE)
    [] code = "PSM4"  -> Supported("QSFP28_PSM4", 100000, TRUE)
    [] code = "CR4"   -> Supported("QSFP28_CR4", 100000, FALSE)
    [] code = "CLR4"  -> Supported("QSFP28_CLR4", 100000, TRUE)
    [] OTHER          -> Unrecognized

(* The switch of pm_parse on the cage the module sits in.                  *)
ParsedType(cage, page) ==
  CASE cage = "SFP_PLUS"  -> IF page.copper_pigtail
                             THEN SfpDac(page)
                             ELSE SfpType(page.compliance)
    [] cage = "QSFP_PLUS" -> QsfpType(page.compliance)
    [] cage = "QSFP28"    -> IF "enet_extended" \in page.compliance
                             THEN Qsfp28Type(page.ext_compliance_code)
                             ELSE QsfpType(page.compliance)
=============================================================================
