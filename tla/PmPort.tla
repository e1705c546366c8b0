------------------------------- MODULE PmPort -------------------------------
(***************************************************************************)
(* The daemon's record of one cage, pm_port_t, and what each outcome of a  *)
(* scan writes into it (src/src/plug.c, src/src/ovsdb_access.c).           *)
(*                                                                         *)
(* The attributes that end up in pm_info are grouped by how they are       *)
(* written together:                                                       *)
(*   connector, connector_status  always present once the port was scanned *)
(*   max_speed, cable             what pm_parse derives from the page      *)
(*   id                           vendor_* strings and a0: copied from the *)
(*                                page of one module, hence that module    *)
(*   a2                           the raw A2 page                          *)
(*   dom                          ovs_module_dom_columns                   *)
(* Every macro that writes an attribute also sets module_info_changed, and *)
(* each operation below writes at least one attribute unconditionally.     *)
(***************************************************************************)
EXTENDS PmDom

CONSTANT Empty   \* what a cage holds when it holds no module

ASSUME PagesAssumption == A0 \in [Modules -> SerialId]

ASSUME ReadingsAssumption ==
  /\ A2 \in [Modules -> Nat]
  /\ \A m \in Modules : A2[m] < 2^16 /\ A2[m] % 100 # 50

ASSUME NullAssumption ==
  /\ NULL \notin Modules \cup {Ones}
  /\ Ones \notin Modules
  /\ Empty \notin Modules

ConnectorNames ==
  {"absent", "unknown", "SFP_DAC", "SFP_SX", "SFP_LX", "SFP_CX", "SFP_RJ45",
   "SFP_SR", "SFP_LR", "SFP_LRM", "QSFP_LR4", "QSFP_SR4", "QSFP_CR4",
   "QSFP28_SR4", "QSFP28_LR4", "QSFP28_CWDM4", "QSFP28_PSM4", "QSFP28_CR4",
   "QSFP28_CLR4"}

ASSUME NullAttributeAssumption ==
  /\ NULL \notin ConnectorNames \cup {"supported", "unrecognized"}
  /\ NULL \notin Nat

Cables == [technology : {"active", "passive"}, length : Nat]

Port ==
  [present : BOOLEAN,
   retry : BOOLEAN,              \* the serial ID has to be read again
   a2_read_requested : BOOLEAN,
   optical : BOOLEAN,
   hw_enable : BOOLEAN,
   module_info_changed : BOOLEAN,
   connector : ConnectorNames \cup {NULL},
   connector_status : {"supported", "unrecognized", NULL},
   max_speed : Nat \cup {NULL},
   cable : Cables \cup {NULL},
   id : Modules \cup {NULL},
   a2 : Modules \cup {Ones, NULL},
   dom : Dom]

(* The calloc'ed record of ovsdb_if_intf_create.                           *)
NewPort(hw_enable) ==
  [present |-> FALSE, retry |-> FALSE, a2_read_requested |-> FALSE,
   optical |-> FALSE, hw_enable |-> hw_enable, module_info_changed |-> FALSE,
   connector |-> NULL, connector_status |-> NULL, max_speed |-> NULL,
   cable |-> NULL, id |-> NULL, a2 |-> NULL, dom |-> NoDom]

(* A slip, as mutation checking puts it in the place of the definition     *)
(* that follows: the vendor strings and a0 are forgotten.                  *)
DeleteKeepsId(port) ==
  [port EXCEPT !.connector_status = NULL, !.max_speed = NULL, !.cable = NULL,
               !.a2 = NULL]

(* Everything but the connector; the DOM attributes are not among them.    *)
pm_delete_all_data(port) ==
  [port EXCEPT !.connector_status = NULL, !.max_speed = NULL, !.cable = NULL,
               !.id = NULL, !.a2 = NULL]

(***************************************************************************)
(* The outcomes of pm_read_module_state.                                   *)
(***************************************************************************)
Absent(port) ==
  [pm_delete_all_data(port) EXCEPT
     !.present = FALSE,
     !.connector = "absent", !.connector_status = "unrecognized",
     !.module_info_changed = TRUE]

(* Three slips in the place of MarkAbsent: the first scan of an empty cage *)
(* leaves no record, the data of the module stay, the change is not        *)
(* flagged.                                                                *)
AbsentOnlyAfterPresent(port) == IF port.present THEN Absent(port) ELSE port

AbsentKeepsData(port) ==
  IF port.present \/ port.connector = NULL
  THEN [Absent(port) EXCEPT !.max_speed = port.max_speed,
                            !.cable = port.cable, !.id = port.id]
  ELSE port

AbsentUnflagged(port) ==
  IF port.present \/ port.connector = NULL
  THEN [Absent(port) EXCEPT !.module_info_changed = port.module_info_changed]
  ELSE port

(* No module: recorded only if there was one, or on the first scan.        *)
MarkAbsent(port) ==
  IF port.present \/ port.connector = NULL THEN Absent(port) ELSE port

(* A slip: the page that could not be read is not asked for again.         *)
UnknownNotRetried(port) ==
  [pm_delete_all_data(port) EXCEPT
     !.present = TRUE,
     !.connector = "unknown", !.connector_status = "unrecognized",
     !.module_info_changed = TRUE]

(* A module whose page could not be read, or not believed.                 *)
MarkUnknown(port) ==
  [pm_delete_all_data(port) EXCEPT
     !.present = TRUE, !.retry = TRUE,
     !.connector = "unknown", !.connector_status = "unrecognized",
     !.module_info_changed = TRUE]

(* pm_parse of the page of module m, then set_a2_read_request.             *)
Identify(port, cage, m) ==
  LET type == ParsedType(cage, A0[m])
  IN  [port EXCEPT
         !.present = TRUE, !.retry = FALSE,
         !.optical = type.optical,
         !.connector = type.connector,
         !.connector_status = type.connector_status,
         !.max_speed = type.max_speed, !.cable = type.cable, !.id = m,
         !.a2_read_requested = @ \/ DomAvailable(cage, A0[m]),
         !.module_info_changed = TRUE]

(* Two slips: after a failed read the columns are left as they were, and   *)
(* the request is not withdrawn.                                           *)
SetA2KeepsColumns(port, page) ==
  [port EXCEPT !.a2 = page, !.dom = IF page = Ones THEN @ ELSE SetDom(@, page),
               !.a2_read_requested = FALSE, !.module_info_changed = TRUE]

SetA2KeepsRequest(port, page) ==
  [port EXCEPT !.a2 = page, !.dom = SetDom(@, page),
               !.module_info_changed = TRUE]

(* pm_set_a2 of what the A2 read returned, and the request is served.      *)
pm_set_a2(port, page) ==
  [port EXCEPT !.a2 = page, !.dom = SetDom(@, page),
               !.a2_read_requested = FALSE, !.module_info_changed = TRUE]

(* Two slips: read the serial ID on every scan, or once per insertion.     *)
A0AlwaysWanted(port) == TRUE

A0WantedOnce(port) == ~port.present

(* The serial ID is read until it has been parsed once.                    *)
A0Wanted(port) == ~port.present \/ port.retry

(***************************************************************************)
(* The scan of a cage as one step: the records pm_read_module_state can    *)
(* leave behind if the cage holds c.  If disturbed (operations fail, or    *)
(* the module is pulled during the scan) presence, serial ID and A2 page   *)
(* may each turn out unreadable.  PlugContract checks that the scan of     *)
(* Plug, taken i2c operation by i2c operation, has no other outcome.       *)
(***************************************************************************)
If(condition, outcomes) == IF condition THEN outcomes ELSE {}

Monitored(port, m, disturbed) ==
  IF port.a2_read_requested
  THEN {pm_set_a2(port, m)} \cup If(disturbed, {pm_set_a2(port, Ones)})
  ELSE {port}

ScanOutcomes(port, cage, c, disturbed) ==
  LET intact == c # Empty /\ A0[c].sums_ok
      wanted == c # Empty /\ A0Wanted(port)
  IN  If(c = Empty \/ disturbed, {MarkAbsent(port)})
      \cup If(wanted /\ (~intact \/ disturbed), {MarkUnknown(port)})
      \cup If(wanted /\ intact,
              Monitored(Identify(port, cage, c), c, disturbed))
      \cup If(c # Empty /\ ~wanted, Monitored(port, c, disturbed))

(* The map pm_ovsdb_update publishes: every attribute that is not NULL,    *)
(* but not the raw pages a0 and a2.  There is always a connector, since    *)
(* nothing else is written without one.                                    *)
Info ==
  [connector : ConnectorNames,
   connector_status : {"supported", "unrecognized", NULL},
   max_speed : Nat \cup {NULL},
   cable : Cables \cup {NULL},
   id : Modules \cup {NULL},
   dom : Dom]

ASSUME NullRecordAssumption == NULL \notin Port /\ NULL \notin Info

PmInfo(port) ==
  [connector |-> port.connector, connector_status |-> port.connector_status,
   max_speed |-> port.max_speed, cable |-> port.cable, id |-> port.id,
   dom |-> port.dom]

(***************************************************************************)
(* What a record says of its cage.                                         *)
(***************************************************************************)
Report(port) ==
  IF port.connector = NULL THEN "none"
  ELSE IF port.connector = "absent" THEN "absent"
  ELSE IF port.id # NULL THEN port.id ELSE "unknown"

(* The attributes of pm_parse are all those of the module id, or there is  *)
(* none of them and no A2 page either.                                     *)
ParsedFromOneModule(port, cage) ==
  IF port.id = NULL
  THEN /\ port.max_speed = NULL /\ port.cable = NULL /\ port.a2 = NULL
       /\ port.connector \in {NULL, "absent", "unknown"}
  ELSE LET type == ParsedType(cage, A0[port.id])
       IN  /\ A0[port.id].sums_ok
           /\ port.connector = type.connector
           /\ port.connector_status = type.connector_status
           /\ port.max_speed = type.max_speed
           /\ port.cable = type.cable
           /\ port.optical = type.optical

(* The A2 page is that of one of the sources, or the page of ones, and the *)
(* DOM attributes are those of that page; a power reading may have kept    *)
(* the fraction of an earlier one, be it of an earlier module.  Of the DOM *)
(* attributes of a record without an A2 page nothing can be said: they are *)
(* those of whichever module was monitored last, since pm_delete_all_data  *)
(* leaves them alone.                                                      *)
MonitoredFrom(port, sources) ==
  port.a2 # NULL =>
    /\ port.a2 \in sources \cup {Ones}
    /\ port.dom.flags = port.a2
    /\ Near(port.dom.power, Reading(port.a2))

(* The two flags against the attributes.                                   *)
FlagsTellTheReport(port) ==
  /\ port.present /\ ~port.retry => port.id # NULL
  /\ port.present /\ port.retry => port.connector = "unknown" /\ port.id = NULL
  /\ ~port.present => port.connector \in {NULL, "absent"} /\ port.id = NULL
=============================================================================
