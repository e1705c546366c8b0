---------------------------- MODULE PmPortProofs ---------------------------
(***************************************************************************)
(* Facts about the operations of PmPort, for every set of modules and any  *)
(* pages in them.                                                          *)
(***************************************************************************)
EXTENDS PmPort, TLAPS

ParsedTypes ==
  [connector : ConnectorNames,
   connector_status : {"supported", "unrecognized"},
   max_speed : Nat, cable : Cables \cup {NULL}, optical : BOOLEAN]

(* The DAC branch of pm_parse yields a connector type with a cable.        *)
LEMMA SfpDacType ==
  ASSUME NEW page \in SerialId
  PROVE  SfpDac(page) \in ParsedTypes
  BY DEF SfpDac, ParsedTypes, Cables, SerialId, ConnectorNames

(* The compliance bits of an SFP+ page, recognized or not, yield a type.   *)
LEMMA SfpTypeType ==
  ASSUME NEW bits
  PROVE  SfpType(bits) \in ParsedTypes
  BY DEF SfpType, Supported, Unrecognized, ParsedTypes, ConnectorNames

(* The compliance bits of a QSFP+ page, recognized or not, yield a type.   *)
LEMMA QsfpTypeType ==
  ASSUME NEW bits
  PROVE  QsfpType(bits) \in ParsedTypes
  BY DEF QsfpType, Supported, Unrecognized, ParsedTypes, ConnectorNames

(* The extended code of a QSFP28 page, recognized or not, yields a type.   *)
LEMMA Qsfp28TypeType ==
  ASSUME NEW code
  PROVE  Qsfp28Type(code) \in ParsedTypes
  BY DEF Qsfp28Type, Supported, Unrecognized, ParsedTypes, ConnectorNames

(* pm_parse derives a type from any page in any cage.                      *)
LEMMA ParsedTypeType ==
  ASSUME NEW cage \in Connectors, NEW page \in SerialId
  PROVE  ParsedType(cage, page) \in ParsedTypes
  BY SfpDacType, SfpTypeType, QsfpTypeType, Qsfp28TypeType
     DEF ParsedType, Connectors

(* pm_parse never yields the connector "absent".                           *)
LEMMA ParsedNotAbsent ==
  ASSUME NEW cage \in Connectors, NEW page \in SerialId
  PROVE  ParsedType(cage, page).connector # "absent"
<1>1. \A bits : SfpType(bits).connector # "absent"
  BY DEF SfpType, Supported, Unrecognized
<1>2. \A bits : QsfpType(bits).connector # "absent"
  BY DEF QsfpType, Supported, Unrecognized
<1>3. \A code : Qsfp28Type(code).connector # "absent"
  BY DEF Qsfp28Type, Supported, Unrecognized
<1>4. SfpDac(page).connector # "absent"
  BY DEF SfpDac
<1> QED
  BY <1>1, <1>2, <1>3, <1>4 DEF ParsedType, Connectors

(* The record ovsdb_if_intf_create allocates is a port.                    *)
LEMMA NewPortType ==
  ASSUME NEW enable \in BOOLEAN
  PROVE  NewPort(enable) \in Port
  BY DEF NewPort, Port, NoDom, Dom

(* pm_delete_all_data of a port is a port.                                 *)
LEMMA DeleteType ==
  ASSUME NEW p \in Port
  PROVE  pm_delete_all_data(p) \in Port
  BY DEF pm_delete_all_data, Port

(* What an absent module leaves behind is a port.                          *)
LEMMA AbsentType ==
  ASSUME NEW p \in Port
  PROVE  Absent(p) \in Port
  BY DEF Absent, pm_delete_all_data, Port, ConnectorNames

(* What an unreadable module leaves behind is a port.                      *)
LEMMA MarkUnknownType ==
  ASSUME NEW p \in Port
  PROVE  MarkUnknown(p) \in Port
  BY DEF MarkUnknown, pm_delete_all_data, Port, ConnectorNames

(* What pm_parse leaves behind is a port.                                  *)
LEMMA IdentifyType ==
  ASSUME NEW p \in Port, NEW cage \in Connectors, NEW m \in Modules
  PROVE  Identify(p, cage, m) \in Port
<1>1. ParsedType(cage, A0[m]) \in ParsedTypes
  BY ParsedTypeType, PagesAssumption
<1>2. (p.a2_read_requested \/ DomAvailable(cage, A0[m])) \in BOOLEAN
  OBVIOUS
<1>3. ASSUME NEW type \in ParsedTypes, NEW requested \in BOOLEAN
      PROVE  [p EXCEPT
                !.present = TRUE, !.retry = FALSE,
                !.optical = type.optical,
                !.connector = type.connector,
                !.connector_status = type.connector_status,
                !.max_speed = type.max_speed, !.cable = type.cable, !.id = m,
                !.a2_read_requested = requested,
                !.module_info_changed = TRUE] \in Port
  BY ZenonT(30) DEF ParsedTypes, Port
<1> QED
  BY <1>1, <1>2, <1>3, Zenon DEF Identify

(* pm_set_a2 writes no monitoring value but a number or nothing.           *)
LEMMA SetDomType ==
  ASSUME NEW dom \in Dom, NEW page \in Modules \cup {Ones}
  PROVE  SetDom(dom, page) \in Dom
<1>0. A2 \in [Modules -> Nat]
  BY ReadingsAssumption
<1>1. Reading(page) \in Nat
  BY <1>0 DEF Reading
<1>2. SetFloatString(dom.power, Reading(page)) \in Nat \cup {NULL}
  BY <1>1 DEF SetFloatString, TwoDecimals, Dom
<1> QED
  BY <1>2 DEF SetDom, Dom

(* What an A2 read leaves behind is a port.                                *)
LEMMA SetA2Type ==
  ASSUME NEW p \in Port, NEW page \in Modules \cup {Ones}
  PROVE  pm_set_a2(p, page) \in Port
<1>1. SetDom(p.dom, page) \in Dom
  BY SetDomType DEF Port
<1> QED
  BY <1>1 DEF pm_set_a2, Port

(***************************************************************************)
(* The monitoring data.                                                    *)
(***************************************************************************)
(* Printing is off by no more than half a hundredth.                       *)
LEMMA TwoDecimalsRounds ==
  ASSUME NEW raw \in Int
  PROVE  /\ TwoDecimals(raw) \in Int
         /\ 100 * TwoDecimals(raw) - raw \in -50..50
  BY DEF TwoDecimals

(* A string that is kept is not below its reading, and above it by less    *)
(* than a unit; and the reading is a whole number.                         *)
LEMMA KeptString ==
  ASSUME NEW old \in Int, NEW raw \in Int, (old \div 100) * 10000 = raw
  PROVE  raw % 10000 = 0 /\ 100 * old - raw \in 0..9900
<1>1. PICK q \in Int : q = old \div 100
  OBVIOUS
<1>2. 100 * q <= old /\ old <= 100 * q + 99
  BY <1>1
<1>3. raw = 10000 * q
  BY <1>1
<1>4. raw % 10000 = 0
  BY <1>3
<1> QED
  BY <1>2, <1>3, <1>4

(* What SET_FLOAT_STRING leaves, whatever the string was before.           *)
LEMMA SetFloatStringNear ==
  ASSUME NEW old \in Int \cup {NULL}, NEW raw \in Int
  PROVE  /\ SetFloatString(old, raw) \in Int
         /\ Near(SetFloatString(old, raw), raw)
<1>1. CASE SetFloatString(old, raw) = TwoDecimals(raw)
  <2>1. PICK r \in Int : r = TwoDecimals(raw) /\ 100 * r - raw \in -50..50
    BY ZenonT(30), TwoDecimalsRounds
  <2>2. Near(r, raw)
    BY SMTT(30), <2>1 DEF Near
  <2> QED
    BY <1>1, <2>1, <2>2, Zenon
<1>2. CASE old \in Int /\ (old \div 100) * 10000 = raw
  <2>1. raw % 10000 = 0 /\ 100 * old - raw \in 0..9900
    <3>1. PICK o \in Int : o = old
      BY <1>2
    <3>2. (o \div 100) * 10000 = raw
      BY <1>2, <3>1
    <3>3. raw % 10000 = 0 /\ 100 * o - raw \in 0..9900
      BY SMTT(30), <3>2, KeptString
    <3> QED
      BY SMTT(30), <3>1, <3>3
  <2>2. Near(old, raw) /\ old \in Int
    BY <1>2, <2>1 DEF Near
  <2>3. \/ SetFloatString(old, raw) = old
        \/ SetFloatString(old, raw) = TwoDecimals(raw)
    BY SMT DEF SetFloatString
  <2> QED
    BY <1>1, <2>2, <2>3
<1>3. CASE old = NULL \/ (old \div 100) * 10000 # raw
  BY <1>1, <1>3 DEF SetFloatString
<1> QED
  BY <1>2, <1>3

(* The columns pm_set_a2 leaves are those of the page it was given,        *)
(* whatever they held before.                                              *)
LEMMA SetA2Monitors ==
  ASSUME NEW p \in Port, NEW page \in Modules \cup {Ones}, NEW sources,
         page \in sources \cup {Ones}
  PROVE  MonitoredFrom(pm_set_a2(p, page), sources)
<1>1. Reading(page) \in Int
  <2>1. A2 \in [Modules -> Nat]
    BY ReadingsAssumption
  <2> QED
    BY <2>1 DEF Reading
<1>2. p.dom.power \in Int \cup {NULL}
  BY DEF Port, Dom
<1>3. Near(SetFloatString(p.dom.power, Reading(page)), Reading(page))
  BY ZenonT(30), <1>1, <1>2, SetFloatStringNear
<1>4. /\ pm_set_a2(p, page).a2 = page
      /\ pm_set_a2(p, page).dom = SetDom(p.dom, page)
  BY DEF pm_set_a2, Port
<1>5. /\ SetDom(p.dom, page).flags = page
      /\ SetDom(p.dom, page).power
           = SetFloatString(p.dom.power, Reading(page))
  BY DEF SetDom
<1> QED
  BY <1>3, <1>4, <1>5, Zenon DEF MonitoredFrom

(* A record of no module has no A2 page, hence nothing to be held against  *)
(* one.                                                                    *)
LEMMA NothingMonitored ==
  ASSUME NEW p, NEW cage, NEW sources, ParsedFromOneModule(p, cage),
         p.id = NULL
  PROVE  p.a2 = NULL /\ MonitoredFrom(p, sources)
  BY DEF ParsedFromOneModule, MonitoredFrom

(***************************************************************************)
(* What each operation leaves in the fields an invariant may ask for.      *)
(***************************************************************************)
(* A new record describes no module, and its flags say so.                 *)
LEMMA NewPortSound ==
  ASSUME NEW enable \in BOOLEAN, NEW cage \in Connectors
  PROVE  /\ ParsedFromOneModule(NewPort(enable), cage)
         /\ FlagsTellTheReport(NewPort(enable))
  BY DEF NewPort, ParsedFromOneModule, FlagsTellTheReport

(* Absent deletes the description of the module, flags the change, and     *)
(* leaves a pending A2 request alone.                                      *)
LEMMA AbsentSound ==
  ASSUME NEW p \in Port, NEW cage \in Connectors
  PROVE  /\ ParsedFromOneModule(Absent(p), cage)
         /\ FlagsTellTheReport(Absent(p))
         /\ Absent(p).connector = "absent"
         /\ Absent(p).a2_read_requested = p.a2_read_requested
         /\ Absent(p).module_info_changed = TRUE
  BY DEF Absent, pm_delete_all_data, ParsedFromOneModule, FlagsTellTheReport,
         Port

(* Whether or not there is something to record, an absent module ends in   *)
(* the connector "absent" and no identity.                                 *)
LEMMA MarkAbsentSound ==
  ASSUME NEW p \in Port, NEW cage \in Connectors,
         ParsedFromOneModule(p, cage), FlagsTellTheReport(p)
  PROVE  /\ MarkAbsent(p) \in Port
         /\ ParsedFromOneModule(MarkAbsent(p), cage)
         /\ FlagsTellTheReport(MarkAbsent(p))
         /\ MarkAbsent(p).connector = "absent"
         /\ MarkAbsent(p).id = NULL
         /\ MarkAbsent(p).a2_read_requested = p.a2_read_requested
<1>1. CASE p.present \/ p.connector = NULL
  <2>1. MarkAbsent(p) = Absent(p)
    BY <1>1 DEF MarkAbsent
  <2>2. Absent(p).id = NULL
    BY DEF Absent, pm_delete_all_data, Port
  <2> QED
    BY <2>1, <2>2, AbsentType, AbsentSound
<1>2. CASE ~(p.present \/ p.connector = NULL)
  <2>1. MarkAbsent(p) = p
    BY <1>2 DEF MarkAbsent
  <2> QED
    BY <1>2, <2>1 DEF FlagsTellTheReport
<1> QED
  BY <1>1, <1>2

(* An unreadable module has no identity and is marked for another try.     *)
LEMMA MarkUnknownSound ==
  ASSUME NEW p \in Port, NEW cage \in Connectors
  PROVE  /\ ParsedFromOneModule(MarkUnknown(p), cage)
         /\ FlagsTellTheReport(MarkUnknown(p))
         /\ MarkUnknown(p).connector = "unknown"
         /\ MarkUnknown(p).id = NULL
         /\ MarkUnknown(p).a2_read_requested = p.a2_read_requested
  BY DEF MarkUnknown, pm_delete_all_data, ParsedFromOneModule,
         FlagsTellTheReport, Port

(* A page whose checksums match replaces every attribute, whatever the     *)
(* record held before, and asks for the A2 page if the module has one.     *)
LEMMA IdentifySound ==
  ASSUME NEW p \in Port, NEW cage \in Connectors, NEW m \in Modules,
         A0[m].sums_ok
  PROVE  /\ ParsedFromOneModule(Identify(p, cage, m), cage)
         /\ FlagsTellTheReport(Identify(p, cage, m))
         /\ Identify(p, cage, m).id = m
         /\ Identify(p, cage, m).connector \notin {NULL, "absent"}
         /\ Identify(p, cage, m).a2 = p.a2
         /\ Identify(p, cage, m).a2_read_requested
              = (p.a2_read_requested \/ DomAvailable(cage, A0[m]))
<1>1. m # NULL
  BY NullAssumption
<1>2. /\ Identify(p, cage, m).id = m
      /\ Identify(p, cage, m).a2 = p.a2
      /\ Identify(p, cage, m).present = TRUE
      /\ Identify(p, cage, m).retry = FALSE
      /\ Identify(p, cage, m).a2_read_requested
           = (p.a2_read_requested \/ DomAvailable(cage, A0[m]))
  BY DEF Identify, Port
<1>3. ParsedFromOneModule(Identify(p, cage, m), cage)
  BY <1>1 DEF Identify, ParsedFromOneModule, Port
<1>4. Identify(p, cage, m).connector = ParsedType(cage, A0[m]).connector
  BY DEF Identify, Port
<1>5. ParsedType(cage, A0[m]) \in ParsedTypes
  BY ParsedTypeType, PagesAssumption
<1>6. Identify(p, cage, m).connector \notin {NULL, "absent"}
  BY <1>4, <1>5, ParsedNotAbsent, PagesAssumption, NullAttributeAssumption
     DEF ParsedTypes
<1> QED
  BY <1>1, <1>2, <1>3, <1>6 DEF FlagsTellTheReport

(* Storing the A2 page of an identified module leaves its description      *)
(* alone and serves the request.                                           *)
LEMMA SetA2Sound ==
  ASSUME NEW p \in Port, NEW cage \in Connectors,
         NEW page \in Modules \cup {Ones},
         p.id # NULL, ParsedFromOneModule(p, cage), FlagsTellTheReport(p)
  PROVE  /\ ParsedFromOneModule(pm_set_a2(p, page), cage)
         /\ FlagsTellTheReport(pm_set_a2(p, page))
         /\ pm_set_a2(p, page).id = p.id
         /\ pm_set_a2(p, page).connector = p.connector
         /\ pm_set_a2(p, page).a2 = page
         /\ pm_set_a2(p, page).a2_read_requested = FALSE
  BY DEF pm_set_a2, ParsedFromOneModule, FlagsTellTheReport, Port

(* ovsdb_if_intf_modify leaves the description of the module alone.        *)
LEMMA SetEnableSound ==
  ASSUME NEW p \in Port, NEW cage \in Connectors, NEW enable \in BOOLEAN,
         ParsedFromOneModule(p, cage), FlagsTellTheReport(p)
  PROVE  LET r == [p EXCEPT !.hw_enable = enable]
         IN  /\ r \in Port
             /\ ParsedFromOneModule(r, cage)
             /\ FlagsTellTheReport(r)
             /\ r.id = p.id
             /\ r.connector = p.connector
             /\ r.present = p.present
             /\ r.retry = p.retry
             /\ r.a2 = p.a2
             /\ r.dom = p.dom
             /\ r.a2_read_requested = p.a2_read_requested
  BY DEF ParsedFromOneModule, FlagsTellTheReport, Port

(***************************************************************************)
(* The scan of a cage as one step.                                         *)
(***************************************************************************)
(* The A2 page is that of the module on record; one that promises          *)
(* monitoring data has it, and no request for it is left.                  *)
MonitoredItself(p, cage) ==
  /\ ~p.a2_read_requested
  /\ MonitoredFrom(p, {p.id})
  /\ p.id # NULL /\ DomAvailable(cage, A0[p.id]) => p.a2 # NULL

(* A record that pm_read_module_state may be called with, or leave behind. *)
SoundPort(p, cage) ==
  /\ p \in Port
  /\ ParsedFromOneModule(p, cage)
  /\ FlagsTellTheReport(p)
  /\ MonitoredItself(p, cage)

(* A record of no module that asks for no A2 page is monitored soundly.    *)
LEMMA NotMonitored ==
  ASSUME NEW p, NEW cage, ParsedFromOneModule(p, cage), p.id = NULL,
         ~p.a2_read_requested
  PROVE  MonitoredItself(p, cage)
  BY NothingMonitored DEF MonitoredItself

(* A record ovsdb_if_intf_create allocates is sound, and has no connector. *)
LEMMA NewPortIsSound ==
  ASSUME NEW enable \in BOOLEAN, NEW cage \in Connectors
  PROVE  /\ SoundPort(NewPort(enable), cage)
         /\ NewPort(enable).connector = NULL
         /\ NewPort(enable).module_info_changed = FALSE
         /\ NewPort(enable).hw_enable = enable
<1>1. /\ NewPort(enable).connector = NULL
      /\ NewPort(enable).module_info_changed = FALSE
      /\ NewPort(enable).hw_enable = enable
      /\ NewPort(enable).id = NULL
      /\ NewPort(enable).a2_read_requested = FALSE
  BY DEF NewPort
<1>2. MonitoredItself(NewPort(enable), cage)
  BY <1>1, NewPortSound, NotMonitored
<1> QED
  BY <1>1, <1>2, NewPortType, NewPortSound DEF SoundPort

(* The A2 read that follows the identification of m: the request, if there *)
(* is one, is served with the page of m or with ones.                      *)
LEMMA MonitoredSound ==
  ASSUME NEW p \in Port, NEW cage \in Connectors, NEW m \in Modules,
         NEW disturbed \in BOOLEAN,
         ParsedFromOneModule(p, cage), FlagsTellTheReport(p),
         p.id = m, p.a2 = NULL,
         p.a2_read_requested <=> DomAvailable(cage, A0[m]),
         NEW outcome \in Monitored(p, m, disturbed)
  PROVE  /\ SoundPort(outcome, cage)
         /\ outcome.connector = p.connector
         /\ outcome.hw_enable = p.hw_enable
         /\ outcome = p \/ outcome.module_info_changed
<1>0. m # NULL
  BY NullAssumption
<1>1. CASE ~p.a2_read_requested
  <2>1. outcome = p
    BY <1>1 DEF Monitored
  <2>2. MonitoredItself(p, cage)
    BY <1>1 DEF MonitoredItself, MonitoredFrom
  <2> QED
    BY <2>1, <2>2 DEF SoundPort
<1>2. CASE p.a2_read_requested
  <2>1. PICK page \in {m, Ones} : outcome = pm_set_a2(p, page)
    BY <1>2 DEF Monitored, If
  <2>2. outcome \in Port
    BY <2>1, SetA2Type
  <2>3. /\ outcome.hw_enable = p.hw_enable
        /\ outcome.module_info_changed
    BY <2>1 DEF pm_set_a2, Port
  <2>4. /\ ParsedFromOneModule(outcome, cage)
        /\ FlagsTellTheReport(outcome)
        /\ outcome.connector = p.connector
        /\ outcome.id = m
        /\ outcome.a2 = page
        /\ outcome.a2_read_requested = FALSE
    <3>1. page \in Modules \cup {Ones}
      BY <2>1
    <3> QED
      BY <1>0, <2>1, <3>1, SetA2Sound, Zenon
  <2>5. MonitoredFrom(outcome, {m})
    BY <2>1, SetA2Monitors
  <2>6. MonitoredItself(outcome, cage)
    BY <2>1, <2>4, <2>5, NullAssumption DEF MonitoredItself
  <2> QED
    BY <2>2, <2>3, <2>4, <2>6, Zenon DEF SoundPort
<1> QED
  BY <1>1, <1>2

(* An identified module has a connector.                                   *)
LEMMA IdentifiedHasConnector ==
  ASSUME NEW p, NEW cage \in Connectors, SoundPort(p, cage), p.id # NULL
  PROVE  p.connector # NULL
<1>1. p.id \in Modules
  BY DEF SoundPort, Port
<1>2. ParsedType(cage, A0[p.id]) \in ParsedTypes
  BY <1>1, ParsedTypeType, PagesAssumption
<1>3. p.connector = ParsedType(cage, A0[p.id]).connector
  BY DEF SoundPort, ParsedFromOneModule
<1> QED
  BY <1>2, <1>3, NullAttributeAssumption DEF ParsedTypes

(* Whatever is in the cage and whichever operations fail, a scan leaves a  *)
(* sound record with a connector, does not touch the request for the       *)
(* transmitter, and changes no attribute without raising the flag.         *)
LEMMA ScanOutcomeSound ==
  ASSUME NEW p, NEW cage \in Connectors, NEW c \in Modules \cup {Empty},
         NEW disturbed \in BOOLEAN, SoundPort(p, cage),
         NEW outcome \in ScanOutcomes(p, cage, c, disturbed)
  PROVE  /\ SoundPort(outcome, cage)
         /\ outcome.connector # NULL
         /\ outcome.hw_enable = p.hw_enable
         /\ outcome = p \/ outcome.module_info_changed
<1> USE DEF SoundPort
<1>0. ~p.a2_read_requested
  BY DEF MonitoredItself
<1>1. CASE outcome = MarkAbsent(p)
  <2>0. /\ outcome \in Port
        /\ ParsedFromOneModule(outcome, cage)
        /\ FlagsTellTheReport(outcome)
        /\ outcome.id = NULL
        /\ outcome.connector = "absent"
        /\ ~outcome.a2_read_requested
    BY <1>0, <1>1, MarkAbsentSound
  <2>1. /\ SoundPort(outcome, cage)
        /\ outcome.connector # NULL
    BY <2>0, NotMonitored, NullAttributeAssumption DEF ConnectorNames
  <2>2. /\ outcome.hw_enable = p.hw_enable
        /\ outcome = p \/ outcome.module_info_changed
    BY <1>1 DEF MarkAbsent, Absent, pm_delete_all_data, Port
  <2> QED
    BY <2>1, <2>2
<1>2. CASE outcome = MarkUnknown(p)
  <2>0. /\ outcome \in Port
        /\ ParsedFromOneModule(outcome, cage)
        /\ FlagsTellTheReport(outcome)
        /\ outcome.id = NULL
        /\ outcome.connector = "unknown"
        /\ ~outcome.a2_read_requested
    BY <1>0, <1>2, MarkUnknownType, MarkUnknownSound
  <2>1. /\ SoundPort(outcome, cage)
        /\ outcome.connector # NULL
    BY <2>0, NotMonitored, NullAttributeAssumption DEF ConnectorNames
  <2>2. /\ outcome.hw_enable = p.hw_enable
        /\ outcome.module_info_changed
    BY <1>2 DEF MarkUnknown, pm_delete_all_data, Port
  <2> QED
    BY <2>1, <2>2
<1>3. CASE /\ c # Empty /\ A0[c].sums_ok /\ A0Wanted(p)
           /\ outcome \in Monitored(Identify(p, cage, c), c, disturbed)
  <2> DEFINE q == Identify(p, cage, c)
  <2>1. c \in Modules
    BY <1>3
  <2>2. p.id = NULL
    BY <1>3 DEF A0Wanted, FlagsTellTheReport
  <2>3. p.a2 = NULL
    BY <2>2, NothingMonitored
  <2>4. /\ q \in Port
        /\ ParsedFromOneModule(q, cage) /\ FlagsTellTheReport(q)
        /\ q.id = c /\ q.a2 = NULL /\ q.connector # NULL
    BY <1>3, <2>1, <2>3, IdentifyType, IdentifySound
  <2>5. q.a2_read_requested <=> DomAvailable(cage, A0[c])
    BY <1>0, <1>3, <2>1, IdentifySound
  <2>6. /\ q.hw_enable = p.hw_enable
        /\ q.module_info_changed
    BY DEF Identify, Port
  <2>7. /\ SoundPort(outcome, cage)
        /\ outcome.connector = q.connector
        /\ outcome.hw_enable = q.hw_enable
        /\ outcome = q \/ outcome.module_info_changed
    <3> HIDE DEF q, SoundPort
    <3> QED
      BY <1>3, <2>1, <2>4, <2>5, MonitoredSound DEF q
  <2> QED
    BY <2>4, <2>6, <2>7
<1>4. CASE /\ c # Empty /\ ~A0Wanted(p)
           /\ outcome \in Monitored(p, c, disturbed)
  <2>1. outcome = p
    BY <1>0, <1>4 DEF Monitored
  <2>2. p.id # NULL
    BY <1>4 DEF A0Wanted, FlagsTellTheReport
  <2>3. p.connector # NULL
    BY <2>2, IdentifiedHasConnector
  <2> QED
    BY <2>1, <2>3
<1> QED
  BY <1>1, <1>2, <1>3, <1>4 DEF ScanOutcomes, If

(* What pm_ovsdb_update publishes of a record with a connector.            *)
LEMMA PmInfoType ==
  ASSUME NEW p \in Port, p.connector # NULL
  PROVE  PmInfo(p) \in Info
  BY DEF PmInfo, Info, Port

(* The request for the transmitter is not published, and neither is the    *)
(* flag: pm_info is the same after ovsdb_if_intf_modify and after the flag *)
(* is cleared.                                                             *)
LEMMA UnpublishedFields ==
  ASSUME NEW p, NEW cage \in Connectors, SoundPort(p, cage),
         NEW b \in BOOLEAN
  PROVE  /\ SoundPort([p EXCEPT !.hw_enable = b], cage)
         /\ SoundPort([p EXCEPT !.module_info_changed = b], cage)
         /\ PmInfo([p EXCEPT !.hw_enable = b]) = PmInfo(p)
         /\ PmInfo([p EXCEPT !.module_info_changed = b]) = PmInfo(p)
         /\ [p EXCEPT !.hw_enable = b].connector = p.connector
         /\ [p EXCEPT !.module_info_changed = b].connector = p.connector
         /\ [p EXCEPT !.hw_enable = b].module_info_changed
              = p.module_info_changed
         /\ [p EXCEPT !.module_info_changed = b].module_info_changed = b
         /\ [p EXCEPT !.hw_enable = b].hw_enable = b
         /\ [p EXCEPT !.module_info_changed = b].hw_enable = p.hw_enable
<1>1. SoundPort([p EXCEPT !.hw_enable = b], cage)
  BY SetEnableSound DEF SoundPort, MonitoredItself, MonitoredFrom
<1>2. SoundPort([p EXCEPT !.module_info_changed = b], cage)
  BY DEF SoundPort, Port, ParsedFromOneModule, FlagsTellTheReport,
         MonitoredItself, MonitoredFrom
<1> QED
  BY <1>1, <1>2 DEF SoundPort, Port, PmInfo
=============================================================================
