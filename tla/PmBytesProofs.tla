---------------------------- MODULE PmBytesProofs ---------------------------
(***************************************************************************)
(* The readings of pm_set_a2 and the columns of pm_ovsdb_update, for every *)
(* sequence of readings.  A column depends on the one before it, because   *)
(* SET_FLOAT_STRING keeps the old string if strtol of it equals the new    *)
(* value; the theorems say how far that can take a column from its         *)
(* reading.                                                                *)
(***************************************************************************)
EXTENDS PmBytes, TLAPS

(***************************************************************************)
(* SET_FLOAT_STRING.                                                       *)
(***************************************************************************)
(* Printing is off by no more than half a hundredth.                       *)
LEMMA TwoDecimalsRounds ==
  ASSUME NEW raw \in Int
  PROVE  /\ TwoDecimals(raw) \in Int
         /\ 100 * TwoDecimals(raw) - raw \in -50..50
  BY DEF TwoDecimals

(* A string that is kept is not below its reading, and above it by less    *)
(* than a unit; and the reading is a whole number.                         *)
LEMMA KeptString ==
  ASSUME NEW old \in Int, NEW raw \in Int, (old \div 100) * 10000 = raw
  PROVE  raw % 10000 = 0 /\ 100 * old - raw \in 0..9900
<1>1. PICK q \in Int : q = old \div 100
  OBVIOUS
<1>2. 100 * q <= old /\ old <= 100 * q + 99
  BY <1>1
<1>3. raw = 10000 * q
  BY <1>1
<1>4. raw % 10000 = 0
  BY <1>3
<1> QED
  BY <1>2, <1>3, <1>4

(* What SET_FLOAT_STRING leaves, whatever the string was before.           *)
LEMMA SetFloatStringNear ==
  ASSUME NEW old \in Int \cup {NULL}, NEW raw \in Int
  PROVE  /\ SetFloatString(old, raw) \in Int
         /\ Near(SetFloatString(old, raw), raw)
<1>1. CASE SetFloatString(old, raw) = TwoDecimals(raw)
  <2>1. PICK r \in Int : r = TwoDecimals(raw) /\ 100 * r - raw \in -50..50
    BY ZenonT(30), TwoDecimalsRounds
  <2>2. Near(r, raw)
    BY SMTT(30), <2>1 DEF Near
  <2> QED
    BY <1>1, <2>1, <2>2, Zenon
<1>2. CASE old \in Int /\ (old \div 100) * 10000 = raw
  <2>1. raw % 10000 = 0 /\ 100 * old - raw \in 0..9900
    <3>1. PICK o \in Int : o = old
      BY <1>2
    <3>2. (o \div 100) * 10000 = raw
      BY <1>2, <3>1
    <3>3. raw % 10000 = 0 /\ 100 * o - raw \in 0..9900
      BY SMTT(30), <3>2, KeptString
    <3> QED
      BY SMTT(30), <3>1, <3>3
  <2>2. Near(old, raw) /\ old \in Int
    BY <1>2, <2>1 DEF Near
  <2>3. \/ SetFloatString(old, raw) = old
        \/ SetFloatString(old, raw) = TwoDecimals(raw)
    BY SMT DEF SetFloatString
  <2> QED
    BY <1>1, <2>2, <2>3
<1>3. CASE old = NULL \/ (old \div 100) * 10000 # raw
  BY <1>1, <1>3 DEF SetFloatString
<1> QED
  BY <1>2, <1>3

(* A column of whole numbers stays one and is always the last reading.     *)
LEMMA WholeNumbers ==
  ASSUME NEW old, NEW m \in Int,
         old # NULL => \E b \in Int : old = 100 * b
  PROVE  SetFloatString(old, 10000 * m) = 100 * m
<1>1. TwoDecimals(10000 * m) = 100 * m
  BY DEF TwoDecimals
<1>2. CASE old = NULL
  BY <1>1, <1>2 DEF SetFloatString
<1>3. CASE old # NULL
  <2>1. PICK b \in Int : old = 100 * b
    BY <1>3
  <2>2. old \div 100 = b
    BY <2>1
  <2>3. b * 10000 = 10000 * m => b = m
    OBVIOUS
  <2> QED
    BY <1>1, <2>1, <2>2, <2>3 DEF SetFloatString
<1> QED
  BY <1>2, <1>3

(***************************************************************************)
(* The readings.                                                           *)
(***************************************************************************)
(* What the assumptions say of a temperature and of a word.                *)
LEMMA TemperatureBytes ==
  ASSUME NEW bytes \in Temperatures
  PROVE  bytes[1] \in -128..127 /\ bytes[2] \in 0..255
<1>1. bytes[1] \in SignedByte /\ bytes[2] \in Byte
  BY TemperaturesAssumption
<1> QED
  BY <1>1 DEF SignedByte, Byte

(* The two bytes of a reading make up the reading again.                   *)
LEMMA WordBytes ==
  ASSUME NEW word \in Words
  PROVE  word \in Int /\ Word(word \div 256, word % 256) = word
<1>1. word \in Uint16
  BY WordsAssumption
<1>2. word \in Int /\ word >= 0
  <2>1. \A n \in Uint16 : n \in Int /\ n >= 0
    BY SMTT(30) DEF Uint16
  <2> QED
    BY <1>1, <2>1, Zenon
<1>3. PICK q \in Int : q = word \div 256
  BY <1>2
<1>4. word % 256 = word - 256 * q
  BY <1>2, <1>3
<1>5. q * 256 + (word - 256 * q) = word
  BY <1>2
<1> QED
  BY ZenonT(30), <1>2, <1>3, <1>4, <1>5 DEF Word

(* The temperature is printed without a fraction, since the quotient of    *)
(* its low byte is 0; the other columns are near their readings.           *)
ReadingSound ==
  last.routine = "pm_set_a2" =>
    /\ last.printed \in Int
    /\ last.quantity = "temperature" =>
         /\ last.bytes \in Temperatures
         /\ last.printed = 100 * last.bytes[1]
    /\ last.quantity # "temperature" => Near(last.printed, last.raw)

(* A reading of the temperature.                                           *)
LEMMA TemperatureStep ==
  ASSUME ReadingSound, NEW bytes \in Temperatures, SetTemperature(bytes)
  PROVE  ReadingSound'
<1>1. bytes[1] \in Int /\ bytes[1] \in -128..127 /\ bytes[2] \in 0..255
  BY TemperatureBytes
<1>2. Temperature(bytes[1], bytes[2]) = 10000 * bytes[1]
  BY <1>1 DEF Temperature
<1> DEFINE old == Printed("temperature")
<1>3. old # NULL => \E b \in Int : old = 100 * b
  <2> SUFFICES ASSUME old # NULL PROVE \E b \in Int : old = 100 * b
    OBVIOUS
  <2>1. /\ last.routine = "pm_set_a2" /\ last.quantity = "temperature"
        /\ old = last.printed
    BY DEF Printed
  <2>2. last.bytes \in Temperatures /\ last.printed = 100 * last.bytes[1]
    BY <2>1, Zenon DEF ReadingSound
  <2>3. last.bytes[1] \in Int
    BY <2>2, TemperatureBytes
  <2> QED
    BY <2>1, <2>2, <2>3, Zenon
<1> HIDE DEF old
<1>4. SetFloatString(old, 10000 * bytes[1]) = 100 * bytes[1]
  BY <1>1, <1>3, WholeNumbers
<1>5. 100 * bytes[1] \in Int
  BY <1>1
<1>6. /\ last'.routine = "pm_set_a2" /\ last'.quantity = "temperature"
      /\ last'.bytes = bytes
      /\ last'.printed = SetFloatString(old, Temperature(bytes[1], bytes[2]))
  BY DEF SetTemperature, SetReading, old
<1>7. last'.printed = 100 * bytes[1]
  BY <1>2, <1>4, <1>6, SMT
<1> QED
  BY <1>5, <1>6, <1>7, Zenon DEF ReadingSound

(* A reading of one of the other quantities.                               *)
LEMMA WordStep ==
  ASSUME ReadingSound, NEW word \in Words,
         SetWord(<<word \div 256, word % 256>>)
  PROVE  ReadingSound'
<1>1. word \in Int /\ Word(word \div 256, word % 256) = word
  BY WordBytes
<1>2. 20 * word \in Int
  BY <1>1
<1> DEFINE bytes == <<word \div 256, word % 256>>
<1>3. Word(bytes[1], bytes[2]) = word
  BY <1>1
<1> HIDE DEF bytes
<1>4. PICK quantity \in {"vcc", "bias", "power"}, raw \in Int :
        SetReading(quantity, bytes, raw)
  <2>1. SetWord(bytes)
    BY DEF bytes
  <2> QED
    BY <1>1, <1>2, <1>3, <2>1 DEF SetWord, Volts, Milliamperes, Milliwatts
<1>5. Printed(quantity) \in Int \cup {NULL}
  BY DEF Printed, ReadingSound
<1>6. /\ last'.routine = "pm_set_a2" /\ last'.quantity = quantity
      /\ last'.raw = raw
      /\ last'.printed = SetFloatString(Printed(quantity), raw)
  BY <1>4 DEF SetReading
<1>7. last'.printed \in Int /\ Near(last'.printed, last'.raw)
  BY <1>5, <1>6, SetFloatStringNear
<1>8. quantity # "temperature"
  BY <1>4
<1> QED
  BY <1>6, <1>7, <1>8 DEF ReadingSound

(***************************************************************************)
(* The columns.                                                            *)
(***************************************************************************)
(* The guard that looks at another column looks at one that is set exactly *)
(* when its own is.                                                        *)
LEMMA AddedAreSet ==
  ASSUME NEW columns \in {{}} \cup {ColumnsSet(cage) : cage \in Connectors}
  PROVE  ModuleAdded(columns) \cup LanesAdded(columns) = columns
<1>1. columns \in {{}, SfpColumns, QsfpColumns}
  BY DEF ColumnsSet
<1>2. CASE columns = {}
  BY <1>2 DEF ModuleAdded, LanesAdded
<1>3. CASE columns = SfpColumns
  <2>1. \A c \in SfpColumns : Guard(c) \in SfpColumns
    BY DEF Guard, SfpColumns, SfpQuantities, Suffixes, Flags
  <2>2. ModuleAdded(SfpColumns) = SfpColumns
    BY <2>1 DEF ModuleAdded, SfpColumns
  <2>3. LanesAdded(SfpColumns) \subseteq SfpColumns
    BY DEF LanesAdded
  <2> QED
    BY <1>3, <2>2, <2>3
<1>4. CASE columns = QsfpColumns
  <2>1. ModuleAdded(QsfpColumns) = {"temperature", "vcc"} \X {"value"}
    BY DEF ModuleAdded, QsfpColumns, Guard, SfpQuantities, Lanes, Suffixes,
           Flags
  <2>2. LanesAdded(QsfpColumns) = Lanes \X ({"value"} \cup Flags)
    BY DEF LanesAdded, QsfpColumns, Lanes, Suffixes
  <2> QED
    BY <1>4, <2>1, <2>2 DEF QsfpColumns
<1> QED
  BY <1>1, <1>2, <1>3, <1>4

(***************************************************************************)
(* The properties the run checks.                                          *)
(***************************************************************************)
ColumnInv == ReadingSound /\ PublishesWhatIsSet

(* ColumnInvariant: the invariant holds after every call.                  *)
THEOREM ColumnInvariant == Spec => []ColumnInv
<1>1. Init => ColumnInv
  BY DEF Init, Idle, ColumnInv, ReadingSound, PublishesWhatIsSet
<1>2. ColumnInv /\ [Next]_last => ColumnInv'
  <2> SUFFICES ASSUME ColumnInv, [Next]_last PROVE ColumnInv'
    OBVIOUS
  <2>1. CASE last'.routine \notin {"pm_set_a2", "pm_ovsdb_update"}
    BY <2>1 DEF ColumnInv, ReadingSound, PublishesWhatIsSet
  <2>2. ASSUME NEW bytes \in Temperatures, SetTemperature(bytes)
        PROVE  ColumnInv'
    <3>1. last'.routine = "pm_set_a2"
      BY <2>2 DEF SetTemperature, SetReading
    <3> QED
      BY <2>2, <3>1, TemperatureStep DEF ColumnInv, PublishesWhatIsSet
  <2>3. ASSUME NEW word \in Words, SetWord(<<word \div 256, word % 256>>)
        PROVE  ColumnInv'
    <3>1. last'.routine = "pm_set_a2"
      BY <2>3 DEF SetWord, SetReading
    <3> QED
      BY <2>3, <3>1, WordStep DEF ColumnInv, PublishesWhatIsSet
  <2>4. ASSUME NEW columns \in {{}} \cup {ColumnsSet(cage) : cage \in Connectors},
               PublishDom(columns)
        PROVE  ColumnInv'
    <3>1. /\ last'.routine = "pm_ovsdb_update" /\ last'.columns = columns
          /\ last'.added = ModuleAdded(columns) \cup LanesAdded(columns)
      BY <2>4 DEF PublishDom
    <3>2. last'.added = last'.columns
      BY <3>1, AddedAreSet
    <3> QED
      BY <3>1, <3>2 DEF ColumnInv, ReadingSound, PublishesWhatIsSet
  <2>5. CASE last' = last
    BY <2>5, Zenon DEF ColumnInv, ReadingSound, PublishesWhatIsSet
  <2>6. CASE \E page \in Pages : VerifySum(page)
    BY <2>1, <2>6 DEF VerifySum
  <2>7. CASE \E buf \in Buffers : HexToAscii(buf)
    BY <2>1, <2>7 DEF HexToAscii
  <2>8. CASE \E oui \in Ouis : OuiFormat(oui)
    BY <2>1, <2>8 DEF OuiFormat
  <2>9. CASE \E field \in Fields : StripField(field)
    BY <2>1, <2>9 DEF StripField
  <2>10. CASE Return
    BY <2>1, <2>10 DEF Return, Idle
  <2> QED
    BY ZenonT(30), <2>2, <2>3, <2>4, <2>5, <2>6, <2>7, <2>8, <2>9, <2>10 DEF Next
<1> QED
  BY <1>1, <1>2, PTL DEF Spec

(* TemperatureNeverStale: whatever was read before, the temperature on     *)
(* record is the last one read, down to the degree below it.               *)
THEOREM TemperatureNeverStale == Spec => []TemperatureIsCurrent
<1>1. ColumnInv => TemperatureIsCurrent
  <2> SUFFICES ASSUME ReadingSound, last.routine = "pm_set_a2",
                      last.quantity = "temperature"
               PROVE  LET raw == 256 * last.bytes[1] + last.bytes[2]
                      IN  /\ 256 * last.printed <= 100 * raw
                          /\ 100 * raw < 256 * (last.printed + 100)
    BY DEF ColumnInv, TemperatureIsCurrent
  <2>1. last.bytes \in Temperatures /\ last.printed = 100 * last.bytes[1]
    BY Zenon DEF ReadingSound
  <2>2. last.bytes[1] \in Int /\ last.bytes[2] \in 0..255
    BY SMTT(30), <2>1, TemperatureBytes
  <2> QED
    BY SMTT(30), <2>1, <2>2
<1> QED
  BY <1>1, ColumnInvariant, PTL

(* DriftIsBounded: however many readings there are, no column drifts from  *)
(* its reading by a unit or more.                                          *)
THEOREM DriftIsBounded == Spec => []DriftBounded
<1>1. ColumnInv => DriftBounded
  BY DEF ColumnInv, ReadingSound, DriftBounded
<1> QED
  BY <1>1, ColumnInvariant, PTL

(* MapIsComplete: the map has every column that is set and no other.       *)
THEOREM MapIsComplete == Spec => []PublishesWhatIsSet
<1>1. ColumnInv => PublishesWhatIsSet
  BY DEF ColumnInv
<1> QED
  BY <1>1, ColumnInvariant, PTL
=============================================================================
