----------------------------- MODULE BootProofs -----------------------------
(***************************************************************************)
(* Proofs about BootE's handoff, for every list of drivers, every size of  *)
(* tables and drivers, and every place of the kernel.                      *)
(***************************************************************************)
EXTENDS BootProperties, TLAPS

(* A table as it is read has a name, a length and a text, and takes no     *)
(* more than the room there is; a cut one takes all of it.                 *)
LEMMA TableReadFits ==
  ASSUME NEW name \in Names \cup {"System"}, NEW size \in Nat, NEW room \in Nat
  PROVE  /\ TableRead(name, size, room) \in Table
         /\ TableRead(name, size, room).driver = name
         /\ TableRead(name, size, room).size \in Nat
         /\ TableRead(name, size, room).size <= room
         /\ TableRead(name, size, room).text = "cut" => TableRead(name, size, room).size = room
  BY DEF TableRead, Table

(* The new list of drivers leaves room for both terminators.               *)
LEMMA BootDriversFit ==
  ASSUME NEW length \in Nat, length + 2 <= OPENSTEP_CONFIG_LIMIT,
         NEW n \in BootDriversSet(length)
  PROVE  n \in Nat /\ n + 2 <= OPENSTEP_CONFIG_LIMIT
  BY BootAssumption DEF BootDriversSet, OPENSTEP_CONFIG_LIMIT

(* The edits keep the length below the limit, and both terminators inside  *)
(* it when no slave is forced.                                             *)
LEMMA EditsFit ==
  ASSUME NEW length \in Nat, length + 2 <= OPENSTEP_CONFIG_LIMIT,
         NEW n \in ForcedATAPISlave(length), NEW m \in ForcedPrimaryEIDE(n)
  PROVE  /\ m \in Nat /\ m < OPENSTEP_CONFIG_LIMIT
         /\ ~AtapiSlave => m + 2 <= OPENSTEP_CONFIG_LIMIT
<1>1. n \in Nat /\ n < OPENSTEP_CONFIG_LIMIT /\ (~AtapiSlave => n = length)
  BY DEF ForcedATAPISlave, OPENSTEP_CONFIG_LIMIT
<1>2. m \in Nat /\ m <= n
  BY <1>1 DEF ForcedPrimaryEIDE
<1> QED BY <1>1, <1>2 DEF OPENSTEP_CONFIG_LIMIT

LEMMA KernelSizesAreInt == KernelSizes \subseteq Int
<1>1. KernelSizes \subseteq Nat
  BY BootAssumption
<1> QED BY <1>1

-----------------------------------------------------------------------------
(* The loader starts with nothing staged.                                  *)
LEMMA InitHolds == Init => BootInvariant
<1> SUFFICES ASSUME Init PROVE BootInvariant
  OBVIOUS
<1>1. TypeOK
  <2>1. << >> \in Seq(Table) /\ << >> \in Seq(Record)
    OBVIOUS
  <2>2. /\ config \in [length : Nat, tables : Seq(Table)]
        /\ staged \in [sarld : {"none", "mapped"}, records : Seq(Record)]
        /\ legacy \in [holds : {"bootInfo", "bootStruct"}, records : Seq(Record),
                       sarld : {"none", "mapped"}, kernelSize : Int, configEnd : Nat]
    <3>1. config \in [length : Nat, tables : Seq(Table)]
      BY <2>1 DEF Init
    <3>2. staged \in [sarld : {"none", "mapped"}, records : Seq(Record)]
      BY <2>1 DEF Init
    <3>3. legacy \in [holds : {"bootInfo", "bootStruct"}, records : Seq(Record),
                      sarld : {"none", "mapped"}, kernelSize : Int, configEnd : Nat]
      BY <2>1 DEF Init
    <3> QED BY <3>1, <3>2, <3>3
  <2>3. kernelSize \in Int
    BY KernelSizesAreInt DEF Init
  <2> QED BY <2>2, <2>3 DEF Init, TypeOK, Objects
<1>2. RecordsTile /\ RecordsArePrefix /\ CutTableIsLast /\ LinksHold
  BY BootAssumption DEF Init, RecordsTile, RecordsArePrefix, CutTableIsLast, LinksHold
<1>3. TablesHold /\ HandoffIsConsistent /\ legacy.holds = "bootInfo"
  BY DEF Init, TablesHold, HandoffIsConsistent, OPENSTEP_CONFIG_LIMIT
<1> QED BY <1>1, <1>2, <1>3 DEF BootInvariant

(* Preserving the kernel touches nothing that is staged.                   *)
LEMMA PreserveStep == BootInvariant /\ preserveOpenStepBaseFile => BootInvariant'
<1> SUFFICES ASSUME BootInvariant, preserveOpenStepBaseFile PROVE BootInvariant'
  OBVIOUS
<1>1. TypeOK'
  <2>1. kernelSize' \in Int
    BY KernelSizesAreInt DEF BootInvariant, TypeOK, preserveOpenStepBaseFile
  <2> QED BY <2>1 DEF BootInvariant, TypeOK, preserveOpenStepBaseFile
<1>2. RecordsTile' /\ RecordsArePrefix' /\ CutTableIsLast'
  BY DEF BootInvariant, RecordsTile, RecordsArePrefix, CutTableIsLast, preserveOpenStepBaseFile
<1>3. TablesHold' /\ LinksHold'
  BY DEF BootInvariant, TablesHold, LinksHold, preserveOpenStepBaseFile
<1>4. HandoffIsConsistent' /\ at' # "started" /\ legacy'.holds = "bootInfo"
  BY DEF BootInvariant, HandoffIsConsistent, preserveOpenStepBaseFile
<1> QED BY <1>1, <1>2, <1>3, <1>4 DEF BootInvariant

(* The system table is the first, or there is none.                        *)
LEMMA SystemStep == BootInvariant /\ readSystemTable => BootInvariant'
<1> SUFFICES ASSUME BootInvariant, readSystemTable PROVE BootInvariant'
  OBVIOUS
<1>a. /\ TypeOK /\ at = "system" /\ at' = "tables" /\ cursor' = 1
      /\ UNCHANGED <<basefile, kernelSize, stage, output, staged, legacy, overwritten>>
  BY DEF BootInvariant, readSystemTable
<1>1. /\ config' \in [length : Nat, tables : Seq(Table)]
      /\ config'.length + 2 <= OPENSTEP_CONFIG_LIMIT
      /\ \A i \in 1..Len(config'.tables) : config'.tables[i].driver = "System"
  <2>1. CASE UNCHANGED config
    BY <1>a, <2>1 DEF BootInvariant, TypeOK, TablesHold
  <2>2. ASSUME NEW size \in TableSizes,
               NEW length \in BootDriversSet(TableRead("System", size, OPENSTEP_CONFIG_LIMIT - 2).size),
               config' = [length |-> length,
                          tables |-> <<[TableRead("System", size, OPENSTEP_CONFIG_LIMIT - 2)
                                          EXCEPT !.size = length]>>]
        PROVE  /\ config' \in [length : Nat, tables : Seq(Table)]
               /\ config'.length + 2 <= OPENSTEP_CONFIG_LIMIT
               /\ \A i \in 1..Len(config'.tables) : config'.tables[i].driver = "System"
    <3> DEFINE table == TableRead("System", size, OPENSTEP_CONFIG_LIMIT - 2)
               named == [table EXCEPT !.size = length]
    <3>1. size \in Nat /\ OPENSTEP_CONFIG_LIMIT - 2 \in Nat /\ "System" \in Names \cup {"System"}
      <4>1. size \in Nat
        BY BootAssumption
      <4>2. OPENSTEP_CONFIG_LIMIT - 2 \in Nat
        BY DEF OPENSTEP_CONFIG_LIMIT
      <4> QED BY <4>1, <4>2
    <3>2. /\ table \in Table /\ table.driver = "System"
          /\ table.size \in Nat /\ table.size <= OPENSTEP_CONFIG_LIMIT - 2
      <4> DEFINE room == OPENSTEP_CONFIG_LIMIT - 2
      <4>1. room \in Nat
        BY <3>1
      <4> HIDE DEF room
      <4>2. /\ TableRead("System", size, room) \in Table /\ TableRead("System", size, room).driver = "System"
            /\ TableRead("System", size, room).size \in Nat /\ TableRead("System", size, room).size <= room
        BY <3>1, <4>1, TableReadFits
      <4> QED BY <4>2 DEF room
    <3> HIDE DEF table
    <3>3. length \in BootDriversSet(table.size) /\ config' = [length |-> length, tables |-> <<named>>]
      BY <2>2 DEF table
    <3>4. length \in Nat /\ length + 2 <= OPENSTEP_CONFIG_LIMIT
      <4>1. table.size + 2 <= OPENSTEP_CONFIG_LIMIT
        BY <3>2 DEF OPENSTEP_CONFIG_LIMIT
      <4> QED BY <4>1, <3>2, <3>3, BootDriversFit
    <3>5. named \in Table /\ named.driver = "System"
      BY <3>2, <3>4 DEF Table
    <3> HIDE DEF named
    <3>6. <<named>> \in Seq(Table) /\ Len(<<named>>) = 1 /\ <<named>>[1] = named
      BY <3>5
    <3>7. config'.length = length /\ config'.tables = <<named>>
      BY <3>3
    <3>8. config' \in [length : Nat, tables : Seq(Table)]
      BY <3>3, <3>4, <3>6
    <3>9. \A i \in 1..Len(config'.tables) : config'.tables[i].driver = "System"
      BY <3>5, <3>6, <3>7
    <3> QED BY <3>4, <3>7, <3>8, <3>9
  <2> QED BY <2>1, <2>2 DEF readSystemTable
<1>2. TypeOK'
  BY <1>a, <1>1 DEF TypeOK
<1>3. RecordsTile' /\ RecordsArePrefix' /\ LinksHold'
  BY <1>a DEF BootInvariant, RecordsTile, RecordsArePrefix, LinksHold
<1>4. CutTableIsLast' /\ TablesHold'
  BY <1>a, <1>1 DEF CutTableIsLast, TablesHold, TypeOK, OPENSTEP_CONFIG_LIMIT
<1>5. HandoffIsConsistent' /\ at' # "started" /\ legacy'.holds = "bootInfo"
  BY <1>a DEF BootInvariant, HandoffIsConsistent
<1> QED BY <1>2, <1>3, <1>4, <1>5 DEF BootInvariant

(* The area after another table: still in order, and full after a cut one. *)
Grown ==
  /\ config' \in [length : Nat, tables : Seq(Table)]
  /\ config'.length + 2 <= OPENSTEP_CONFIG_LIMIT
  /\ CutTableIsLast'
  /\ \A i \in 1..Len(config'.tables) :
       config'.tables[i].driver # "System" /\ config'.tables[i].text = "cut" =>
         config'.length + 2 >= OPENSTEP_CONFIG_LIMIT

(* A table that goes behind the others.                                    *)
LEMMA AppendTable ==
  ASSUME NEW length \in Nat, NEW tables \in Seq(Table), NEW table \in Table,
         config = [length |-> length, tables |-> tables], config' = Appended(table),
         length + 2 < OPENSTEP_CONFIG_LIMIT, table.size <= Room(length),
         table.text = "cut" => table.size = Room(length),
         \A i \in 1..Len(tables) : ~(tables[i].driver # "System" /\ tables[i].text = "cut")
  PROVE  Grown
<1> DEFINE more == Append(tables, table)
           n == length + 1 + table.size
<1>1. config' = [length |-> n, tables |-> more]
  BY DEF Appended
<1>2. /\ more \in Seq(Table) /\ Len(more) = Len(tables) + 1 /\ Len(tables) \in Nat
      /\ more[Len(tables) + 1] = table
      /\ \A i \in 1..Len(tables) : more[i] = tables[i]
  OBVIOUS
<1>3. /\ n \in Nat /\ n + 2 <= OPENSTEP_CONFIG_LIMIT
      /\ table.text = "cut" => n + 2 = OPENSTEP_CONFIG_LIMIT
  <2>1. table.size \in Nat
    BY DEF Table
  <2> QED BY <2>1 DEF Room, OPENSTEP_CONFIG_LIMIT
<1>4. \A i \in 1..Len(more) :
        more[i].driver # "System" /\ more[i].text = "cut" => i = Len(more) /\ table.text = "cut"
  <2> SUFFICES ASSUME NEW i \in 1..Len(more), more[i].driver # "System", more[i].text = "cut"
               PROVE  i = Len(more) /\ table.text = "cut"
    OBVIOUS
  <2>1. CASE i \in 1..Len(tables)
    BY <1>2, <2>1
  <2>2. CASE i = Len(tables) + 1
    BY <1>2, <2>2
  <2>3. i \in 1..Len(tables) \/ i = Len(tables) + 1
    BY <1>2
  <2> QED BY <2>1, <2>2, <2>3
<1> HIDE DEF more, n
<1>5. config'.length = n /\ config'.tables = more
  BY <1>1
<1>6. config' \in [length : Nat, tables : Seq(Table)]
  BY <1>1, <1>2, <1>3
<1>7. CutTableIsLast'
  BY <1>4, <1>5 DEF CutTableIsLast
<1>8. n + 2 <= OPENSTEP_CONFIG_LIMIT /\ (table.text = "cut" => n + 2 >= OPENSTEP_CONFIG_LIMIT)
  BY <1>3 DEF OPENSTEP_CONFIG_LIMIT
<1> QED BY <1>4, <1>5, <1>6, <1>7, <1>8 DEF Grown

(* One word of the list: its table fits, or nothing is added.              *)
LEMMA TableStep == BootInvariant /\ appendOpenStepDriverTable => BootInvariant'
<1> SUFFICES ASSUME BootInvariant, appendOpenStepDriverTable PROVE BootInvariant'
  OBVIOUS
<1>a. /\ TypeOK /\ CutTableIsLast /\ TablesHold /\ at = "tables" /\ at' \in {"tables", "edits"}
      /\ UNCHANGED <<basefile, kernelSize, stage, output, staged, legacy, overwritten>>
  BY DEF BootInvariant, appendOpenStepDriverTable
<1>b. /\ config \in [length : Nat, tables : Seq(Table)] /\ cursor \in Nat \ {0}
      /\ config.length + 2 <= OPENSTEP_CONFIG_LIMIT
  BY <1>a DEF TypeOK, TablesHold
<1>c. \A i \in 1..Len(config.tables) :
        config.tables[i].driver # "System" /\ config.tables[i].text = "cut" =>
          config.length + 2 >= OPENSTEP_CONFIG_LIMIT
  BY <1>a DEF TablesHold
<1>1. cursor' \in Nat \ {0} /\ Grown
  <2>1. CASE UNCHANGED config /\ cursor' \in {cursor, cursor + 1}
    <3>1. cursor' \in Nat \ {0}
      BY <1>b, <2>1
    <3>2. CutTableIsLast'
      BY <1>a, <2>1 DEF CutTableIsLast
    <3> QED BY <1>b, <1>c, <2>1, <3>1, <3>2 DEF Grown
  <2>2. ASSUME NEW table \in Table, ~TablesEnd, cursor' = cursor + 1, config' = Appended(table),
               table.size <= Room(config.length),
               table.text = "cut" => table.size = Room(config.length)
        PROVE  cursor' \in Nat \ {0} /\ Grown
    <3>1. config.length + 2 < OPENSTEP_CONFIG_LIMIT
      <4>1. ~(config.length + 2 >= OPENSTEP_CONFIG_LIMIT)
        BY <2>2 DEF TablesEnd
      <4> QED BY <1>b, <4>1 DEF OPENSTEP_CONFIG_LIMIT
    <3>2. \A i \in 1..Len(config.tables) :
            ~(config.tables[i].driver # "System" /\ config.tables[i].text = "cut")
      <4>1. ~(config.length + 2 >= OPENSTEP_CONFIG_LIMIT)
        BY <2>2 DEF TablesEnd
      <4> QED BY <1>c, <4>1
    <3>3. config = [length |-> config.length, tables |-> config.tables]
          /\ config.length \in Nat /\ config.tables \in Seq(Table)
      BY <1>b
    <3>4. cursor' \in Nat \ {0}
      BY <1>b, <2>2
    <3> QED BY <2>2, <3>1, <3>2, <3>3, <3>4, AppendTable
  <2>3. CASE TablesEnd
    BY <2>1, <2>3 DEF appendOpenStepDriverTable
  <2>4. CASE ~TablesEnd
    <3>1. cursor' = cursor + 1 /\ Drivers[cursor] \in Names
      <4>1. cursor \in 1..Len(Drivers)
        <5>1. ~(cursor > Len(Drivers)) /\ Len(Drivers) \in Nat
          BY <2>4, BootAssumption DEF TablesEnd
        <5> QED BY <5>1, <1>b
      <4> QED BY <2>4, <4>1 DEF appendOpenStepDriverTable, Names
    <3>2. \/ \E size \in TableSizes :
               /\ Room(config.length) > 0
               /\ config' = Appended(TableRead(Drivers[cursor], size, Room(config.length)))
          \/ /\ BuiltInSize \in 1..Room(config.length)
             /\ config' = Appended([driver |-> Drivers[cursor], size |-> BuiltInSize,
                                    text |-> "whole"])
          \/ UNCHANGED config
      BY <2>4 DEF appendOpenStepDriverTable
    <3>3. ASSUME NEW size \in TableSizes, Room(config.length) > 0,
                 config' = Appended(TableRead(Drivers[cursor], size, Room(config.length)))
          PROVE  cursor' \in Nat \ {0} /\ Grown
      <4>1. size \in Nat
        BY BootAssumption
      <4>2. Room(config.length) \in Nat
        BY <1>b, <3>3 DEF Room, OPENSTEP_CONFIG_LIMIT
      <4> DEFINE room == Room(config.length)
                 table == TableRead(Drivers[cursor], size, room)
      <4>3. /\ table \in Table /\ table.size <= room
            /\ table.text = "cut" => table.size = room
        <5>1. room \in Nat /\ Drivers[cursor] \in Names \cup {"System"}
          BY <3>1, <4>2
        <5> HIDE DEF room
        <5> QED BY <4>1, <5>1, TableReadFits
      <4>4. config' = Appended(table)
        BY <3>3
      <4> HIDE DEF table
      <4> QED BY <2>2, <2>4, <3>1, <4>3, <4>4
    <3>4. ASSUME BuiltInSize \in 1..Room(config.length),
                 config' = Appended([driver |-> Drivers[cursor], size |-> BuiltInSize,
                                     text |-> "whole"])
          PROVE  cursor' \in Nat \ {0} /\ Grown
      <4> DEFINE table == [driver |-> Drivers[cursor], size |-> BuiltInSize, text |-> "whole"]
      <4>1. Room(config.length) \in Int
        BY <1>b DEF Room, OPENSTEP_CONFIG_LIMIT
      <4>2. BuiltInSize \in Nat /\ BuiltInSize <= Room(config.length)
        BY <3>4, <4>1
      <4>3. table \in Table
        BY <3>1, <4>2 DEF Table
      <4>4. table.size = BuiltInSize /\ table.text = "whole"
        OBVIOUS
      <4>5. config' = Appended(table)
        BY <3>4
      <4> HIDE DEF table
      <4>6. table.size <= Room(config.length) /\ table.text # "cut"
        BY <4>2, <4>4
      <4> QED BY <2>2, <2>4, <3>1, <4>3, <4>5, <4>6
    <3> QED BY <2>1, <3>1, <3>2, <3>3, <3>4
  <2> QED BY <2>3, <2>4
<1>2. TypeOK'
  BY <1>a, <1>1 DEF TypeOK, Grown
<1>3. RecordsTile' /\ RecordsArePrefix' /\ LinksHold'
  BY <1>a DEF BootInvariant, RecordsTile, RecordsArePrefix, LinksHold
<1>4. TablesHold' /\ CutTableIsLast'
  BY <1>a, <1>1 DEF TablesHold, Grown, OPENSTEP_CONFIG_LIMIT
<1>5. HandoffIsConsistent' /\ at' # "started" /\ legacy'.holds = "bootInfo"
  BY <1>a DEF BootInvariant, HandoffIsConsistent
<1> QED BY <1>2, <1>3, <1>4, <1>5 DEF BootInvariant

(* The edits change the length alone.                                      *)
LEMMA EditStep == BootInvariant /\ editTables => BootInvariant'
<1> SUFFICES ASSUME BootInvariant, editTables PROVE BootInvariant'
  OBVIOUS
<1>a. /\ TypeOK /\ CutTableIsLast /\ TablesHold /\ at = "edits" /\ at' = "sarld"
      /\ UNCHANGED <<basefile, kernelSize, cursor, stage, output, staged, legacy, overwritten>>
  BY DEF BootInvariant, editTables
<1>b. /\ config \in [length : Nat, tables : Seq(Table)]
      /\ config.length + 2 <= OPENSTEP_CONFIG_LIMIT
  BY <1>a DEF TypeOK, TablesHold
<1>c. PICK n \in ForcedATAPISlave(config.length) : \E m \in ForcedPrimaryEIDE(n) :
        config' = [config EXCEPT !.length = m]
  BY DEF editTables
<1>1. PICK m \in ForcedPrimaryEIDE(n) : config' = [config EXCEPT !.length = m]
  BY <1>c
<1>2. /\ m \in Nat /\ m < OPENSTEP_CONFIG_LIMIT
      /\ ~AtapiSlave => m + 2 <= OPENSTEP_CONFIG_LIMIT
  BY <1>b, EditsFit
<1>3. /\ config' \in [length : Nat, tables : Seq(Table)]
      /\ config'.length = m /\ config'.tables = config.tables
  BY <1>b, <1>1, <1>2
<1>4. TypeOK'
  BY <1>a, <1>3 DEF TypeOK
<1>5. CutTableIsLast' /\ TablesHold'
  BY <1>a, <1>2, <1>3 DEF CutTableIsLast, TablesHold
<1>6. RecordsTile' /\ RecordsArePrefix' /\ LinksHold'
  BY <1>a DEF BootInvariant, RecordsTile, RecordsArePrefix, LinksHold
<1>7. HandoffIsConsistent' /\ at' # "started" /\ legacy'.holds = "bootInfo"
  BY <1>a DEF BootInvariant, HandoffIsConsistent
<1> QED BY <1>4, <1>5, <1>6, <1>7 DEF BootInvariant

-----------------------------------------------------------------------------
(* The steps from sarld on leave the tables as they are.                   *)
LEMMA TablesStay ==
  ASSUME BootInvariant, UNCHANGED config, at \in {"sarld", "link", "publish"},
         at' \in {"link", "publish", "started"}
  PROVE  CutTableIsLast' /\ TablesHold'
  BY DEF BootInvariant, CutTableIsLast, TablesHold

(* Linking starts behind the kernel, with no record.                       *)
LEMMA SarldStep == BootInvariant /\ loadOpenStepSarld => BootInvariant'
<1> SUFFICES ASSUME BootInvariant, loadOpenStepSarld PROVE BootInvariant'
  OBVIOUS
<1>a. /\ TypeOK /\ at = "sarld" /\ cursor' = 1 /\ at' \in {"link", "publish"}
      /\ UNCHANGED <<basefile, kernelSize, config, legacy>>
      /\ staged.records = << >>
  BY DEF BootInvariant, LinksHold, loadOpenStepSarld
<1>b. /\ kernelSize \in Int /\ output \in Int /\ stage \in Objects
      /\ staged \in [sarld : {"none", "mapped"}, records : Seq(Record)]
      /\ overwritten \subseteq {"image", "stack"}
  BY <1>a DEF TypeOK
<1>1. CutTableIsLast' /\ TablesHold'
  BY <1>a, TablesStay
<1>2. HandoffIsConsistent' /\ at' # "started" /\ legacy'.holds = "bootInfo"
  BY <1>a DEF BootInvariant, HandoffIsConsistent
<1>3. /\ staged' \in [sarld : {"none", "mapped"}, records : Seq(Record)]
      /\ staged'.records = << >> /\ (at' = "link" => staged'.sarld = "mapped")
  BY <1>a, <1>b DEF loadOpenStepSarld
<1>4. stage' \in Objects
  BY <1>b DEF loadOpenStepSarld, Objects
<1>5. overwritten' \subseteq {"image", "stack"}
  BY <1>b DEF loadOpenStepSarld, Mapped
<1>6. output' \in Int
  <2>1. KernelAddress \in Nat
    BY BootAssumption
  <2>2. roundPage(KernelAddress + kernelSize) \in Int
    BY <1>b, <2>1 DEF roundPage
  <2> QED BY <1>b, <2>2 DEF loadOpenStepSarld
<1>7. TypeOK'
  BY <1>a, <1>3, <1>4, <1>5, <1>6 DEF TypeOK
<1>8. RecordsTile' /\ RecordsArePrefix'
  BY <1>3, BootAssumption DEF RecordsTile, RecordsArePrefix
<1>9. LinksHold'
  BY <1>a, <1>3 DEF LinksHold
<1> QED BY <1>1, <1>2, <1>7, <1>8, <1>9 DEF BootInvariant

(* One more driver goes where the last one ended and takes the next place. *)
LEMMA AppendRecord ==
  ASSUME NEW size \in Linkable, NEW record \in Record,
         staged \in [sarld : {"none", "mapped"}, records : Seq(Record)], output \in Int,
         RecordsTile, RecordsArePrefix, cursor = Len(staged.records) + 1, ~LinksEnd,
         record.driver = Drivers[cursor], record.address = output, record.size = size,
         staged' = [staged EXCEPT !.records = Append(@, record)],
         output' = output + size
  PROVE  /\ staged' \in [sarld : {"none", "mapped"}, records : Seq(Record)]
         /\ staged'.sarld = staged.sarld
         /\ Len(staged'.records) = Len(staged.records) + 1
         /\ output' \in Int
         /\ RecordsTile' /\ RecordsArePrefix'
<1> DEFINE R == staged.records
           more == Append(R, record)
<1>0. R \in Seq(Record)
  OBVIOUS
<1>1. staged' = [staged EXCEPT !.records = more]
  OBVIOUS
<1>2. /\ more \in Seq(Record) /\ Len(more) = Len(R) + 1 /\ Len(R) \in Nat
      /\ more[Len(R) + 1] = record
      /\ \A i \in 1..Len(R) : more[i] = R[i]
  BY <1>0
<1>3. size \in Nat /\ size > 0 /\ output + size <= OPENSTEP_SARLD_MALLOC
  BY BootAssumption DEF Linkable
<1>4. /\ cursor <= Len(Drivers) /\ Len(R) < DriverLimit
      /\ cursor = Len(R) + 1 /\ Len(Drivers) \in Nat /\ DriverLimit \in Nat
  <2>1. ~(cursor > Len(Drivers)) /\ ~(Len(R) >= DriverLimit)
    BY DEF LinksEnd
  <2>2. Len(Drivers) \in Nat /\ DriverLimit \in Nat
    BY BootAssumption
  <2> QED BY <1>2, <2>1, <2>2
<1>5. \A i \in 1..Len(R) :
        /\ R[i] \in Record /\ R[i].size \in Nat /\ R[i].address \in Int
        /\ R[i].size > 0
        /\ R[i].address + R[i].size = IF i = Len(R) THEN output ELSE R[i + 1].address
        /\ R[i].address + R[i].size <= OPENSTEP_SARLD_MALLOC
        /\ i <= Len(Drivers) /\ R[i].driver = Drivers[i]
  <2> SUFFICES ASSUME NEW i \in 1..Len(R)
               PROVE  /\ R[i] \in Record /\ R[i].size \in Nat /\ R[i].address \in Int
                      /\ R[i].size > 0
                      /\ R[i].address + R[i].size = IF i = Len(R) THEN output ELSE R[i + 1].address
                      /\ R[i].address + R[i].size <= OPENSTEP_SARLD_MALLOC
                      /\ i <= Len(Drivers) /\ R[i].driver = Drivers[i]
    OBVIOUS
  <2>1. R[i] \in Record
    BY <1>0
  <2>2. R[i].size \in Nat /\ R[i].address \in Int
    BY <2>1 DEF Record
  <2>3. /\ R[i].size > 0
        /\ R[i].address + R[i].size = IF i = Len(R) THEN output ELSE R[i + 1].address
        /\ R[i].address + R[i].size <= OPENSTEP_SARLD_MALLOC
    BY DEF RecordsTile
  <2>4. i <= Len(Drivers) /\ R[i].driver = Drivers[i]
    BY DEF RecordsArePrefix
  <2> QED BY <2>1, <2>2, <2>3, <2>4
<1> HIDE DEF more, R
<1>6. /\ staged' \in [sarld : {"none", "mapped"}, records : Seq(Record)]
      /\ staged'.sarld = staged.sarld /\ staged'.records = more
  BY <1>1, <1>2
<1>7. \A i \in 1..Len(more) : i \in 1..Len(R) \/ i = Len(R) + 1
  BY <1>2
<1>8. RecordsTile'
  <2> SUFFICES ASSUME NEW i \in 1..Len(more)
               PROVE  /\ more[i].size > 0
                      /\ more[i].address + more[i].size =
                           IF i = Len(more) THEN output' ELSE more[i + 1].address
                      /\ more[i].address + more[i].size <= OPENSTEP_SARLD_MALLOC
    BY <1>6 DEF RecordsTile
  <2>1. CASE i = Len(R) + 1
    BY <1>2, <1>3, <2>1
  <2>2. CASE i \in 1..Len(R) /\ i # Len(R)
    <3>1. i + 1 \in 1..Len(R) /\ i # Len(more)
      BY <1>2, <2>2
    <3>2. more[i] = R[i] /\ more[i + 1] = R[i + 1]
      BY <1>2, <2>2, <3>1
    <3> QED BY <1>5, <2>2, <3>1, <3>2
  <2>3. CASE i \in 1..Len(R) /\ i = Len(R)
    <3>1. i # Len(more) /\ more[i] = R[i] /\ more[i + 1] = record
      BY <1>2, <2>3
    <3>2. R[i].address + R[i].size = output /\ R[i].size > 0
          /\ R[i].address + R[i].size <= OPENSTEP_SARLD_MALLOC
      BY <1>5, <2>3
    <3> QED BY <3>1, <3>2
  <2> QED BY <1>7, <2>1, <2>2, <2>3
<1>9. RecordsArePrefix'
  <2>1. Len(more) <= DriverLimit
    BY <1>2, <1>4
  <2>2. ASSUME NEW i \in 1..Len(more) PROVE i <= Len(Drivers) /\ more[i].driver = Drivers[i]
    <3>1. CASE i \in 1..Len(R)
      BY <1>2, <1>5, <3>1
    <3>2. CASE i = Len(R) + 1
      BY <1>2, <1>4, <3>2
    <3> QED BY <1>7, <3>1, <3>2
  <2> QED BY <1>6, <2>1, <2>2 DEF RecordsArePrefix
<1> QED BY <1>2, <1>3, <1>6, <1>8, <1>9 DEF R

LEMMA CallsWriteTheLoader == Called \subseteq overwritten \cup {"image"}
  BY DEF Called

(* A link adds one record.                                                 *)
LEMMA LinkStep == BootInvariant /\ linkOpenStepDriver => BootInvariant'
<1> SUFFICES ASSUME BootInvariant, linkOpenStepDriver PROVE BootInvariant'
  OBVIOUS
<1>a. /\ TypeOK /\ RecordsTile /\ RecordsArePrefix
      /\ at = "link" /\ at' = "link" /\ ~LinksEnd
      /\ cursor = Len(staged.records) + 1 /\ staged.sarld = "mapped"
      /\ cursor' = cursor + 1
      /\ UNCHANGED <<basefile, kernelSize, config, legacy>>
  BY DEF BootInvariant, LinksHold, linkOpenStepDriver, stageObject
<1>b. /\ output \in Int /\ stage \in Objects /\ cursor \in Nat \ {0}
      /\ staged \in [sarld : {"none", "mapped"}, records : Seq(Record)]
      /\ overwritten \subseteq {"image", "stack"}
  BY <1>a DEF TypeOK
<1>c. Drivers[cursor] \in Names
  <2>1. ~(cursor > Len(Drivers)) /\ Len(Drivers) \in Nat
    BY <1>a, BootAssumption DEF LinksEnd
  <2>2. cursor \in 1..Len(Drivers)
    BY <1>b, <2>1
  <2> QED BY <2>2 DEF Names
<1>1. stage' \in Objects
  BY <1>b, <1>c DEF linkOpenStepDriver, stageObject, Objects
<1>2. overwritten' \subseteq {"image", "stack"}
  BY <1>b, CallsWriteTheLoader DEF linkOpenStepDriver, stageObject
<1>3. PICK size \in Linkable : recordDriver(size)
  BY DEF linkOpenStepDriver
<1>4. size \in Nat
  BY BootAssumption DEF Linkable
<1> DEFINE record == [driver |-> Drivers[cursor], object |-> stage', address |-> output, size |-> size]
<1>5. /\ record \in Record /\ record.driver = Drivers[cursor]
      /\ record.address = output /\ record.size = size
  BY <1>1, <1>4, <1>b, <1>c DEF Record
<1>6. staged' = [staged EXCEPT !.records = Append(@, record)] /\ output' = output + size
  BY <1>3 DEF recordDriver
<1> HIDE DEF record
<1>7. /\ staged' \in [sarld : {"none", "mapped"}, records : Seq(Record)]
      /\ staged'.sarld = "mapped"
      /\ Len(staged'.records) = Len(staged.records) + 1
      /\ output' \in Int
      /\ RecordsTile' /\ RecordsArePrefix'
  BY <1>a, <1>b, <1>5, <1>6, AppendRecord
<1>8. cursor' \in Nat \ {0} /\ cursor' = Len(staged'.records) + 1
  BY <1>a, <1>b, <1>7
<1>9. TypeOK'
  BY <1>a, <1>1, <1>2, <1>7, <1>8 DEF TypeOK
<1>10. LinksHold'
  BY <1>a, <1>7, <1>8 DEF LinksHold
<1>11. CutTableIsLast' /\ TablesHold'
  BY <1>a, TablesStay
<1>12. HandoffIsConsistent' /\ at' # "started" /\ legacy'.holds = "bootInfo"
  BY <1>a DEF BootInvariant, HandoffIsConsistent
<1> QED BY <1>7, <1>9, <1>10, <1>11, <1>12 DEF BootInvariant

(* When the list ends, the kernel reaches to the last driver's end.        *)
LEMMA LinkingEndsStep == BootInvariant /\ linkingEnds => BootInvariant'
<1> SUFFICES ASSUME BootInvariant, linkingEnds PROVE BootInvariant'
  OBVIOUS
<1>a. /\ TypeOK /\ RecordsTile /\ RecordsArePrefix
      /\ at = "link" /\ at' = "publish" /\ staged.sarld = "mapped"
      /\ kernelSize' = output - KernelAddress
      /\ UNCHANGED <<basefile, config, cursor, output, staged, legacy>>
  BY DEF BootInvariant, LinksHold, linkingEnds, notLinked
<1>b. /\ output \in Int /\ stage \in Objects /\ cursor \in Nat \ {0}
      /\ overwritten \subseteq {"image", "stack"}
  BY <1>a DEF TypeOK
<1>1. KernelAddress \in Nat
  BY BootAssumption
<1>2. kernelSize' \in Int /\ KernelAddress + kernelSize' = output
  BY <1>a, <1>b, <1>1
<1>3. stage' \in Objects
  <2>1. CASE LinksEnd
    BY <1>b, <2>1 DEF linkingEnds, notLinked
  <2>2. CASE ~LinksEnd
    <3>1. ~(cursor > Len(Drivers)) /\ Len(Drivers) \in Nat
      BY <2>2, BootAssumption DEF LinksEnd
    <3>2. cursor \in 1..Len(Drivers)
      BY <1>b, <3>1
    <3> QED BY <1>b, <2>2, <3>2 DEF linkingEnds, notLinked, Objects, Names
  <2> QED BY <2>1, <2>2
<1>4. overwritten' \subseteq {"image", "stack"}
  <2>1. overwritten' \in {overwritten, Called}
    BY DEF linkingEnds, notLinked
  <2> QED BY <1>b, <2>1, CallsWriteTheLoader
<1>5. TypeOK'
  BY <1>a, <1>2, <1>3, <1>4 DEF TypeOK
<1>6. RecordsTile' /\ RecordsArePrefix'
  BY <1>a DEF RecordsTile, RecordsArePrefix
<1>7. LinksHold'
  BY <1>a, <1>2 DEF LinksHold
<1>8. CutTableIsLast' /\ TablesHold'
  BY <1>a, TablesStay
<1>9. HandoffIsConsistent' /\ at' # "started" /\ legacy'.holds = "bootInfo"
  BY <1>a DEF BootInvariant, HandoffIsConsistent
<1> QED BY <1>5, <1>6, <1>7, <1>8, <1>9 DEF BootInvariant

(* The published structure repeats what was staged.                        *)
LEMMA PublishStep == BootInvariant /\ publish => BootInvariant'
<1> SUFFICES ASSUME BootInvariant, publish PROVE BootInvariant'
  OBVIOUS
<1>a. /\ TypeOK /\ RecordsTile /\ RecordsArePrefix /\ LinksHold /\ TablesHold
      /\ at = "publish" /\ at' = "started"
      /\ UNCHANGED <<basefile, kernelSize, config, cursor, stage, output, staged>>
  BY DEF BootInvariant, publish
<1>b. /\ kernelSize \in Int /\ config.length \in Nat
      /\ staged \in [sarld : {"none", "mapped"}, records : Seq(Record)]
      /\ overwritten \subseteq {"image", "stack"}
  BY <1>a DEF TypeOK
<1> DEFINE end == BOOTSTRUCT_ADDR + OPENSTEP_CONFIG_OFFSET + config.length
<1>1. end \in Nat
  BY <1>b DEF BOOTSTRUCT_ADDR, OPENSTEP_CONFIG_OFFSET
<1>2. legacy' = [holds |-> "bootStruct", records |-> staged.records, sarld |-> staged.sarld,
                 kernelSize |-> kernelSize, configEnd |-> end]
  BY DEF publish
<1>3. overwritten' \subseteq {"image", "stack"}
  BY <1>b DEF publish
<1>4. end + (IF AtapiSlave THEN 1 ELSE 2) <= BOOTSTRUCT_ADDR + OPENSTEP_CONFIG_OFFSET + OPENSTEP_CONFIG_LIMIT
  <2>1. /\ config.length < OPENSTEP_CONFIG_LIMIT
        /\ ~AtapiSlave => config.length + 2 <= OPENSTEP_CONFIG_LIMIT
    BY <1>a DEF TablesHold
  <2>2. CASE AtapiSlave
    BY <1>b, <2>1, <2>2 DEF BOOTSTRUCT_ADDR, OPENSTEP_CONFIG_OFFSET, OPENSTEP_CONFIG_LIMIT
  <2>3. CASE ~AtapiSlave
    BY <1>b, <2>1, <2>3 DEF BOOTSTRUCT_ADDR, OPENSTEP_CONFIG_OFFSET, OPENSTEP_CONFIG_LIMIT
  <2> QED BY <2>2, <2>3
<1> HIDE DEF end
<1>5. legacy' \in [holds : {"bootInfo", "bootStruct"}, records : Seq(Record),
                   sarld : {"none", "mapped"}, kernelSize : Int, configEnd : Nat]
  BY <1>b, <1>1, <1>2
<1>6. TypeOK'
  BY <1>a, <1>3, <1>5 DEF TypeOK
<1>7. HandoffIsConsistent'
  <2>1. ASSUME staged.records # << >>
        PROVE  LET last == staged.records[Len(staged.records)]
               IN KernelAddress + kernelSize = last.address + last.size /\ staged.sarld = "mapped"
    <3>1. Len(staged.records) \in 1..Len(staged.records)
      BY <1>b, <2>1
    <3>2. staged.records[Len(staged.records)].address + staged.records[Len(staged.records)].size = output
      BY <1>a, <3>1 DEF RecordsTile
    <3> QED BY <1>a, <2>1, <3>2 DEF LinksHold
  <2>2. /\ legacy'.holds = "bootStruct" /\ legacy'.records = staged.records
        /\ legacy'.sarld = staged.sarld /\ legacy'.kernelSize = kernelSize
        /\ legacy'.configEnd = end
    BY <1>2
  <2> QED BY <1>4, <2>1, <2>2 DEF HandoffIsConsistent
<1>8. RecordsTile' /\ RecordsArePrefix'
  BY <1>a DEF RecordsTile, RecordsArePrefix
<1>9. LinksHold'
  BY <1>a DEF LinksHold
<1>10. CutTableIsLast' /\ TablesHold'
  BY <1>a, TablesStay
<1> QED BY <1>a, <1>6, <1>7, <1>8, <1>9, <1>10 DEF BootInvariant

LEMMA StutterStep == BootInvariant /\ UNCHANGED vars => BootInvariant'
<1> SUFFICES ASSUME BootInvariant, UNCHANGED vars PROVE BootInvariant'
  OBVIOUS
<1>1. TypeOK'
  BY DEF BootInvariant, TypeOK, vars
<1>2. RecordsTile' /\ RecordsArePrefix' /\ CutTableIsLast'
  BY DEF BootInvariant, RecordsTile, RecordsArePrefix, CutTableIsLast, vars
<1>3. TablesHold' /\ LinksHold'
  BY DEF BootInvariant, TablesHold, LinksHold, vars
<1>4. HandoffIsConsistent' /\ (at' # "started" => legacy'.holds = "bootInfo")
  BY DEF BootInvariant, HandoffIsConsistent, vars
<1> QED BY <1>1, <1>2, <1>3, <1>4 DEF BootInvariant

-----------------------------------------------------------------------------
(* Every step keeps the invariant.                                         *)
THEOREM BootInvariantHolds == Spec => []BootInvariant
<1>1. BootInvariant /\ [Next]_vars => BootInvariant'
  BY PreserveStep, SystemStep, TableStep, EditStep, SarldStep, LinkStep, LinkingEndsStep,
     PublishStep, StutterStep DEF Next
<1> QED BY InitHolds, <1>1, PTL DEF Spec

(* Linked drivers lie one behind the other, below sarld's heap.            *)
THEOREM DriversTile == Spec => []RecordsTile
<1>1. BootInvariant => RecordsTile
  BY DEF BootInvariant
<1> QED BY BootInvariantHolds, <1>1, PTL

(* appendOpenStepDriverTable cuts at most one table, which nothing follows. *)
THEOREM CutEndsTheTables == Spec => []CutTableIsLast
<1>1. BootInvariant => CutTableIsLast
  BY DEF BootInvariant
<1> QED BY BootInvariantHolds, <1>1, PTL

(* What the kernel is told fits together.                                  *)
THEOREM HandoffConsistent == Spec => []HandoffIsConsistent
<1>1. BootInvariant => HandoffIsConsistent
  BY DEF BootInvariant
<1> QED BY BootInvariantHolds, <1>1, PTL

(* The live boot information stays until the last read and link are done.  *)
THEOREM BootInfoSurvives == Spec => BootInfoOutlivesReads
<1> DEFINE Kept == UNCHANGED <<config, stage, staged, output>>
                   \/ (legacy.holds = "bootInfo" /\ UNCHANGED legacy)
<1>1. BootInvariant /\ [Next]_vars => [Kept]_vars
  <2> SUFFICES ASSUME BootInvariant, Next PROVE Kept
    OBVIOUS
  <2>1. CASE publish
    BY <2>1 DEF publish
  <2>2. CASE ~publish
    <3>1. UNCHANGED legacy
      BY <2>2 DEF Next, preserveOpenStepBaseFile, readSystemTable, appendOpenStepDriverTable,
                  editTables, loadOpenStepSarld, linkOpenStepDriver, linkingEnds, notLinked
    <3>2. at # "started"
      BY <2>2 DEF Next, preserveOpenStepBaseFile, readSystemTable, appendOpenStepDriverTable,
                  editTables, loadOpenStepSarld, linkOpenStepDriver, stageObject, linkingEnds, notLinked
    <3> QED BY <3>1, <3>2 DEF BootInvariant
  <2> QED BY <2>1, <2>2
<1> QED BY BootInvariantHolds, <1>1, PTL DEF Spec, BootInfoOutlivesReads
=============================================================================
