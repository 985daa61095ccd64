--------------------------- MODULE BootProperties ---------------------------
(***************************************************************************)
(* What must be true of BootE's handoff to the OPENSTEP kernel.            *)
(***************************************************************************)
EXTENDS BootHandoff

Names == {Drivers[i] : i \in 1..Len(Drivers)}

Table == [driver : Names \cup {"System"}, size : Nat, text : {"whole", "cut"}]

Objects == Names \cup {"none", "sarld"}

Record == [driver : Names, object : Objects, address : Int, size : Nat]

(* Type correctness of the loader's state.                                 *)
TypeOK ==
  /\ at \in {"basefile", "system", "tables", "edits", "sarld", "link", "publish", "started"}
  /\ basefile \in {"none", "kept"}
  /\ kernelSize \in Int
  /\ config \in [length : Nat, tables : Seq(Table)]
  /\ cursor \in Nat \ {0}
  /\ stage \in Objects
  /\ output \in Int
  /\ staged \in [sarld : {"none", "mapped"}, records : Seq(Record)]
  /\ legacy \in [holds : {"bootInfo", "bootStruct"}, records : Seq(Record),
                 sarld : {"none", "mapped"}, kernelSize : Int, configEnd : Nat]
  /\ overwritten \subseteq {"image", "stack"}

-----------------------------------------------------------------------------
(* The linked drivers lie one behind the other, the last one ends where    *)
(* the next would go, and none reaches into sarld's heap.                  *)
RecordsTile ==
  LET records == staged.records
  IN \A i \in 1..Len(records) :
       /\ records[i].size > 0
       /\ records[i].address + records[i].size =
            IF i = Len(records) THEN output ELSE records[i + 1].address
       /\ records[i].address + records[i].size <= OPENSTEP_SARLD_MALLOC

(* The kernel tells drivers apart by their order: the records belong to    *)
(* the first words of the list, without a gap, and there are no more than  *)
(* the structure has room for.                                             *)
RecordsArePrefix ==
  /\ Len(staged.records) <= DriverLimit
  /\ \A i \in 1..Len(staged.records) : i <= Len(Drivers) /\ staged.records[i].driver = Drivers[i]

(* A driver's table that had to be cut is the last one: no other driver's  *)
(* table continues the cut text.                                           *)
CutTableIsLast ==
  \A i \in 1..Len(config.tables) :
    config.tables[i].driver # "System" /\ config.tables[i].text = "cut" => i = Len(config.tables)

(* What the kernel is told fits together: its extent ends with the last    *)
(* driver, drivers come with sarld's entry, and the tables with both NULs  *)
(* end in the area set aside for them (a byte behind it when the ATAPI     *)
(* edit filled it, since that edit leaves room for one NUL only).          *)
HandoffIsConsistent ==
  at = "started" =>
    /\ legacy.holds = "bootStruct"
    /\ legacy.records # << >> =>
         LET last == legacy.records[Len(legacy.records)]
         IN /\ KernelAddress + legacy.kernelSize = last.address + last.size
            /\ legacy.sarld = "mapped"
    /\ legacy.configEnd + (IF AtapiSlave THEN 1 ELSE 2) <=
         BOOTSTRUCT_ADDR + OPENSTEP_CONFIG_OFFSET + OPENSTEP_CONFIG_LIMIT

(* openstep_boot.c: "Do not touch Chameleon's live 0x11000 PrivateBootInfo *)
(* until every UFS read and standalone link has completed": a step that    *)
(* reads or links finds the boot information there and leaves it.          *)
BootInfoOutlivesReads ==
  [][UNCHANGED <<config, stage, staged, output>>
     \/ (legacy.holds = "bootInfo" /\ UNCHANGED legacy)]_vars

(* Whatever is missing or refused on the volume, the kernel is started.    *)
HandoffHappens == <>(at = "started")

(* boot-reverse-engineering.md on loading sarld: the loader no longer      *)
(* overwrites its own executing image.                                     *)
LoaderIntact == "image" \notin overwritten

-----------------------------------------------------------------------------
TablesHold ==
  /\ config.length < OPENSTEP_CONFIG_LIMIT
  /\ ~AtapiSlave \/ at \in {"basefile", "system", "tables", "edits"} =>
       config.length + 2 <= OPENSTEP_CONFIG_LIMIT
  /\ at \in {"basefile", "system"} => config.tables = << >>
  /\ at = "tables" =>
       \A i \in 1..Len(config.tables) :
         config.tables[i].driver # "System" /\ config.tables[i].text = "cut" =>
           config.length + 2 >= OPENSTEP_CONFIG_LIMIT

LinksHold ==
  /\ at \in {"basefile", "system", "tables", "edits", "sarld"} => staged.records = << >>
  /\ at = "link" => cursor = Len(staged.records) + 1 /\ staged.sarld = "mapped"
  /\ at \in {"publish", "started"} /\ staged.records # << >> =>
       staged.sarld = "mapped" /\ KernelAddress + kernelSize = output

(* The strengthening that is inductive: which part of the staged state is  *)
(* complete at which point, and what the limits leave.                     *)
BootInvariant ==
  /\ TypeOK
  /\ RecordsTile
  /\ RecordsArePrefix
  /\ CutTableIsLast
  /\ TablesHold
  /\ LinksHold
  /\ HandoffIsConsistent
  /\ at # "started" => legacy.holds = "bootInfo"
=============================================================================
