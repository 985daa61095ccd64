---------------------------- MODULE BootHandoff ----------------------------
(***************************************************************************)
(* How BootE hands an OPENSTEP 4.2 kernel its boot structure               *)
(* (openstep_boot.c): it collects the system's and the drivers'            *)
(* configuration tables, links the standalone drivers behind the kernel    *)
(* with the native linker sarld, and publishes the result at the fixed     *)
(* address where Chameleon's own boot information lives until then.        *)
(*                                                                         *)
(* One step is one file read or link with all that follows from it.  What  *)
(* the volume holds, and what sarld answers, is chosen by the environment. *)
(***************************************************************************)
EXTENDS Integers, Sequences

CONSTANTS
  Drivers,        \* the words of the driver list, in order
  InvalidNames,   \* those with a character or a length that is refused
  BuiltInTables,  \* drivers whose table BootE carries itself
  BuiltInSize,    \* length of such a table
  TableSizes,     \* lengths of table files on the volume
  KeyDeltas,      \* how much longer the driver list is than the one it replaces
  KernelAddress,  \* where the kernel was loaded
  KernelSizes,    \* extents it may have
  LinkSizes,      \* sizes of linked drivers
  SarldEnds,      \* where sarld's segments may end
  DriverLimit,    \* OPENSTEP_DRIVER_LIMIT, 64 in the source
  AtapiSlave,     \* CONFIG_OPENSTEP_ATAPI_SLAVE
  PrimaryOnly     \* CONFIG_OPENSTEP_EIDE_PRIMARY_ONLY

ASSUME BootAssumption ==
  /\ Drivers \in Seq(STRING)
  /\ InvalidNames \subseteq STRING /\ BuiltInTables \subseteq STRING
  /\ BuiltInSize \in Nat
  /\ TableSizes \subseteq Nat \ {0}
  /\ KeyDeltas \subseteq Int
  /\ KernelAddress \in Nat /\ KernelSizes \subseteq Nat
  /\ LinkSizes \subseteq Nat /\ SarldEnds \subseteq Nat
  /\ DriverLimit \in Nat
  /\ AtapiSlave \in BOOLEAN /\ PrimaryOnly \in BOOLEAN

VARIABLES
  at,          \* where prepareOpenStepBootStruct is
  basefile,    \* the preserved thin kernel: "none" or "kept"
  kernelSize,  \* the kernel's extent, drivers included
  config,      \* the staged configuration area: its length and its tables
  cursor,      \* the next word of the driver list
  stage,       \* what the file staging area holds
  output,      \* where the next driver is linked
  staged,      \* the staged boot structure: sarld's entry and the records
  legacy,      \* what lives at BOOTSTRUCT_ADDR
  overwritten  \* history: parts of the running loader that were written to

vars == <<at, basefile, kernelSize, config, cursor, stage, output, staged, legacy, overwritten>>

-----------------------------------------------------------------------------
BOOTSTRUCT_ADDR == 69632                \* 0x11000
OPENSTEP_CONFIG_OFFSET == 9468          \* 0x24fc
OPENSTEP_CONFIG_LIMIT == 53248          \* 0xd000
OPENSTEP_SARLD_VM_MIN == 131072         \* 0x20000
OPENSTEP_SARLD_VM_MAX == 393216         \* 0x60000
OPENSTEP_SARLD_SAVED_SP == 393200       \* 0x5fff0
OPENSTEP_SARLD_MALLOC == 5242880        \* 0x500000

(* The loader itself: its stack and its image, as linked by patch_source.  *)
LoaderStack == [from |-> 131056, to |-> 131072]   \* near 0x1fff0
LoaderImage == [from |-> 335872, to |-> 632708]   \* 0x52000 .. 0x9a784

Meets(area, from, to) == from < area.to /\ area.from < to

roundPage(n) == ((n + 4095) \div 4096) * 4096

Init ==
  /\ at = "basefile"
  /\ basefile = "none"
  /\ kernelSize \in KernelSizes
  /\ config = [length |-> 0, tables |-> << >>]
  /\ cursor = 1
  /\ stage = "none"
  /\ output = 0
  /\ staged = [sarld |-> "none", records |-> << >>]
  /\ legacy = [holds |-> "bootInfo", records |-> << >>, sarld |-> "none",
               kernelSize |-> 0, configEnd |-> 0]
  /\ overwritten = {}

-----------------------------------------------------------------------------
(* The kernel's thin image is kept for sarld, unless it is malformed or    *)
(* too large; a well-formed one tells its own extent.                      *)
preserveOpenStepBaseFile ==
  /\ at = "basefile"
  /\ at' = "system"
  /\ \/ /\ basefile' = "kept"
        /\ kernelSize' \in KernelSizes
     \/ UNCHANGED <<basefile, kernelSize>>
  /\ UNCHANGED <<config, cursor, stage, output, staged, legacy, overwritten>>

(* Mutant: a table is read up to one block of the volume.                  *)
TableReadBlock(name, size, room) ==
  LET held == IF room < 8192 THEN room ELSE 8192
  IN [driver |-> name, size |-> IF size <= held THEN size ELSE held,
      text |-> IF size <= held THEN "whole" ELSE "cut"]

(* A table as read into room bytes: a longer file is cut to fit.           *)
TableRead(name, size, room) ==
  [driver |-> name, size |-> IF size <= room THEN size ELSE room,
   text |-> IF size <= room THEN "whole" ELSE "cut"]

(* Replaces the list in "Boot Drivers" if the key (18 characters) is there *)
(* and the result fits.                                                    *)
BootDriversSet(length) ==
  {length} \cup {length + d : d \in
    {e \in KeyDeltas : /\ length > 18 /\ length + e >= 18
                       /\ length + e + 2 < OPENSTEP_CONFIG_LIMIT}}

readSystemTable ==
  /\ at = "system"
  /\ at' = "tables"
  /\ cursor' = 1
  /\ \/ UNCHANGED config
     \/ \E size \in TableSizes :
          LET table == TableRead("System", size, OPENSTEP_CONFIG_LIMIT - 2)
          IN \E length \in BootDriversSet(table.size) :
               config' = [length |-> length, tables |-> <<[table EXCEPT !.size = length]>>]
  /\ UNCHANGED <<basefile, kernelSize, stage, output, staged, legacy, overwritten>>

-----------------------------------------------------------------------------
Room(length) == OPENSTEP_CONFIG_LIMIT - (length + 1) - 2

Appended(table) ==
  [length |-> config.length + 1 + table.size, tables |-> Append(config.tables, table)]

TablesEnd ==
  \/ cursor > Len(Drivers)
  \/ Drivers[cursor] \in InvalidNames
  \/ config.length + 2 >= OPENSTEP_CONFIG_LIMIT

(* The next driver's table, from the volume or BootE's own copy, goes      *)
(* behind a NUL; a driver without one is passed over.                      *)
appendOpenStepDriverTable ==
  /\ at = "tables"
  /\ IF TablesEnd
     THEN at' = "edits" /\ UNCHANGED <<config, cursor>>
     ELSE /\ cursor' = cursor + 1
          /\ \/ \E size \in TableSizes :
                  /\ Room(config.length) > 0
                  /\ config' = Appended(TableRead(Drivers[cursor], size, Room(config.length)))
             \/ IF Drivers[cursor] \in BuiltInTables /\ BuiltInSize \in 1..Room(config.length)
                THEN config' = Appended([driver |-> Drivers[cursor], size |-> BuiltInSize,
                                         text |-> "whole"])
                ELSE UNCHANGED config
          /\ UNCHANGED at
  /\ UNCHANGED <<basefile, kernelSize, stage, output, staged, legacy, overwritten>>

(* The edits that change the length: five characters more for an ATAPI     *)
(* slave, twelve fewer for a primary channel alone, where the keys are.    *)
ForcedATAPISlave(length) ==
  IF AtapiSlave /\ length >= 20 /\ length + 5 < OPENSTEP_CONFIG_LIMIT
  THEN {length, length + 5} ELSE {length}

ForcedPrimaryEIDE(length) ==
  IF PrimaryOnly /\ length >= 39 THEN {length, length - 12} ELSE {length}

editTables ==
  /\ at = "edits"
  /\ at' = "sarld"
  /\ \E n \in ForcedATAPISlave(config.length) : \E m \in ForcedPrimaryEIDE(n) :
       config' = [config EXCEPT !.length = m]
  /\ UNCHANGED <<basefile, kernelSize, cursor, stage, output, staged, legacy, overwritten>>

-----------------------------------------------------------------------------
(* sarld's segments lie below its ceiling.                                 *)
Accepted == {end \in SarldEnds : end > OPENSTEP_SARLD_VM_MIN /\ end <= OPENSTEP_SARLD_VM_MAX}

Mapped(end) ==
  IF Meets(LoaderImage, OPENSTEP_SARLD_VM_MIN, end) THEN overwritten \cup {"image"} ELSE overwritten

(* Mutant: without a preserved kernel or sarld, BootE goes no further.     *)
loadOpenStepSarldOrStop ==
  /\ at = "sarld" /\ basefile = "kept"
  /\ \E end \in Accepted : overwritten' = Mapped(end)
  /\ at' = "link" /\ cursor' = 1 /\ stage' = "sarld"
  /\ staged' = [staged EXCEPT !.sarld = "mapped"]
  /\ output' = roundPage(KernelAddress + kernelSize)
  /\ UNCHANGED <<basefile, kernelSize, config, legacy>>

(* Without a list or a kernel for it, or if sarld cannot be mapped, there  *)
(* are no drivers and the boot goes on.                                    *)
loadOpenStepSarld ==
  /\ at = "sarld"
  /\ cursor' = 1
  /\ \/ /\ Drivers # << >> /\ basefile = "kept"
        /\ \E end \in Accepted : overwritten' = Mapped(end)
        /\ at' = "link"
        /\ stage' = "sarld"
        /\ staged' = [staged EXCEPT !.sarld = "mapped"]
        /\ output' = roundPage(KernelAddress + kernelSize)
     \/ /\ Drivers # << >> /\ basefile = "kept"
        /\ overwritten' \in {overwritten} \cup {Mapped(end) : end \in Accepted}
        /\ at' = "publish"
        /\ stage' \in {stage, "sarld"}
        /\ UNCHANGED <<output, staged>>
     \/ /\ Drivers = << >> \/ basefile = "none"
        /\ at' = "publish"
        /\ UNCHANGED <<stage, output, staged, overwritten>>
  /\ UNCHANGED <<basefile, kernelSize, config, legacy>>

LinksEnd ==
  \/ cursor > Len(Drivers)
  \/ Len(staged.records) >= DriverLimit
  \/ Drivers[cursor] \in InvalidNames

(* Every call of sarld parks the loader's stack pointer.                   *)
Called ==
  IF Meets(LoaderImage, OPENSTEP_SARLD_SAVED_SP, OPENSTEP_SARLD_SAVED_SP + 4)
  THEN overwritten \cup {"image"} ELSE overwritten

(* The next driver's object is staged for sarld.  A read that fails with a *)
(* negative result passes the unsigned test and leaves the staging area as *)
(* it was.                                                                 *)
stageObject ==
  /\ at = "link" /\ ~LinksEnd
  /\ stage' \in {Drivers[cursor], stage}
  /\ output < OPENSTEP_SARLD_MALLOC
  /\ overwritten' = Called
  /\ cursor' = cursor + 1
  /\ UNCHANGED <<at, basefile, kernelSize, config>>

recordDriver(size) ==
  /\ staged' = [staged EXCEPT !.records = Append(@,
                  [driver |-> Drivers[cursor], object |-> stage', address |-> output, size |-> size])]
  /\ output' = output + size

Linkable == {size \in LinkSizes : size > 0 /\ output + size <= OPENSTEP_SARLD_MALLOC}

(* Mutants: the linked size is not checked; the record goes to the live    *)
(* structure.                                                              *)
linkUnchecked ==
  stageObject /\ (\E size \in LinkSizes \ {0} : recordDriver(size)) /\ UNCHANGED legacy

linkLive ==
  /\ stageObject
  /\ \E size \in Linkable : recordDriver(size)
  /\ legacy' = [legacy EXCEPT !.holds = "bootStruct", !.records = staged'.records]

linkOpenStepDriver ==
  stageObject /\ (\E size \in Linkable : recordDriver(size)) /\ UNCHANGED legacy

-----------------------------------------------------------------------------
notLinked ==
  /\ at = "link"
  /\ IF LinksEnd
     THEN UNCHANGED <<stage, overwritten>>
     ELSE /\ stage' \in {Drivers[cursor], stage}
          /\ overwritten' \in {overwritten, IF output < OPENSTEP_SARLD_MALLOC THEN Called ELSE overwritten}
  /\ UNCHANGED <<basefile, config, output, staged, legacy>>

(* Mutant: the extent stays that of the kernel alone.                      *)
linkingEndsUnsized ==
  notLinked /\ at' = "publish" /\ UNCHANGED <<cursor, kernelSize>>

(* The end of the list, or the first driver that cannot be read, placed or *)
(* linked, ends the linking: the kernel now reaches to output.             *)
linkingEnds ==
  notLinked /\ at' = "publish" /\ kernelSize' = output - KernelAddress /\ UNCHANGED cursor

(* The fields and tables are copied over Chameleon's boot information, and *)
(* two NULs end the tables.                                                *)
publish ==
  /\ at = "publish"
  /\ at' = "started"
  /\ legacy' = [holds |-> "bootStruct", records |-> staged.records, sarld |-> staged.sarld,
                kernelSize |-> kernelSize,
                configEnd |-> BOOTSTRUCT_ADDR + OPENSTEP_CONFIG_OFFSET + config.length]
  /\ overwritten' = IF Meets(LoaderStack, BOOTSTRUCT_ADDR, legacy'.configEnd + 2)
                    THEN overwritten \cup {"stack"} ELSE overwritten
  /\ UNCHANGED <<basefile, kernelSize, config, cursor, stage, output, staged>>

-----------------------------------------------------------------------------
Next ==
  \/ preserveOpenStepBaseFile \/ readSystemTable
  \/ appendOpenStepDriverTable \/ editTables
  \/ loadOpenStepSarld
  \/ linkOpenStepDriver \/ linkingEnds
  \/ publish

Spec == Init /\ [][Next]_vars

(* The loader is the only program that runs.                               *)
FairSpec == Spec /\ WF_vars(Next)
=============================================================================
