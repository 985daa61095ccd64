------------------------------ MODULE HostProofs ------------------------------
(***************************************************************************)
(* Proofs about the commands a user types on the host: those that make a   *)
(* directory and those that keep the media, for any number of them, any    *)
(* sources and any edits; and the one that makes an image.                 *)
(***************************************************************************)
EXTENDS HostTools, DataInduction

(***************************************************************************)
(* The commands that make a directory.                                     *)
(***************************************************************************)
(* A command as a record of its parts.                                     *)
Parts(pc, t, checked, bom, taken, n, r) ==
  [pc |-> pc, task |-> t, checked |-> checked, bom |-> bom, taken |-> taken, edits |-> n, recipe |-> r]

Whole(k) == k = Parts(k.pc, k.task, k.checked, k.bom, k.taken, k.edits, k.recipe)

(* Where the item of a command comes from.                                 *)
Origin(t, i) == IF FromArchive(t) THEN "archive" ELSE i

(* The command that works has what it checked before its eyes: as long as  *)
(* nobody edited the sources since, they still are what it checked.        *)
Current(k) ==
  /\ \A i \in DOMAIN k.checked : sources[Origin(k.task, i)] = k.checked[i]
  /\ k.task.op = "package" => payload_inventory(ItemsOf(k.task)) = {k.checked}
  /\ k.task.op = "driver" => IsMachO("kernel") /\ IsMachO("server")
  /\ \A i \in DOMAIN k.taken : k.taken[i] = k.checked[i]
  /\ FromArchive(k.task) => \A i \in DOMAIN k.taken : i \in k.taken[i].data
  /\ k.task.op = "package" /\ k.pc # "bom" => k.bom = [p \in Material(k.checked) |-> k.checked[p]]

Works(m, k) ==
  /\ Whole(k)
  /\ k.pc \in {"bom", "take", "describe"}
  /\ k.task \in Tasks[m]
  /\ k.edits \in Nat /\ k.edits <= edits
  /\ k.task.op = "package" => k.checked = k.recipe
  /\ k.task.op # "package" => DOMAIN k.checked = ItemsOf(k.task)
  /\ DOMAIN k.checked \subseteq ItemsOf(k.task)
  /\ DOMAIN k.taken \subseteq DOMAIN k.checked
  /\ k.pc = "describe" => DOMAIN k.taken = DOMAIN k.checked
  /\ k.taken = [i \in DOMAIN k.taken |-> k.taken[i]]
  /\ k.checked = [i \in DOMAIN k.checked |-> k.checked[i]]
  /\ k.edits = edits => Current(k)

Typed ==
  /\ edits \in Nat
  /\ DOMAIN maker = Makers /\ maker = [m \in Makers |-> maker[m]]
  /\ DOMAIN made = OutputNames /\ made = [o \in OutputNames |-> made[o]]

PublisherInvariant ==
  /\ Typed
  /\ \A m \in Makers : maker[m] = Idle \/ Works(m, maker[m])
  /\ PublishedAsChecked

LEMMA PublisherStarts == PublisherInit => PublisherInvariant
  BY DEF PublisherInit, PublisherInvariant, Typed, PublishedAsChecked

(* What a command does disturbs no other's.                                *)
LEMMA OthersWork ==
  ASSUME NEW m \in Makers, Typed, \A n \in Makers : maker[n] = Idle \/ Works(n, maker[n]),
         UNCHANGED <<sources, edits>>,
         \E k : becomes(m, k) /\ (k = Idle \/ Works(m, k))
  PROVE  \A n \in Makers : maker'[n] = Idle \/ Works(n, maker[n])'
  <1> SUFFICES ASSUME NEW n \in Makers PROVE maker'[n] = Idle \/ Works(n, maker[n])'
    OBVIOUS
  <1>1. PICK k : becomes(m, k) /\ (k = Idle \/ Works(m, k))
    OBVIOUS
  <1>2. maker'[n] = IF n = m THEN k ELSE maker[n]
    BY <1>1 DEF Typed, becomes
  <1>3. ASSUME NEW j, Works(n, j) PROVE Works(n, j)'
    <2>1. payload_inventory(ItemsOf(j.task))' = payload_inventory(ItemsOf(j.task))
      BY DEF payload_inventory, ItemsOf
    <2>2. Current(j) => Current(j)'
      BY <2>1 DEF Current, IsMachO
    <2> QED
      BY <1>3, <2>2 DEF Works
  <1> QED
    BY <1>1, <1>2, <1>3

LEMMA PayloadIsOne ==
  ASSUME NEW items, NEW inventory \in payload_inventory(items)
  PROVE  /\ payload_inventory(items) = {inventory}
         /\ DOMAIN inventory \subseteq items
         /\ inventory = [i \in DOMAIN inventory |-> inventory[i]]
         /\ \A i \in DOMAIN inventory : inventory[i] = sources[i]
  BY DEF payload_inventory

LEMMA CheckWorks ==
  ASSUME NEW m \in Makers, Typed, NEW t \in Tasks[m], Checks(t)
  PROVE  Works(m, Parts(IF t.op = "package" THEN "bom" ELSE "take", t, Inventory(t), << >>, << >>,
                        edits, recipe))
  <1> DEFINE k == Parts(IF t.op = "package" THEN "bom" ELSE "take", t, Inventory(t), << >>, << >>,
                        edits, recipe)
  <1>1. /\ k.pc = (IF t.op = "package" THEN "bom" ELSE "take") /\ k.task = t
        /\ k.checked = Inventory(t) /\ k.bom = << >> /\ k.taken = << >>
        /\ k.edits = edits /\ k.recipe = recipe
    BY DEF Parts
  <1>2. t.op = "package" => /\ payload_inventory(ItemsOf(t)) = {Inventory(t)}
                            /\ Inventory(t) = recipe
                            /\ DOMAIN Inventory(t) \subseteq ItemsOf(t)
                            /\ Inventory(t) = [i \in DOMAIN Inventory(t) |-> Inventory(t)[i]]
                            /\ \A i \in DOMAIN Inventory(t) : Inventory(t)[i] = sources[i]
    <2> SUFFICES ASSUME t.op = "package"
                 PROVE  /\ payload_inventory(ItemsOf(t)) = {Inventory(t)}
                        /\ Inventory(t) = recipe
                        /\ DOMAIN Inventory(t) \subseteq ItemsOf(t)
                        /\ Inventory(t) = [i \in DOMAIN Inventory(t) |-> Inventory(t)[i]]
                        /\ \A i \in DOMAIN Inventory(t) : Inventory(t)[i] = sources[i]
      OBVIOUS
    <2>1. PICK inventory \in payload_inventory(ItemsOf(t)) : inventory = recipe
      BY DEF Checks, SamePayload
    <2>2. /\ payload_inventory(ItemsOf(t)) = {recipe}
          /\ DOMAIN recipe \subseteq ItemsOf(t)
          /\ recipe = [i \in DOMAIN recipe |-> recipe[i]]
          /\ \A i \in DOMAIN recipe : recipe[i] = sources[i]
      BY <2>1, PayloadIsOne
    <2>3. Inventory(t) = recipe
      BY <2>2 DEF Inventory
    <2> QED
      BY <2>2, <2>3
  <1>3. t.op # "package" => Inventory(t) = [i \in ItemsOf(t) |-> sources[Origin(t, i)]]
    BY DEF Inventory, Origin
  <1>4. t.op = "driver" => IsMachO("kernel") /\ IsMachO("server")
    BY DEF Checks
  <1>5. DOMAIN << >> = {}
    OBVIOUS
  <1>6. Current(k)
    <2>1. t.op = "package" => ~FromArchive(t)
      BY DEF FromArchive
    <2> HIDE DEF k
    <2> QED
      BY <1>1, <1>2, <1>3, <1>4, <1>5, <2>1 DEF Current, Origin
  <1>7. Works(m, k)
    <2> HIDE DEF k
    <2>1. Whole(k)
      BY DEF k, Parts, Whole
    <2> QED
      BY <1>1, <1>2, <1>3, <1>5, <1>6, <2>1 DEF Works, Typed
  <1> QED
    BY <1>7

(* The actions of a command that leave what is under the outputs' names.   *)
Moves(m) == check(m) \/ write_openstep_bom(m) \/ take(m) \/ _compress_tar(m) \/ kill_maker(m)

Becomes(m) == \E k : becomes(m, k) /\ (k = Idle \/ Works(m, k))

LEMMA AbandonMoves ==
  ASSUME NEW m \in Makers, abandon(m)
  PROVE  Becomes(m)
  BY DEF abandon, Becomes

LEMMA CheckMoves ==
  ASSUME NEW m \in Makers, Typed, check(m)
  PROVE  Becomes(m)
  <1>1. PICK t \in Tasks[m] :
          /\ Checks(t)
          /\ becomes(m, Parts(IF t.op = "package" THEN "bom" ELSE "take", t, Inventory(t), << >>, << >>,
                              edits, recipe))
    BY DEF check, Parts
  <1> QED
    BY <1>1, CheckWorks DEF Becomes

LEMMA BomMoves ==
  ASSUME NEW m \in Makers, Works(m, maker[m]), write_openstep_bom(m)
  PROVE  Becomes(m)
  <1> DEFINE k == maker[m]
  <1>1. CASE abandon(m)
    BY <1>1, AbandonMoves
  <1>2. ASSUME NEW i \in payload_inventory(ItemsOf(k.task))
        PROVE  Works(m, [k EXCEPT !.bom = [p \in Material(i) |-> i[p]], !.pc = "take"])
    <2> DEFINE bom == [p \in Material(i) |-> i[p]]
               j == [k EXCEPT !.bom = bom, !.pc = "take"]
    <2>1. /\ j.pc = "take" /\ j.task = k.task /\ j.checked = k.checked /\ j.bom = bom /\ j.taken = k.taken
          /\ j.edits = k.edits /\ j.recipe = k.recipe
          /\ Whole(j)
      <3>1. Whole(k)
        BY DEF Works
      <3> DEFINE b == [k EXCEPT !.bom = bom]
      <3>2. /\ b.pc = k.pc /\ b.task = k.task /\ b.checked = k.checked /\ b.bom = bom /\ b.taken = k.taken
            /\ b.edits = k.edits /\ b.recipe = k.recipe
            /\ Whole(b)
        <4> HIDE DEF bom, k
        <4> QED
          BY <3>1 DEF Whole, Parts
      <3>3. j = [b EXCEPT !.pc = "take"]
        OBVIOUS
      <3> HIDE DEF b, bom, k, j
      <3> QED
        BY <3>2, <3>3 DEF Whole, Parts
    <2>2. Current(k) /\ k.task.op = "package" => k.checked = i
      BY DEF Current
    <2>3. Current(k) => Current(j)
      <3> HIDE DEF j
      <3> QED
        BY <2>1, <2>2 DEF Current
    <2> HIDE DEF j
    <2> QED
      BY <2>1, <2>3 DEF Works, j
  <1> QED
    BY <1>1, <1>2 DEF write_openstep_bom, Becomes

LEMMA TakeMoves ==
  ASSUME NEW m \in Makers, Works(m, maker[m]), take(m)
  PROVE  Becomes(m)
  <1> DEFINE k == maker[m]
  <1>1. CASE abandon(m)
    BY <1>1, AbandonMoves
  <1>2. ASSUME NEW n \in Left(m), k.pc = "take",
               NEW v \in Readable(m, k.task.items[n])
        PROVE  Works(m, [k EXCEPT !.taken = Added(@, k.task.items[n], v)])
    <2> DEFINE i == k.task.items[n]
               taken == Added(k.taken, i, v)
               j == [k EXCEPT !.taken = taken]
    <2>1. /\ j.pc = "take" /\ j.task = k.task /\ j.checked = k.checked /\ j.bom = k.bom /\ j.taken = taken
          /\ j.edits = k.edits /\ j.recipe = k.recipe
          /\ Whole(j)
      BY <1>2 DEF Works, Whole, Parts
    <2>2. i \in DOMAIN k.checked
      BY DEF Left
    <2>3. /\ DOMAIN taken = DOMAIN k.taken \cup {i}
          /\ taken = [p \in DOMAIN taken |-> taken[p]]
          /\ \A p \in DOMAIN k.taken \cup {i} : taken[p] = IF p = i THEN v ELSE k.taken[p]
      BY DEF Added
    <2>4. Current(k) => v = k.checked[i] /\ (FromArchive(k.task) => i \in v.data)
      BY <2>2 DEF Current, Readable, Origin
    <2>5. Current(k) => Current(j)
      <3> HIDE DEF j, taken
      <3> QED
        BY <1>2, <2>1, <2>3, <2>4 DEF Current
    <2> HIDE DEF j, taken
    <2>6. Works(m, j)
      BY <1>2, <2>1, <2>2, <2>3, <2>5 DEF Works
    <2> QED
      BY <2>6 DEF j, taken
  <1> QED
    BY <1>1, <1>2 DEF take, Becomes

LEMMA CompressMoves ==
  ASSUME NEW m \in Makers, Works(m, maker[m]), _compress_tar(m)
  PROVE  Becomes(m)
  <1> DEFINE k == maker[m]
             j == [k EXCEPT !.pc = "describe"]
  <1>1. CASE abandon(m)
    BY <1>1, AbandonMoves
  <1>2. ASSUME k.pc = "take", Left(m) = {}
        PROVE  Works(m, j)
    <2>1. /\ j.pc = "describe" /\ j.task = k.task /\ j.checked = k.checked /\ j.bom = k.bom /\ j.taken = k.taken
          /\ j.edits = k.edits /\ j.recipe = k.recipe
          /\ Whole(j)
      BY DEF Works, Whole, Parts
    <2>2. DOMAIN k.taken = DOMAIN k.checked
      BY <1>2 DEF Left, Works, ItemsOf
    <2>3. Current(k) => Current(j)
      <3> HIDE DEF j
      <3> QED
        BY <1>2, <2>1 DEF Current
    <2> HIDE DEF j
    <2> QED
      BY <2>1, <2>2, <2>3 DEF Works
  <1> QED
    BY <1>1, <1>2 DEF _compress_tar, Becomes

(* What a command puts under its output's name is as it must be.           *)
LEMMA DescribedIsChecked ==
  ASSUME NEW m \in Makers, Works(m, maker[m]), maker[m].pc = "describe"
  PROVE  LET d == Described(m)
         IN ~d.edited =>
              CASE d.op = "package" ->
                     /\ d.files = d.recipe
                     /\ d.bom = [i \in Material(d.recipe) |-> d.recipe[i]]
                [] d.op = "driver" -> \A i \in {"kernel", "server"} : d.files[i].arch = "i386"
                [] OTHER -> \A i \in DOMAIN d.files : d.files[i] = d.source /\ i \in d.source.data
  <1> DEFINE d == Described(m)
             k == maker[m]
  <1>1. /\ d.op = k.task.op /\ d.files = k.taken /\ d.recipe = k.recipe /\ d.edited = (edits # k.edits)
        /\ k.task.op = "package" => d.bom = k.bom
        /\ FromArchive(k.task) => d.source = sources["archive"]
    BY DEF Described
  <1> SUFFICES ASSUME edits = k.edits
               PROVE  CASE d.op = "package" ->
                             /\ d.files = d.recipe
                             /\ d.bom = [i \in Material(d.recipe) |-> d.recipe[i]]
                        [] d.op = "driver" -> \A i \in {"kernel", "server"} : d.files[i].arch = "i386"
                        [] OTHER -> \A i \in DOMAIN d.files : d.files[i] = d.source /\ i \in d.source.data
    BY <1>1
  <1> HIDE DEF d
  <1>2. Current(k)
    BY DEF Works
  <1>3. k.task.op \in {"package", "reference", "dr2", "driver"}
    BY PublisherAssumption DEF Works
  <1>4. k.taken = k.checked
    BY <1>2 DEF Works, Current
  <1>5. CASE k.task.op = "package"
    BY <1>1, <1>2, <1>4, <1>5 DEF Works, Current
  <1>6. CASE k.task.op = "driver"
    <2>1. "kernel" \in ItemsOf(k.task) /\ "server" \in ItemsOf(k.task)
      BY <1>6, PublisherAssumption DEF Works, ItemsOf
    <2>2. \A i \in {"kernel", "server"} : i \in DOMAIN k.checked
      BY <1>6, <2>1 DEF Works
    <2>3. \A i \in {"kernel", "server"} : k.checked[i] = sources[i]
      BY <1>2, <1>6, <2>2 DEF Current, Origin, FromArchive
    <2> QED
      BY <1>1, <1>2, <1>4, <1>6, <2>3 DEF Current, IsMachO
  <1>7. CASE k.task.op \in {"reference", "dr2"}
    <2>1. FromArchive(k.task)
      BY <1>7 DEF FromArchive
    <2>2. \A i \in DOMAIN k.taken : k.taken[i] = sources["archive"] /\ i \in k.taken[i].data
      BY <1>2, <1>4, <2>1 DEF Current, Origin
    <2> QED
      BY <1>1, <1>7, <2>1, <2>2
  <1> QED
    BY <1>3, <1>5, <1>6, <1>7

LEMMA RenameKeeps ==
  ASSUME NEW m \in Makers, Typed, Works(m, maker[m]), PublishedAsChecked, rename(m)
  PROVE  PublishedAsChecked' /\ made' = [o \in OutputNames |-> made'[o]]
  <1> DEFINE t == maker[m].task.output
  <1>1. PICK d : made' = (IF Rename(t) /\ ~Gone(m) THEN [made EXCEPT ![t] = d] ELSE made) /\ d = Described(m)
    BY DEF rename
  <1>2. made' = [o \in OutputNames |-> made'[o]]
    BY <1>1 DEF Typed
  <1> SUFFICES ASSUME NEW o \in OutputNames
               PROVE  LET e == made'[o]
                      IN e # Nothing /\ ~e.edited =>
                           CASE e.op = "package" ->
                                  /\ e.files = e.recipe
                                  /\ e.bom = [i \in Material(e.recipe) |-> e.recipe[i]]
                             [] e.op = "driver" -> \A i \in {"kernel", "server"} : e.files[i].arch = "i386"
                             [] OTHER -> \A i \in DOMAIN e.files : e.files[i] = e.source /\ i \in e.source.data
    BY <1>2 DEF PublishedAsChecked, Material
  <1>3. made'[o] = made[o] \/ made'[o] = d
    BY <1>1 DEF Typed
  <1>4. CASE made'[o] = d
    BY <1>1, <1>4, DescribedIsChecked DEF rename
  <1>5. CASE made'[o] = made[o]
    BY <1>5 DEF PublishedAsChecked
  <1> QED
    BY <1>3, <1>4, <1>5

LEMMA EditKeeps ==
  ASSUME Typed, \A n \in Makers : maker[n] = Idle \/ Works(n, maker[n]), edit_source
  PROVE  \A n \in Makers : (maker[n] = Idle \/ Works(n, maker[n]))'
  BY DEF edit_source, Typed, Works, Idle

LEMMA PublisherSteps ==
  ASSUME PublisherInvariant, [PublisherNext]_publisherVars
  PROVE  PublisherInvariant'
  <1>0. /\ Typed /\ PublishedAsChecked
        /\ \A n \in Makers : maker[n] = Idle \/ Works(n, maker[n])
    BY DEF PublisherInvariant
  <1>1. ASSUME UNCHANGED publisherVars
        PROVE  PublisherInvariant'
    <2>1. UNCHANGED <<sources, edits, recipe, made, maker>>
      BY <1>1 DEF publisherVars
    <2>2. Typed' /\ PublishedAsChecked'
      BY <1>0, <2>1 DEF Typed, PublishedAsChecked, Material
    <2>3. ASSUME NEW n \in Makers PROVE (maker[n] = Idle \/ Works(n, maker[n]))'
      <3>1. \A items : payload_inventory(items)' = payload_inventory(items)
        BY <2>1 DEF payload_inventory
      <3>2. Current(maker[n])' <=> Current(maker[n])
        BY <2>1, <3>1 DEF Current, IsMachO, Material, ItemsOf
      <3> QED
        BY <1>0, <2>1, <3>2 DEF Works
    <2> QED
      BY <2>2, <2>3 DEF PublisherInvariant
  <1>2. ASSUME edit_source
        PROVE  PublisherInvariant'
    <2>1. Typed' /\ PublishedAsChecked'
      BY <1>0, <1>2 DEF edit_source, Typed, PublishedAsChecked
    <2> QED
      BY <1>0, <1>2, <2>1, EditKeeps DEF PublisherInvariant
  <1>3. ASSUME NEW m \in Makers, package_recipe(m)
        PROVE  PublisherInvariant'
    <2>1. UNCHANGED <<sources, edits, made, maker>>
      BY <1>3 DEF package_recipe
    <2>2. Typed' /\ PublishedAsChecked'
      BY <1>0, <2>1 DEF Typed, PublishedAsChecked, Material
    <2>3. ASSUME NEW n \in Makers PROVE (maker[n] = Idle \/ Works(n, maker[n]))'
      <3>1. \A items : payload_inventory(items)' = payload_inventory(items)
        BY <2>1 DEF payload_inventory
      <3>2. Current(maker[n])' <=> Current(maker[n])
        BY <2>1, <3>1 DEF Current, IsMachO, Material, ItemsOf
      <3> QED
        BY <1>0, <2>1, <3>2 DEF Works
    <2> QED
      BY <2>2, <2>3 DEF PublisherInvariant
  <1>4. ASSUME NEW m \in Makers, Moves(m)
        PROVE  PublisherInvariant'
    <2>1. UNCHANGED <<sources, edits, recipe, made>>
      BY <1>4 DEF Moves, check, write_openstep_bom, take, _compress_tar, kill_maker
    <2>2. ASSUME check(m) PROVE Becomes(m)
      BY <1>0, <2>2, CheckMoves
    <2>3. ASSUME kill_maker(m) PROVE Becomes(m)
      BY <2>3, AbandonMoves DEF kill_maker
    <2>4. ASSUME write_openstep_bom(m) \/ take(m) \/ _compress_tar(m) PROVE Becomes(m)
      <3>1. maker[m].pc # "idle"
        BY <2>4 DEF write_openstep_bom, take, _compress_tar
      <3>2. Works(m, maker[m])
        BY <1>0, <3>1 DEF Idle
      <3> QED
        BY <2>4, <3>2, BomMoves, TakeMoves, CompressMoves
    <2>5. Becomes(m)
      BY <1>4, <2>2, <2>3, <2>4 DEF Moves
    <2>6. \A n \in Makers : maker'[n] = Idle \/ Works(n, maker[n])'
      BY <1>0, <2>1, <2>5, OthersWork DEF Becomes
    <2>7. Typed'
      BY <1>0, <2>1, <2>5 DEF Typed, Becomes, becomes
    <2>8. PublishedAsChecked'
      BY <1>0, <2>1 DEF PublishedAsChecked, Material
    <2> QED
      BY <2>6, <2>7, <2>8 DEF PublisherInvariant
  <1>5. ASSUME NEW m \in Makers, rename(m)
        PROVE  PublisherInvariant'
    <2>1. /\ UNCHANGED <<sources, edits>>
          /\ maker[m].pc = "describe" /\ abandon(m)
      BY <1>5 DEF rename
    <2>2. Works(m, maker[m])
      BY <1>0, <2>1 DEF Idle
    <2>3. PublishedAsChecked' /\ made' = [o \in OutputNames |-> made'[o]]
      BY <1>0, <1>5, <2>2, RenameKeeps
    <2>4. \A n \in Makers : maker'[n] = Idle \/ Works(n, maker[n])'
      BY <1>0, <2>1, OthersWork DEF abandon
    <2>5. Typed'
      BY <1>0, <2>1, <2>3 DEF Typed, abandon, becomes
    <2> QED
      BY <2>3, <2>4, <2>5 DEF PublisherInvariant
  <1> QED
    BY <1>1, <1>2, <1>3, <1>4, <1>5 DEF PublisherNext, Moves

(* The strengthening: every command that works has before its eyes what it *)
(* checked, as long as nobody edited the sources since.                    *)
THEOREM PublisherInvariantHolds == PublisherSpec => []PublisherInvariant
  <1>1. PublisherInvariant /\ [PublisherNext]_publisherVars => PublisherInvariant'
    BY PublisherSteps
  <1> QED
    BY <1>1, PublisherStarts, PTL DEF PublisherSpec

(* If nobody edited the sources while a command ran, the directory it made *)
(* holds what was checked, whatever else ran, failed or was killed: the    *)
(* digests, the inventory and the processor build_package,                 *)
(* prepare_reference and stage_rhapsody_driver check are those of what     *)
(* they publish.                                                           *)
THEOREM DirectoriesAreChecked == PublisherSpec => []PublishedAsChecked
  <1>1. PublisherInvariant => PublishedAsChecked
    BY DEF PublisherInvariant
  <1> QED
    BY <1>1, PublisherInvariantHolds, PTL

LEMMA StepPublishesOnce ==
  ASSUME PublisherInvariant, [PublisherNext]_publisherVars,
         NEW o \in OutputNames, made'[o] # made[o]
  PROVE  /\ made[o] = Nothing
         /\ \E m \in Makers :
              /\ maker[m].pc = "describe" /\ maker[m].task.output = o
              /\ DOMAIN made'[o].files = IF maker[m].task.op = "package" THEN DOMAIN maker[m].checked
                                         ELSE ItemsOf(maker[m].task)
  <1>1. PICK m \in Makers : rename(m)
    BY DEF PublisherNext, publisherVars, edit_source, package_recipe, check, write_openstep_bom, take,
           _compress_tar, kill_maker
  <1>2. maker[m].pc = "describe"
    BY <1>1 DEF rename
  <1>3. Works(m, maker[m])
    BY <1>2 DEF PublisherInvariant, Idle
  <1> DEFINE t == maker[m].task.output
  <1>4. PICK d : d = Described(m) /\ made' = (IF Rename(t) /\ ~Gone(m) THEN [made EXCEPT ![t] = d] ELSE made)
    BY <1>1 DEF rename
  <1>5. o = t /\ Rename(t) /\ made'[o] = d
    BY <1>4 DEF PublisherInvariant, Typed
  <1>6. d.files = maker[m].taken
    BY <1>4 DEF Described
  <1>7. /\ DOMAIN maker[m].taken = DOMAIN maker[m].checked
        /\ maker[m].task.op # "package" => DOMAIN maker[m].checked = ItemsOf(maker[m].task)
    BY <1>2, <1>3 DEF Works
  <1> HIDE DEF t
  <1>8. DOMAIN made'[o].files = IF maker[m].task.op = "package" THEN DOMAIN maker[m].checked
                                ELSE ItemsOf(maker[m].task)
    BY <1>5, <1>6, <1>7
  <1> QED
    BY <1>2, <1>5, <1>8 DEF Rename, t

(* A directory appears under its name complete and in one step, and no     *)
(* command touches it again, however many run for the same output (the     *)
(* temporary directory and the rename of build_package,                    *)
(* prepare_reference, prepare_dr2_reference, stage_rhapsody_driver).       *)
THEOREM DirectoriesAppearOnce == PublisherSpec => PublishedOnce
  <1>1. ASSUME PublisherInvariant, [PublisherNext]_publisherVars
        PROVE  \A o \in OutputNames : made'[o] # made[o] =>
                 /\ made[o] = Nothing
                 /\ \E m \in Makers :
                      /\ maker[m].pc = "describe" /\ maker[m].task.output = o
                      /\ DOMAIN made'[o].files = IF maker[m].task.op = "package" THEN DOMAIN maker[m].checked
                                                 ELSE ItemsOf(maker[m].task)
    BY <1>1, StepPublishesOnce
  <1> QED
    BY <1>1, PublisherInvariantHolds, PTL DEF PublisherSpec, PublishedOnce

(***************************************************************************)
(* The media vault.                                                        *)
(***************************************************************************)
VaultTyped ==
  /\ DOMAIN adopter = Adopters /\ adopter = [a \in Adopters |-> adopter[a]]
  /\ DOMAIN vault = Media /\ vault = [i \in Media |-> vault[i]]

(* What an adoption relies on, at each place.                              *)
WholeAdopter(k) ==
  /\ k.at \in {"copy", "fill", "read"} =>
       k = [at |-> k.at, id |-> k.id, file |-> k.file, edited |-> k.edited]
  /\ k.at \in {"write", "replace"} =>
       k = [at |-> k.at, id |-> k.id, edited |-> k.edited, read |-> k.read]

Relies(k) ==
  /\ WholeAdopter(k)
  /\ k.at \in {"copy", "fill", "read", "write", "replace"}
  /\ k.at \in {"copy", "fill", "read"} => k.id \in Media \ Repository /\ k.file \in Candidates
  /\ k.at \in {"copy", "fill"} => k.id \notin kept
  /\ k.at = "read" => vault[k.id] \in Candidates \cup {Missing}
  /\ k.at \in {"write", "replace"} =>
       /\ k.id \in DOMAIN k.read /\ k.id \in Media
       /\ k.edited \/ (k.read[k.id] = vault[k.id] /\ vault[k.id] # Missing)
       /\ \A j \in kept : j \in DOMAIN k.read /\ k.read[j] = vault[j]
       /\ \A j \in DOMAIN k.read : k.read[j] # "partial"
  /\ k.at = "replace" => temporary = k.read

Recorded ==
  /\ kept \subseteq Media
  /\ \A i \in kept : i \in DOMAIN local /\ local[i] = vault[i] /\ vault[i] # Missing
  /\ \A i \in DOMAIN local : local[i] # "partial"

(* As long as no two adoptions ran at once.                                *)
Alone ==
  /\ Recorded
  /\ \A a, b \in Adopters : Busy(a) /\ Busy(b) => a = b
  /\ \A a \in Adopters : adopter[a] = Free \/ Relies(adopter[a])

Shown ==
  recipes.at = "recipe" =>
    \A i \in Required(recipes.profile) :
      /\ recipes.shown[i] # Missing
      /\ recipes.shown[i] = IF i \in DOMAIN recipes.local THEN recipes.local[i] ELSE Manifest[i]

VaultInvariant == VaultTyped /\ (~overlapped => Alone) /\ Shown /\ RecipeWasCompared

LEMMA VaultStarts == VaultInit => VaultInvariant
  <1> SUFFICES ASSUME VaultInit PROVE VaultInvariant
    OBVIOUS
  <1>1. DOMAIN local = {}
    BY DEF VaultInit
  <1> QED
    BY <1>1 DEF VaultInit, VaultInvariant, VaultTyped, Alone, Recorded, Busy, Free, Shown, RecipeWasCompared

(* The adoption that runs alone moves on.                                  *)
LEMMA OneMoves ==
  ASSUME VaultTyped, Alone, NEW a \in Adopters, NEW k, turns(a, k),
         \A b \in Adopters : Busy(b) => b = a,
         Recorded', k = Free \/ Relies(k)'
  PROVE  Alone'
  <1>1. \A b \in Adopters : adopter'[b] = IF b = a THEN k ELSE adopter[b]
    BY DEF VaultTyped, turns
  <1>2. \A b \in Adopters : b # a => adopter[b] = Free
    BY DEF Busy, Alone, Relies
  <1>3. \A b \in Adopters : adopter'[b] = Free \/ (b = a /\ Relies(adopter[b])')
    BY <1>1, <1>2
  <1>4. \A b \in Adopters : Busy(b)' => b = a
    BY <1>3 DEF Busy, Free
  <1> QED
    BY <1>3, <1>4 DEF Alone

LEMMA AdoptAlone ==
  ASSUME VaultTyped, ~overlapped => Alone, NEW a \in Adopters, adopt(a), ~overlapped'
  PROVE  Alone'
  <1>1. Alone /\ \A b \in Adopters : ~Busy(b)
    BY DEF adopt
  <1>2. PICK i \in Media \ Repository, file \in Candidates :
          /\ Destination(i, file)
          /\ turns(a, [at |-> IF vault[i] = Missing THEN "copy" ELSE "read", id |-> i, file |-> file,
                       edited |-> FALSE])
    BY DEF adopt
  <1>0. PICK k : k = [at |-> IF vault[i] = Missing THEN "copy" ELSE "read", id |-> i, file |-> file,
                      edited |-> FALSE]
    OBVIOUS
  <1>3. UNCHANGED <<vault, local, temporary, kept>>
    BY DEF adopt
  <1>4. Recorded'
    BY <1>1, <1>3 DEF Alone, Recorded
  <1>5. Relies(k)'
    BY <1>0, <1>1, <1>2, <1>3 DEF Relies, WholeAdopter, Destination, Alone, Recorded
  <1>6. turns(a, k)
    BY <1>0, <1>2
  <1> QED
    BY <1>1, <1>4, <1>5, <1>6, OneMoves

LEMMA CopyAlone ==
  ASSUME VaultTyped, Alone, NEW a \in Adopters, copy2(a)
  PROVE  Alone'
  <1>0. PICK k : k = adopter[a]
    OBVIOUS
  <1>1. k.at \in {"copy", "fill"} /\ Relies(k) /\ \A b \in Adopters : Busy(b) => b = a
    BY <1>0 DEF copy2, Alone, Free, Busy
  <1>2. UNCHANGED <<local, temporary, kept>>
    BY DEF copy2
  <1>3. k.id \in Media \ Repository /\ k.id \notin kept /\ k.file \in Candidates
    BY <1>1 DEF Relies
  <1>4. \A j \in kept : vault'[j] = vault[j]
    BY <1>0, <1>3 DEF copy2, VaultTyped, Alone, Recorded
  <1>5. Recorded'
    BY <1>2, <1>4 DEF Alone, Recorded
  <1>6. k = [at |-> k.at, id |-> k.id, file |-> k.file, edited |-> k.edited]
    BY <1>1 DEF Relies, WholeAdopter
  <1>7. CASE k.at = "copy"
    <2>1. PICK j : j = [k EXCEPT !.at = "fill"] /\ turns(a, j)
      BY <1>0, <1>7 DEF copy2, At
    <2>2. /\ j.at = "fill" /\ j.id = k.id /\ j.file = k.file /\ j.edited = k.edited
          /\ j = [at |-> j.at, id |-> j.id, file |-> j.file, edited |-> j.edited]
      BY <1>6, <2>1
    <2>3. Relies(j)'
      BY <1>2, <1>3, <2>2 DEF Relies, WholeAdopter
    <2> QED
      BY <1>1, <1>5, <2>1, <2>3, OneMoves
  <1>8. CASE k.at = "fill"
    <2>1. PICK j : j = [k EXCEPT !.at = "read"] /\ turns(a, j)
      BY <1>0, <1>8 DEF copy2, At
    <2>2. /\ j.at = "read" /\ j.id = k.id /\ j.file = k.file /\ j.edited = k.edited
          /\ j = [at |-> j.at, id |-> j.id, file |-> j.file, edited |-> j.edited]
      BY <1>6, <2>1
    <2>3. vault'[k.id] = k.file
      BY <1>0, <1>3, <1>8 DEF copy2, VaultTyped
    <2>4. Relies(j)'
      BY <1>2, <1>3, <2>2, <2>3 DEF Relies, WholeAdopter
    <2> QED
      BY <1>1, <1>5, <2>1, <2>4, OneMoves
  <1> QED
    BY <1>1, <1>7, <1>8

LEMMA ReadAlone ==
  ASSUME VaultTyped, Alone, NEW a \in Adopters, read_overrides(a)
  PROVE  Alone'
  <1>0. PICK k : k = adopter[a]
    OBVIOUS
  <1>1. k.at = "read" /\ Relies(k) /\ \A b \in Adopters : Busy(b) => b = a
    BY <1>0 DEF read_overrides, Alone, Free, Busy
  <1>2. PICK read : read = [j \in DOMAIN local \cup {k.id} |-> IF j = k.id THEN vault[k.id] ELSE local[j]]
    OBVIOUS
  <1>3. PICK w : w = [at |-> "write", id |-> k.id, edited |-> k.edited, read |-> read]
    OBVIOUS
  <1>4. UNCHANGED <<vault, local, temporary, kept>> /\ vault[k.id] # Missing
    BY <1>0 DEF read_overrides
  <1>5. turns(a, w)
    BY <1>0, <1>2, <1>3 DEF read_overrides, Overrides
  <1>6. Recorded /\ Recorded'
    BY <1>4 DEF Alone, Recorded
  <1>7. k.id \in Media /\ vault[k.id] # "partial"
    BY <1>1, <1>4, VaultAssumption DEF Relies
  <1>8. /\ w.at = "write" /\ w.id = k.id /\ w.edited = k.edited /\ w.read = read
        /\ w = [at |-> w.at, id |-> w.id, edited |-> w.edited, read |-> w.read]
    BY <1>3
  <1>9. /\ DOMAIN read = DOMAIN local \cup {k.id}
        /\ read[k.id] = vault[k.id]
        /\ \A j \in DOMAIN local : read[j] = IF j = k.id THEN vault[k.id] ELSE local[j]
    BY <1>2
  <1>10. \A j \in kept : j \in DOMAIN read /\ read[j] = vault[j]
    BY <1>6, <1>9 DEF Recorded
  <1>11. \A j \in DOMAIN read : read[j] # "partial"
    BY <1>6, <1>7, <1>9 DEF Recorded
  <1>12. Relies(w)'
    BY <1>4, <1>7, <1>8, <1>9, <1>10, <1>11 DEF Relies, WholeAdopter
  <1> QED
    BY <1>1, <1>5, <1>6, <1>12, OneMoves

LEMMA WriteAlone ==
  ASSUME VaultTyped, Alone, NEW a \in Adopters, atomic_json(a), adopter[a].at = "write"
  PROVE  Alone'
  <1>0. PICK k : k = adopter[a]
    OBVIOUS
  <1>1. k.at = "write" /\ Relies(k) /\ \A b \in Adopters : Busy(b) => b = a
    BY <1>0 DEF Alone, Free, Busy
  <1>2. UNCHANGED <<vault, local, kept>> /\ temporary' = k.read
    BY <1>0 DEF atomic_json
  <1>3. Recorded'
    BY <1>2 DEF Alone, Recorded
  <1>4. k = [at |-> k.at, id |-> k.id, edited |-> k.edited, read |-> k.read]
    BY <1>1 DEF Relies, WholeAdopter
  <1>5. PICK j : j = [k EXCEPT !.at = "replace"] /\ turns(a, j)
    BY <1>0 DEF atomic_json, At
  <1>6. /\ j.at = "replace" /\ j.id = k.id /\ j.edited = k.edited /\ j.read = k.read
        /\ j = [at |-> j.at, id |-> j.id, edited |-> j.edited, read |-> j.read]
    BY <1>4, <1>5
  <1>7. Relies(j)'
    BY <1>1, <1>2, <1>6 DEF Relies, WholeAdopter
  <1> QED
    BY <1>1, <1>3, <1>5, <1>7, OneMoves

LEMMA ReplaceAlone ==
  ASSUME VaultTyped, Alone, NEW a \in Adopters, atomic_json(a), adopter[a].at = "replace"
  PROVE  Alone'
  <1>0. PICK k : k = adopter[a]
    OBVIOUS
  <1>1. k.at = "replace" /\ Relies(k) /\ \A b \in Adopters : Busy(b) => b = a
    BY <1>0 DEF Alone, Free, Busy
  <1>2. UNCHANGED vault /\ turns(a, Free)
    BY DEF atomic_json
  <1>3. \/ UNCHANGED <<local, kept>>
        \/ local' = k.read /\ kept' = (IF k.edited THEN kept ELSE kept \cup {k.id})
    BY <1>0, <1>1 DEF atomic_json, Relies
  <1>4. Recorded'
    BY <1>1, <1>2, <1>3 DEF Alone, Recorded, Relies
  <1> QED
    BY <1>1, <1>2, <1>4, OneMoves

LEMMA StopAlone ==
  ASSUME VaultTyped, Alone, NEW a \in Adopters, vanished(a) \/ kill_adopter(a)
  PROVE  Alone'
  <1>1. \A b \in Adopters : Busy(b) => b = a
    BY DEF vanished, kill_adopter, Alone, Busy
  <1>2. UNCHANGED <<vault, local, kept>> /\ turns(a, Free)
    BY DEF vanished, kill_adopter
  <1>3. Recorded'
    BY <1>2 DEF Alone, Recorded
  <1> QED
    BY <1>1, <1>2, <1>3, OneMoves

LEMMA TamperAlone ==
  ASSUME VaultTyped, Alone, tamper
  PROVE  Alone'
  <1>1. PICK i \in Media, c \in Candidates \cup {Missing} :
          /\ \A a \in Adopters : adopter[a].at = "fill" => adopter[a].id # i
          /\ vault' = [vault EXCEPT ![i] = c]
          /\ kept' = kept \ {i}
          /\ adopter' = [a \in Adopters |-> IF Busy(a) /\ adopter[a].id = i
                                            THEN [adopter[a] EXCEPT !.edited = TRUE] ELSE adopter[a]]
    BY DEF tamper
  <1>2. UNCHANGED <<local, temporary>>
    BY DEF tamper
  <1>3. \A j \in Media : vault'[j] = IF j = i THEN c ELSE vault[j]
    BY <1>1 DEF VaultTyped
  <1>4. \A j \in kept' : j \in kept /\ j # i /\ vault'[j] = vault[j]
    BY <1>1, <1>3 DEF VaultTyped, Alone, Recorded
  <1>5. Recorded'
    BY <1>2, <1>4 DEF Alone, Recorded
  <1>6. ASSUME NEW a \in Adopters PROVE (adopter[a] = Free \/ Relies(adopter[a]))' /\ (Busy(a)' => Busy(a))
    <2>1. PICK k : k = adopter[a]
      OBVIOUS
    <2>2. PICK j : j = adopter'[a] /\ j = IF k.at # "idle" /\ k.id = i THEN [k EXCEPT !.edited = TRUE] ELSE k
      BY <1>1, <2>1 DEF Busy
    <2>3. CASE k = Free
      BY <2>1, <2>2, <2>3 DEF Free, Busy
    <2>4. CASE Relies(k)
      <3>1. k.at \in {"copy", "fill", "read", "write", "replace"} /\ WholeAdopter(k)
        BY <2>4 DEF Relies
      <3>2. CASE k.at \in {"copy", "fill", "read"}
        <4>1. k = [at |-> k.at, id |-> k.id, file |-> k.file, edited |-> k.edited]
          BY <3>1, <3>2 DEF WholeAdopter
        <4>2. /\ j.at = k.at /\ j.id = k.id /\ j.file = k.file
              /\ j = [at |-> j.at, id |-> j.id, file |-> j.file, edited |-> j.edited]
          BY <2>2, <4>1
        <4>3. vault'[k.id] = IF k.id = i THEN c ELSE vault[k.id]
          BY <1>3, <2>4, <3>2 DEF Relies
        <4>4. Relies(j)'
          BY <1>1, <2>4, <3>2, <4>2, <4>3 DEF Relies, WholeAdopter
        <4> QED
          BY <2>1, <2>2, <3>2, <4>4 DEF Busy
      <3>3. CASE k.at \in {"write", "replace"}
        <4>1. k = [at |-> k.at, id |-> k.id, edited |-> k.edited, read |-> k.read]
          BY <3>1, <3>3 DEF WholeAdopter
        <4>2. /\ j.at = k.at /\ j.id = k.id /\ j.read = k.read
              /\ j = [at |-> j.at, id |-> j.id, edited |-> j.edited, read |-> j.read]
              /\ j.edited = IF k.id = i THEN TRUE ELSE k.edited
          <5>1. CASE k.id = i
            BY <2>2, <3>3, <4>1, <5>1
          <5>2. CASE k.id # i
            BY <2>2, <4>1, <5>2
          <5> QED
            BY <5>1, <5>2
        <4>3. vault'[k.id] = IF k.id = i THEN c ELSE vault[k.id]
          BY <1>3, <2>4, <3>3 DEF Relies
        <4>4. Relies(j)'
          BY <1>2, <1>4, <2>4, <3>3, <4>2, <4>3 DEF Relies, WholeAdopter
        <4> QED
          BY <2>1, <2>2, <3>3, <4>4 DEF Busy
      <3> QED
        BY <3>1, <3>2, <3>3
    <2> QED
      BY <2>1, <2>3, <2>4 DEF Alone
  <1> QED
    BY <1>5, <1>6 DEF Alone
(* What an adoption, an edit or a kill does.                               *)
Handles(a) ==
  adopt(a) \/ copy2(a) \/ read_overrides(a) \/ vanished(a) \/ atomic_json(a) \/ kill_adopter(a)

LEMMA HandlesAlone ==
  ASSUME VaultTyped, ~overlapped => Alone, NEW a \in Adopters, Handles(a), ~overlapped'
  PROVE  Alone'
  <1>1. ASSUME ~adopt(a) PROVE Alone
    BY <1>1 DEF Handles, copy2, read_overrides, vanished, atomic_json, kill_adopter
  <1>2. atomic_json(a) => adopter[a].at \in {"write", "replace"}
    BY DEF atomic_json
  <1> QED
    BY <1>1, <1>2, AdoptAlone, CopyAlone, ReadAlone, WriteAlone, ReplaceAlone, StopAlone DEF Handles

(* It keeps the shape of the vault, and concerns no recipe.                *)
LEMMA HandlesKeeps ==
  ASSUME VaultTyped, Shown, RecipeWasCompared, tamper \/ \E a \in Adopters : Handles(a)
  PROVE  VaultTyped' /\ Shown' /\ RecipeWasCompared'
  <1>1. UNCHANGED <<recipes, written>>
    BY DEF tamper, Handles, adopt, copy2, read_overrides, vanished, atomic_json, kill_adopter
  <1>2. Shown' /\ RecipeWasCompared'
    BY <1>1 DEF Shown, RecipeWasCompared, Required
  <1>3. ASSUME NEW a \in Adopters, Handles(a) PROVE \E k : turns(a, k)
    BY <1>3 DEF Handles, adopt, copy2, read_overrides, vanished, atomic_json, kill_adopter, At
  <1>4. DOMAIN adopter' = Adopters /\ adopter' = [b \in Adopters |-> adopter'[b]]
    <2>1. CASE tamper
      BY <2>1 DEF tamper
    <2>2. CASE \E a \in Adopters : Handles(a)
      BY <1>3, <2>2 DEF turns, VaultTyped
    <2> QED
      BY <2>1, <2>2
  <1>5. UNCHANGED vault \/ \E i, c : vault' = [vault EXCEPT ![i] = c]
    BY DEF tamper, Handles, adopt, copy2, read_overrides, vanished, atomic_json, kill_adopter
  <1>6. DOMAIN vault' = Media /\ vault' = [i \in Media |-> vault'[i]]
    BY <1>5 DEF VaultTyped
  <1> QED
    BY <1>2, <1>4, <1>6 DEF VaultTyped

(* Comparing and writing concern nothing of the vault.                     *)
LEMMA RecipesKeep ==
  ASSUME VaultTyped, ~overlapped => Alone, UNCHANGED <<vault, local, temporary, adopter, kept, overlapped>>
  PROVE  VaultTyped' /\ (~overlapped' => Alone')
  <1>1. VaultTyped'
    BY DEF VaultTyped
  <1>2. Recorded => Recorded'
    BY DEF Recorded
  <1>3. \A k : Relies(k) => Relies(k)'
    BY DEF Relies, WholeAdopter
  <1> QED
    BY <1>1, <1>2, <1>3 DEF Alone, Busy

LEMMA ComparedIsShown ==
  ASSUME Shown, RecipeWasCompared, verified_profile
  PROVE  Shown' /\ RecipeWasCompared'
  <1>1. PICK p \in Profiles :
          /\ \A i \in Required(p) : Ready(i)
          /\ recipes' = [at |-> "recipe", profile |-> p, local |-> local,
                         shown |-> [i \in Required(p) |-> vault[i]]]
    BY DEF verified_profile
  <1>2. \A i \in Required(p) : vault[i] # Missing /\ vault[i] = resolved_by_id(i)
    BY <1>1 DEF Ready, verify
  <1>3. UNCHANGED written
    BY DEF verified_profile
  <1>4. RecipeWasCompared'
    BY <1>3 DEF RecipeWasCompared
  <1>5. Required(p)' = Required(p)
    BY DEF Required
  <1> QED
    BY <1>1, <1>2, <1>4, <1>5 DEF Shown, resolved_by_id

LEMMA WrittenWasCompared ==
  ASSUME Shown, mastering_recipe
  PROVE  Shown' /\ RecipeWasCompared'
  <1>1. Shown'
    BY DEF mastering_recipe, Shown
  <1>2. /\ recipes.at = "recipe"
        /\ written' = [inputs |-> [i \in Required(recipes.profile) |-> resolved_by_id(i)],
                       shown |-> recipes.shown, adopted |-> local # recipes.local]
    BY DEF mastering_recipe
  <1> SUFFICES ASSUME ~written'.adopted, NEW i \in DOMAIN written'.inputs
               PROVE  written'.inputs[i] = written'.shown[i] /\ written'.shown[i] # Missing
    BY <1>1 DEF RecipeWasCompared
  <1>3. local = recipes.local /\ i \in Required(recipes.profile)
    BY <1>2
  <1> QED
    BY <1>2, <1>3 DEF Shown, resolved_by_id

LEMMA VaultSteps ==
  ASSUME VaultInvariant, [VaultNext]_vaultVars
  PROVE  VaultInvariant'
  <1>0. VaultTyped /\ (~overlapped => Alone) /\ Shown /\ RecipeWasCompared
    BY DEF VaultInvariant
  <1>1. CASE UNCHANGED vaultVars
    <2>1. UNCHANGED <<vault, local, temporary, adopter, recipes, written, kept, overlapped>>
      BY <1>1 DEF vaultVars
    <2>2. Shown' /\ RecipeWasCompared'
      BY <1>0, <2>1 DEF Shown, RecipeWasCompared, Required
    <2> QED
      BY <1>0, <2>1, <2>2, RecipesKeep DEF VaultInvariant
  <1>2. CASE \E a \in Adopters : Handles(a)
    BY <1>0, <1>2, HandlesAlone, HandlesKeeps DEF VaultInvariant
  <1>3. CASE tamper
    <2>1. UNCHANGED overlapped
      BY <1>3 DEF tamper
    <2> QED
      BY <1>0, <1>3, <2>1, TamperAlone, HandlesKeeps DEF VaultInvariant
  <1>4. CASE verified_profile
    <2>1. UNCHANGED <<vault, local, temporary, adopter, kept, overlapped>>
      BY <1>4 DEF verified_profile
    <2> QED
      BY <1>0, <1>4, <2>1, RecipesKeep, ComparedIsShown DEF VaultInvariant
  <1>5. CASE mastering_recipe
    <2>1. UNCHANGED <<vault, local, temporary, adopter, kept, overlapped>>
      BY <1>5 DEF mastering_recipe
    <2> QED
      BY <1>0, <1>5, <2>1, RecipesKeep, WrittenWasCompared DEF VaultInvariant
  <1> QED
    BY <1>1, <1>2, <1>3, <1>4, <1>5 DEF VaultNext, Handles

(* The strengthening: what the one adoption that runs has read and will    *)
(* write agrees with the vault wherever that was not edited.               *)
THEOREM VaultInvariantHolds == VaultSpec => []VaultInvariant
  <1>1. VaultInvariant /\ [VaultNext]_vaultVars => VaultInvariant'
    BY VaultSteps
  <1> QED
    BY <1>1, VaultStarts, PTL DEF VaultSpec

(* What `media adopt` recorded is what the vault holds, unless somebody    *)
(* edited it or two adoptions ran at once, and no partial copy verifies;   *)
(* what `image recipe` records is what was compared, unless something was  *)
(* adopted in between: for any media, files, kills and edits.              *)
THEOREM TheVaultIsHonest == VaultSpec => []VaultIsHonest
  <1>1. ASSUME Alone PROVE AdoptedVerifies
    <2>1. \A i \in kept : i \in Media /\ verify(i) = "ok"
      BY <1>1 DEF Alone, Recorded, verify, resolved_by_id
    <2>2. \A i \in Media : verify(i) = "ok" => vault[i] # "partial"
      BY <1>1, VaultAssumption DEF Alone, Recorded, verify, resolved_by_id
    <2> QED
      BY <2>1, <2>2 DEF AdoptedVerifies
  <1>2. VaultInvariant => VaultIsHonest
    BY <1>1 DEF VaultInvariant, VaultIsHonest, AdoptedVerifies
  <1> QED
    BY <1>2, VaultInvariantHolds, PTL

(***************************************************************************)
(* The command that makes an image (rebuild.py).                           *)
(***************************************************************************)
RebuildSpec == RebuildInit /\ [][RebuildNext]_rebuildVars

Labelled == args.label # None /\ ~args.test /\ args.raw # None /\ args.label.offset # None

LabelIsPlaced == Labelled => output.label.porch = output.root[args.ufs]

(* What a builder leaves has a place for a label.                          *)
IsIso(o) == /\ o = [f \in DOMAIN o |-> o[f]]
            /\ {"tree", "label", "root", "descriptors", "catalog"} \subseteq DOMAIN o

Usable ==
  /\ \E i, j \in DOMAIN output.descriptors :
       output.descriptors[i] = "pvd" /\ output.descriptors[j] = "boot"
  /\ output.catalog = 0
  /\ LabelIsPlaced

(* The block that find_iso_file_extent saw stays the place of the wrapped  *)
(* file until the label is written, and nothing touches a finished image.  *)
UsableInv ==
  /\ step \in {"idle", "resolve", "y2k", "download", "stage", "merge", "build", "find", "label", "validate"}
  /\ step # "idle" => args \in CommandLines
  /\ step \in {"find", "label", "validate"} => IsIso(output)
  /\ step = "label" /\ Wrapped => ufs = output.root[args.ufs]
  /\ step = "validate" => LabelIsPlaced
  /\ status = "ok" => step = "idle" /\ Usable

LEMMA UsableStarts == RebuildInit => UsableInv
  BY RebuildAssumption DEF RebuildInit, UsableInv

LEMMA LabelKeeps ==
  ASSUME UsableInv, apply_label_overlay
  PROVE  UsableInv'
  <1> DEFINE label == args.label
             patched == Wrapped /\ label.offset # None
             new == IF patched THEN patch_label_front_porch(label, ufs) ELSE label
  <1>1. /\ step = "label" /\ args \in CommandLines /\ IsIso(output)
        /\ Wrapped => ufs = output.root[args.ufs]
        /\ status # "ok"
    BY DEF apply_label_overlay, UsableInv
  <1>2. UNCHANGED <<args, image, stage, layers, cache, ufs, runs>>
    BY DEF apply_label_overlay
  <1>3. \/ label = None /\ step' = "validate" /\ UNCHANGED <<output, status>>
        \/ step' = "idle" /\ status' \in {"error", "traceback"}
        \/ label # None /\ output' = [output EXCEPT !.label = new] /\ step' = "validate" /\ UNCHANGED status
    BY DEF apply_label_overlay, ends
  <1>4. CASE label = None /\ step' = "validate" /\ UNCHANGED <<output, status>>
    <2>1. LabelIsPlaced'
      BY <1>2, <1>4 DEF LabelIsPlaced, Labelled
    <2> QED
      BY <1>1, <1>2, <1>4, <2>1 DEF UsableInv, IsIso
  <1>5. CASE step' = "idle" /\ status' \in {"error", "traceback"}
    BY <1>5 DEF UsableInv
  <1>6. CASE label # None /\ output' = [output EXCEPT !.label = new] /\ step' = "validate" /\ UNCHANGED status
    <2>1. /\ output'.label = new /\ output'.root = output.root
          /\ DOMAIN output' = DOMAIN output /\ IsIso(output')
      <3> HIDE DEF new
      <3> QED
        BY <1>1, <1>6 DEF IsIso
    <2>2. Labelled' => new.porch = ufs /\ Wrapped
      <3>1. "porch" \in DOMAIN label /\ label = [f \in DOMAIN label |-> label[f]]
        BY <1>1, <1>6, RebuildAssumption
      <3>2. patch_label_front_porch(label, ufs).porch = ufs
        BY <3>1 DEF patch_label_front_porch
      <3>3. Labelled' => patched
        BY <1>2 DEF Labelled, Wrapped
      <3> QED
        BY <3>2, <3>3
    <2>3. LabelIsPlaced'
      <3> HIDE DEF new
      <3> QED
        BY <1>1, <1>2, <2>1, <2>2 DEF LabelIsPlaced
    <2> QED
      BY <1>1, <1>2, <1>6, <2>1, <2>3 DEF UsableInv
  <1> HIDE DEF new, label
  <1> QED
    BY <1>3, <1>4, <1>5, <1>6

LEMMA ValidateKeeps ==
  ASSUME UsableInv, require_valid
  PROVE  UsableInv'
  <1>1. /\ step = "validate" /\ LabelIsPlaced
    BY DEF require_valid, UsableInv
  <1>2. /\ step' = "idle" /\ UNCHANGED <<args, output>>
        /\ status' = IF validate_el_torito(output) THEN "ok" ELSE "error"
    BY DEF require_valid, ends
  <1>3. validate_el_torito(output) => Usable
    <2> SUFFICES ASSUME validate_el_torito(output) PROVE Usable
      OBVIOUS
    <2>1. \E i \in DOMAIN output.descriptors : output.descriptors[i] = "pvd"
      BY DEF validate_el_torito, Scanned
    <2>2. \E i \in DOMAIN output.descriptors : output.descriptors[i] = "boot"
      BY DEF validate_el_torito, Scanned
    <2>3. output.catalog = 0
      BY DEF validate_el_torito
    <2> QED
      BY <1>1, <2>1, <2>2, <2>3 DEF Usable
  <1>4. status' = "ok" => Usable'
    <2>1. Usable => Usable'
      BY <1>2 DEF Usable, LabelIsPlaced, Labelled
    <2> QED
      BY <1>2, <1>3, <2>1
  <1> QED
    BY <1>2, <1>4 DEF UsableInv

LEMMA BuildKeeps ==
  ASSUME UsableInv, build_iso
  PROVE  UsableInv'
  <1>1. /\ step = "build" /\ args \in CommandLines /\ status # "ok"
    BY DEF build_iso, UsableInv
  <1>2. UNCHANGED <<args, ufs>>
    BY DEF build_iso
  <1>3. \/ output' \in Made /\ step' = "find" /\ UNCHANGED status
        \/ step' = "idle" /\ status' = "error"
    BY DEF build_iso, ends
  <1>4. ASSUME output' \in Made PROVE IsIso(output')
    BY <1>4 DEF Made, IsIso
  <1> QED
    BY <1>1, <1>2, <1>3, <1>4 DEF UsableInv

LEMMA FindKeeps ==
  ASSUME UsableInv, find_iso_file_extent
  PROVE  UsableInv'
  <1>1. /\ step = "find" /\ args \in CommandLines /\ IsIso(output) /\ status # "ok"
    BY DEF find_iso_file_extent, UsableInv
  <1>2. UNCHANGED <<args, output>>
    BY DEF find_iso_file_extent
  <1>3. \/ ~Wrapped /\ step' = "label" /\ UNCHANGED status
        \/ ufs' = output.root[args.ufs] /\ step' = "label" /\ UNCHANGED status
        \/ step' = "idle" /\ status' = "error"
    BY DEF find_iso_file_extent, ends
  <1>4. Wrapped' <=> Wrapped
    BY <1>2 DEF Wrapped
  <1> QED
    BY <1>1, <1>2, <1>3, <1>4 DEF UsableInv, IsIso

LEMMA UsableSteps == UsableInv /\ [RebuildNext]_rebuildVars => UsableInv'
  <1> SUFFICES ASSUME UsableInv, [RebuildNext]_rebuildVars PROVE UsableInv'
    OBVIOUS
  <1>1. CASE UNCHANGED rebuildVars
    BY <1>1 DEF rebuildVars, UsableInv, Usable, LabelIsPlaced, Labelled, Wrapped, IsIso
  <1>2. CASE main
    BY <1>2, RebuildAssumption DEF main, ends, UsableInv
  <1>3. CASE resolve_boot_image
    BY <1>3 DEF resolve_boot_image, ends, UsableInv
  <1>4. CASE ensure_y2k_patch_iso
    BY <1>4 DEF ensure_y2k_patch_iso, ends, UsableInv
  <1>5. CASE download
    BY <1>5 DEF download, ends, UsableInv
  <1>6. CASE begin_stage
    <2>1. /\ step = "stage" /\ UNCHANGED args
          /\ \/ step' \in {"build", "merge"} /\ UNCHANGED status
             \/ step' = "idle" /\ status' \in {"error", "traceback"}
      BY <1>6 DEF begin_stage, ends
    <2> QED
      BY <2>1 DEF UsableInv
  <1>7. CASE merge
    <2>1. /\ step = "merge" /\ UNCHANGED args
          /\ \/ UNCHANGED <<step, status>>
             \/ step' = "idle" /\ status' \in {"error", "traceback"}
      BY <1>7 DEF merge, ends
    <2> QED
      BY <2>1 DEF UsableInv
  <1>8. CASE write_manifest
    <2>1. /\ step = "merge" /\ UNCHANGED args
          /\ \/ step' = "build" /\ UNCHANGED status
             \/ step' = "idle" /\ status' = "traceback"
      BY <1>8 DEF write_manifest, ends
    <2> QED
      BY <2>1 DEF UsableInv
  <1>9. CASE kill_rebuild
    BY <1>9 DEF kill_rebuild, ends, UsableInv
  <1> QED
    BY <1>1, <1>2, <1>3, <1>4, <1>5, <1>6, <1>7, <1>8, <1>9,
       BuildKeeps, FindKeeps, LabelKeeps, ValidateKeeps DEF RebuildNext

(* The host's commands share no variable: what a tool does is a step of    *)
(* its own and none of another.                                            *)
LEMMA EachToolAlone == Spec => RebuildSpec /\ PublisherSpec /\ VaultSpec
  <1>1. Init => RebuildInit /\ PublisherInit /\ VaultInit
    BY DEF Init
  <1>2. [Next]_hostVars => /\ [RebuildNext]_rebuildVars
                           /\ [PublisherNext]_publisherVars
                           /\ [VaultNext]_vaultVars
    BY DEF Next, hostVars, rebuildVars, publisherVars, vaultVars
  <1> QED
    BY <1>1, <1>2, PTL DEF Spec, RebuildSpec, PublisherSpec, VaultSpec

(* When rebuild.py says that an image is complete, its descriptors are in  *)
(* their places, and a label leads to where the wrapped payload lies in    *)
(* this image: for any command lines, builders and accidents, and whatever *)
(* earlier runs left in the cache and under the output's name.             *)
THEOREM RebuiltIsUsable == Spec => []SuccessIsUsable
  <1>1. RebuildSpec => []UsableInv
    BY UsableStarts, UsableSteps, PTL DEF RebuildSpec
  <1>2. UsableInv => SuccessIsUsable
    BY DEF UsableInv, Usable, LabelIsPlaced, Labelled, SuccessIsUsable
  <1> QED
    BY <1>1, <1>2, EachToolAlone, PTL

(***************************************************************************)
(* What the image is made of.                                              *)
(***************************************************************************)
(* The layer main makes of a source.                                       *)
LayerOf(a, s) ==
  IF s.rank \in {0, 3} THEN Iso(s.tree, TRUE)
  ELSE IF s.rank = 4 THEN Iso(Y2K, cache = "whole")
  ELSE IF (s.rank = 7 /\ ~a.patch.root) \/ (s.rank = 8 /\ ~a.driver.root) THEN [kind |-> "missing"]
  ELSE Layer(s.tree)

LayersOf(a, t) == [i \in 1..Len(t) |-> LayerOf(a, t[i])]

IsSource(s) == /\ s = [rank |-> s.rank, nth |-> s.nth, tree |-> s.tree]
               /\ s.rank \in Int /\ s.nth \in Int /\ (s.rank = 4 => s.nth = 0)

(* Sources in the order of their merging.                                  *)
Ascends(t) == \A i, j \in 1..Len(t) : i < j => Over(t[j], t[i])

Between(low, t, high) == \A i \in 1..Len(t) : IsSource(t[i]) /\ low <= t[i].rank /\ t[i].rank <= high

Items(t) == {t[i] : i \in 1..Len(t)}

Run(M, a, low, t, high) == t \in Seq(M) /\ Ascends(t) /\ Between(low, t, high)

LEMMA Joined ==
  ASSUME NEW S, NEW s \in Seq(S), NEW t \in Seq(S)
  PROVE  /\ s \o t \in Seq(S) /\ Len(s \o t) = Len(s) + Len(t)
         /\ \A i \in 1..Len(s) : (s \o t)[i] = s[i]
         /\ \A i \in (Len(s) + 1)..(Len(s) + Len(t)) : (s \o t)[i] = t[i - Len(s)]
         /\ s \o t = [i \in 1..(Len(s) + Len(t)) |-> (s \o t)[i]]
  <1>1. s \o t \in Seq(S) /\ Len(s \o t) = Len(s) + Len(t)
    OBVIOUS
  <1>2. (s \o t) = [i \in 1..(Len(s) + Len(t)) |-> (s \o t)[i]]
    <2>1. ASSUME NEW z \in Seq(S) PROVE z = [i \in 1..Len(z) |-> z[i]]
      OBVIOUS
    <2> DEFINE z == s \o t
    <2>2. z \in Seq(S) /\ Len(z) = Len(s) + Len(t)
      BY <1>1
    <2> HIDE DEF z
    <2>3. z = [i \in 1..(Len(s) + Len(t)) |-> z[i]]
      BY <2>1, <2>2
    <2> QED
      BY <2>3 DEF z
  <1>3. \A i \in 1..Len(s) : (s \o t)[i] = s[i]
    OBVIOUS
  <1>4. \A i \in (Len(s) + 1)..(Len(s) + Len(t)) : (s \o t)[i] = t[i - Len(s)]
    OBVIOUS
  <1> QED
    BY <1>1, <1>2, <1>3, <1>4

Ranks(r, p, q, h) == r \in Int /\ p \in Int /\ q \in Int /\ h \in Int /\ p < q /\ r <= q /\ p <= h

AsOneRun(M, a, r, s, t, h) ==
  /\ Run(M, a, r, s \o t, h)
  /\ Items(s \o t) = Items(s) \cup Items(t)
  /\ LayersOf(a, s \o t) = LayersOf(a, s) \o LayersOf(a, t)

LEMMA RunsJoin ==
  ASSUME NEW M, NEW a, NEW r, NEW p, NEW q, NEW h, NEW s, NEW t,
         Run(M, a, r, s, p), Run(M, a, q, t, h), Ranks(r, p, q, h)
  PROVE  AsOneRun(M, a, r, s, t, h)
  <1> DEFINE n == Len(s)  m == Len(t)  u == s \o t
  <1>0. r \in Int /\ p \in Int /\ q \in Int /\ h \in Int /\ p < q /\ r <= q /\ p <= h
    BY DEF Ranks
  <1>1. /\ s \in Seq(M) /\ t \in Seq(M) /\ n \in Nat /\ m \in Nat
    BY DEF Run
  <1>2. /\ u \in Seq(M) /\ Len(u) = n + m
        /\ \A i \in 1..n : u[i] = s[i]
        /\ \A i \in (n + 1)..(n + m) : u[i] = t[i - n]
    BY <1>1
  <1>3. \A i \in 1..(n + m) : i \in 1..n \/ (i - n \in 1..m /\ i \in (n + 1)..(n + m))
    BY <1>1
  <1> HIDE DEF u, n, m
  <1>4. Between(r, u, h)
    <2> SUFFICES ASSUME NEW i \in 1..(n + m)
                 PROVE  IsSource(u[i]) /\ r <= u[i].rank /\ u[i].rank <= h
      BY <1>2 DEF Between
    <2>1. CASE i \in 1..n
      <3>1. IsSource(s[i]) /\ r <= s[i].rank /\ s[i].rank <= p
        BY <2>1 DEF Run, Between, n
      <3> QED
        BY <1>0, <1>2, <2>1, <3>1 DEF IsSource
    <2>2. CASE i - n \in 1..m /\ i \in (n + 1)..(n + m)
      <3>1. IsSource(t[i - n]) /\ q <= t[i - n].rank /\ t[i - n].rank <= h
        BY <2>2 DEF Run, Between, m
      <3> QED
        BY <1>0, <1>2, <2>2, <3>1 DEF IsSource
    <2> QED
      BY <1>3, <2>1, <2>2
  <1>5. Ascends(u)
    <2> SUFFICES ASSUME NEW i \in 1..(n + m), NEW j \in 1..(n + m), i < j
                 PROVE  Over(u[j], u[i])
      BY <1>2 DEF Ascends
    <2>0. i \in Int /\ j \in Int
      BY <1>1
    <2>1. CASE i \in 1..n /\ j \in 1..n
      <3>1. Over(s[j], s[i])
        BY <2>1 DEF Run, Ascends, n
      <3> QED
        BY <1>2, <2>1, <3>1
    <2>2. CASE i \in 1..n /\ j - n \in 1..m /\ j \in (n + 1)..(n + m)
      <3>1. IsSource(s[i]) /\ s[i].rank <= p
        BY <2>2 DEF Run, Between, n
      <3>2. IsSource(t[j - n]) /\ q <= t[j - n].rank
        BY <2>2 DEF Run, Between, m
      <3>3. Over(t[j - n], s[i])
        BY <1>0, <3>1, <3>2 DEF Over, IsSource
      <3> QED
        BY <1>2, <2>2, <3>3
    <2>3. CASE i - n \in 1..m /\ i \in (n + 1)..(n + m) /\ j - n \in 1..m /\ j \in (n + 1)..(n + m)
      <3>1. i - n < j - n
        BY <1>1, <2>0
      <3>2. Over(t[j - n], t[i - n])
        BY <2>3, <3>1 DEF Run, Ascends, m
      <3> QED
        BY <1>2, <2>3, <3>2
    <2>4. CASE i - n \in 1..m /\ i \in (n + 1)..(n + m) /\ j \in 1..n
      BY <1>1, <2>0, <2>4
    <2> QED
      BY <1>3, <2>1, <2>2, <2>3, <2>4
  <1>6. Items(u) = Items(s) \cup Items(t)
    <2>1. ASSUME NEW x \in Items(u) PROVE x \in Items(s) \cup Items(t)
      <3>1. PICK i \in 1..(n + m) : x = u[i]
        BY <1>2 DEF Items
      <3> QED
        BY <1>2, <1>3, <3>1 DEF Items, n, m
    <2>2. ASSUME NEW i \in 1..n PROVE s[i] \in Items(u)
      BY <1>1, <1>2 DEF Items
    <2>3. ASSUME NEW i \in 1..m PROVE t[i] \in Items(u)
      <3>1. n + i \in (n + 1)..(n + m) /\ n + i \in 1..(n + m) /\ (n + i) - n = i
        BY <1>1
      <3> QED
        BY <1>2, <3>1 DEF Items
    <2> QED
      BY <2>1, <2>2, <2>3 DEF Items, n, m
  <1>7. LayersOf(a, u) = LayersOf(a, s) \o LayersOf(a, t)
    <2> DEFINE x == LayersOf(a, s)  y == LayersOf(a, t)  L == {LayerOf(a, s[i]) : i \in 1..n} \cup {LayerOf(a, t[i]) : i \in 1..m}
    <2>1. x \in Seq(L) /\ Len(x) = n /\ \A i \in 1..n : x[i] = LayerOf(a, s[i])
      BY <1>1 DEF LayersOf, n
    <2>2. y \in Seq(L) /\ Len(y) = m /\ \A i \in 1..m : y[i] = LayerOf(a, t[i])
      BY <1>1 DEF LayersOf, m
    <2> HIDE DEF x, y, L
    <2>3. /\ x \o y \in Seq(L) /\ Len(x \o y) = n + m
          /\ \A i \in 1..n : (x \o y)[i] = x[i]
          /\ \A i \in (n + 1)..(n + m) : (x \o y)[i] = y[i - n]
      <3>1. /\ x \o y \in Seq(L) /\ Len(x \o y) = Len(x) + Len(y)
            /\ \A i \in 1..Len(x) : (x \o y)[i] = x[i]
            /\ \A i \in (Len(x) + 1)..(Len(x) + Len(y)) : (x \o y)[i] = y[i - Len(x)]
        BY <2>1, <2>2, Joined
      <3>2. Len(x) = n /\ Len(y) = m
        BY <2>1, <2>2
      <3> QED
        BY ONLY <3>1, <3>2
    <2> DEFINE z == LayersOf(a, u)
    <2>4. z = [i \in 1..(n + m) |-> LayerOf(a, u[i])]
      BY <1>2 DEF LayersOf
    <2>5. ASSUME NEW i \in 1..(n + m) PROVE z[i] = (x \o y)[i]
      <3>1. z[i] = LayerOf(a, u[i])
        BY <2>4
      <3>2. CASE i \in 1..n
        BY <1>2, <2>1, <2>3, <3>1, <3>2
      <3>3. CASE i - n \in 1..m /\ i \in (n + 1)..(n + m)
        BY <1>2, <2>2, <2>3, <3>1, <3>3
      <3> HIDE DEF z
      <3> QED
        BY <1>3, <3>2, <3>3
    <2>6. z = x \o y
      <3>1. x \o y = [i \in 1..(n + m) |-> (x \o y)[i]]
        BY <1>1, <2>1, <2>2, Joined
      <3> HIDE DEF z
      <3> QED
        BY <2>4, <2>5, <3>1
    <2> QED
      BY <2>6 DEF x, y, z
  <1> QED
    BY <1>2, <1>4, <1>5, <1>6, <1>7 DEF Run, AsOneRun, u

From(rank, tree) == [rank |-> rank, nth |-> 0, tree |-> tree]
Nth(rank, trees) == [i \in 1..Len(trees) |-> [rank |-> rank, nth |-> i, tree |-> trees[i]]]

Part(M, a, low, t, high, items, steps) ==
  Run(M, a, low, t, high) /\ Items(t) = items /\ LayersOf(a, t) = steps

LEMMA NoPart ==
  ASSUME NEW M, NEW a, NEW r \in Int, NEW h \in Int
  PROVE  Part(M, a, r, << >>, h, {}, << >>)
  BY DEF Part, Run, Ascends, Between, Items, LayersOf

LEMMA OnePart ==
  ASSUME NEW M, NEW a, NEW r \in Int, NEW tree, From(r, tree) \in M
  PROVE  Part(M, a, r, <<From(r, tree)>>, r, {From(r, tree)}, <<LayerOf(a, From(r, tree))>>)
  <1> DEFINE s == From(r, tree)  t == <<s>>
  <1>1. IsSource(s) /\ s.rank = r
    BY DEF From, IsSource
  <1> HIDE DEF s
  <1>2. t \in Seq(M) /\ Len(t) = 1 /\ t[1] = s
    BY DEF s
  <1>3. 1..Len(t) = {1}
    BY <1>2
  <1> HIDE DEF t
  <1>4. Ascends(t)
    BY <1>3 DEF Ascends
  <1>5. Between(r, t, r)
    BY <1>1, <1>2, <1>3 DEF Between
  <1>6. Items(t) = {s}
    BY <1>2, <1>3 DEF Items
  <1>7. LayersOf(a, t) = <<LayerOf(a, s)>>
    BY <1>2, <1>3 DEF LayersOf
  <1> QED
    BY <1>2, <1>4, <1>5, <1>6, <1>7 DEF Part, Run, s, t

LEMMA ManyParts ==
  ASSUME NEW M, NEW a, NEW r \in Int \ {4}, NEW trees, Len(trees) \in Nat,
         \A i \in 1..Len(trees) : Nth(r, trees)[i] \in M
  PROVE  Part(M, a, r, Nth(r, trees), r, {[rank |-> r, nth |-> i, tree |-> trees[i]] : i \in 1..Len(trees)},
              [i \in 1..Len(trees) |-> LayerOf(a, [rank |-> r, nth |-> i, tree |-> trees[i]])])
  <1> DEFINE n == Len(trees)  t == Nth(r, trees)  s(i) == [rank |-> r, nth |-> i, tree |-> trees[i]]
  <1>1. t = [i \in 1..n |-> s(i)]
    BY DEF Nth
  <1>2. \A i \in 1..n : IsSource(s(i)) /\ s(i).rank = r /\ s(i).nth = i
    BY DEF IsSource
  <1> HIDE DEF s
  <1>3. \A i \in 1..n : t[i] = s(i)
    BY <1>1
  <1> HIDE DEF t
  <1>4. t \in Seq(M) /\ Len(t) = n
    BY <1>1, <1>3 DEF t
  <1>5. Between(r, t, r)
    BY <1>2, <1>3, <1>4 DEF Between
  <1>6. Ascends(t)
    <2> SUFFICES ASSUME NEW i \in 1..n, NEW j \in 1..n, i < j PROVE Over(t[j], t[i])
      BY <1>4 DEF Ascends
    <2> QED
      BY <1>2, <1>3 DEF Over
  <1>7. Items(t) = {s(i) : i \in 1..n}
    BY <1>3, <1>4 DEF Items
  <1>8. LayersOf(a, t) = [i \in 1..n |-> LayerOf(a, s(i))]
    BY <1>3, <1>4 DEF LayersOf
  <1> QED
    BY <1>4, <1>5, <1>6, <1>7, <1>8 DEF Part, Run, t, s

LEMMA PartsJoin ==
  ASSUME NEW M, NEW a, NEW r, NEW p, NEW q, NEW h, Ranks(r, p, q, h),
         NEW s, NEW I, NEW K, Part(M, a, r, s, p, I, K),
         NEW t, NEW J, NEW L, Part(M, a, q, t, h, J, L)
  PROVE  Part(M, a, r, s \o t, h, I \cup J, K \o L)
  <1>1. Run(M, a, r, s, p) /\ Run(M, a, q, t, h)
    BY DEF Part
  <1>2. AsOneRun(M, a, r, s, t, h)
    BY <1>1, RunsJoin
  <1>3. Items(s) = I /\ Items(t) = J /\ LayersOf(a, s) = K /\ LayersOf(a, t) = L
    BY DEF Part
  <1> QED
    BY <1>2, <1>3 DEF Part, AsOneRun

(* The sources of each part of the command line, in main's order; y is     *)
(* what could be had of the Y2K image.                                     *)
PatchItems(a) == {[rank |-> 3, nth |-> i, tree |-> a.patches[i]] : i \in 1..Len(a.patches)}
Y2KItems(a, y) == IF a.skip THEN {} ELSE {From(4, y)}
DriverItems(a) ==
  IF a.drivers = << >> THEN {} ELSE {From(5, Placed(a.drivers, "drivers", "floppies"))}
UserItems(a) == IF a.user = None THEN {} ELSE {From(6, merge_named_payload(a.user))}
FolderItems(rank, p) == IF p = None THEN {} ELSE {From(rank, p.tree)}
OverlayItems(a) == {[rank |-> 9, nth |-> i, tree |-> a.overlays[i]] : i \in 1..Len(a.overlays)}

BootSource == From(1, Boot)
ReadmeSource == From(2, File("README.TXT", Written("readme")))
UfsSource(a, of) == From(2, File(a.ufs, Written(of)))
ManifestSource == From(10, File(Manifest_, Written("manifest")))

IsoItems(a, y) == PatchItems(a) \cup Y2KItems(a, y)
TestItems == {BootSource} \cup {ReadmeSource}
RawItems(a, y) == ({BootSource} \cup {UfsSource(a, a.raw.behind[a.porch])}) \cup IsoItems(a, y)
BaseItems(a, y) ==
  ((((((({From(0, a.base)} \cup {BootSource}) \cup IsoItems(a, y)) \cup DriverItems(a)) \cup UserItems(a))
     \cup FolderItems(7, a.patch)) \cup FolderItems(8, a.driver)) \cup OverlayItems(a))

LEMMA TestBrought ==
  ASSUME args \in CommandLines, args.test, NEW y
  PROVE  Brought(args, y) = TestItems
  BY DEF Brought, TestItems, BootSource, ReadmeSource, From

LEMMA RawBrought ==
  ASSUME args \in CommandLines, ~args.test, args.raw # None, NEW y
  PROVE  Brought(args, y) = RawItems(args, y) \cup {ManifestSource}
  <1>1. DOMAIN args.patches = 1..Len(args.patches)
    BY RebuildAssumption
  <1> QED
    BY <1>1 DEF Brought, RawItems, BootSource, UfsSource, From, ManifestSource, IsoItems, PatchItems, Y2KItems

LEMMA BaseBrought ==
  ASSUME args \in CommandLines, ~args.test, args.raw = None, NEW y
  PROVE  Brought(args, y) = BaseItems(args, y) \cup {ManifestSource}
  <1>1. DOMAIN args.patches = 1..Len(args.patches) /\ DOMAIN args.overlays = 1..Len(args.overlays)
    BY RebuildAssumption
  <1>2. UserItems(args) = IF args.user # None /\ ~args.user.root
                          THEN {From(6, Placed(args.user.tree, "user", "user"))}
                          ELSE FolderItems(6, args.user)
    BY DEF UserItems, FolderItems, merge_named_payload
  <1>3. Brought(args, y) =
          {From(0, args.base), BootSource, ManifestSource} \cup IsoItems(args, y)
          \cup DriverItems(args) \cup UserItems(args)
          \cup FolderItems(7, args.patch) \cup FolderItems(8, args.driver) \cup OverlayItems(args)
    BY <1>1, <1>2 DEF Brought, BootSource, From, ManifestSource, IsoItems, PatchItems, Y2KItems, DriverItems,
       FolderItems, OverlayItems
  <1> QED
    BY <1>3 DEF BaseItems

(* What is merged for a source: of the Y2K image, what could be had of it. *)
Actual(s, y) == IF s.rank = 4 THEN From(4, y) ELSE s
Actuals(S, y) == {Actual(s, y) : s \in S}
Gives(S, y, U) == Actuals(S, y) = U

LEMMA MostStay ==
  ASSUME NEW S, NEW y, \A s \in S : s.rank # 4
  PROVE  Gives(S, y, S)
  BY DEF Gives, Actuals, Actual

LEMMA BothGive ==
  ASSUME NEW S, NEW T, NEW y, NEW U, NEW V, Gives(S, y, U), Gives(T, y, V)
  PROVE  Gives(S \cup T, y, U \cup V)
  BY DEF Gives, Actuals

LEMMA OneStays ==
  ASSUME NEW r \in {0, 1, 2, 5, 6, 7, 8, 10}, NEW tree, NEW y
  PROVE  Gives({From(r, tree)}, y, {From(r, tree)})
  BY DEF Gives, Actuals, Actual, From

LEMMA NoneStays == ASSUME NEW y PROVE Gives({}, y, {})
  BY DEF Gives, Actuals

LEMMA IsosGive ==
  ASSUME NEW a, NEW y
  PROVE  Gives(IsoItems(a, Y2K), y, IsoItems(a, y))
  <1>1. Gives(PatchItems(a), y, PatchItems(a))
    <2>1. \A s \in PatchItems(a) : s.rank # 4
      BY DEF PatchItems
    <2> QED
      BY <2>1, MostStay
  <1>2. Gives(Y2KItems(a, Y2K), y, Y2KItems(a, y))
    <2>1. Actual(From(4, Y2K), y) = From(4, y)
      BY DEF Actual, From
    <2>2. Gives({From(4, Y2K)}, y, {From(4, y)})
      BY <2>1 DEF Gives, Actuals
    <2> QED
      BY <2>2, NoneStays DEF Y2KItems
  <1> QED
    BY <1>1, <1>2, BothGive DEF IsoItems

(* What is brought with a part of the Y2K image is what is brought with    *)
(* all of it, but for that one source.                                     *)
LEMMA BroughtIsActual ==
  ASSUME args \in CommandLines, NEW y
  PROVE  Actuals(Brought(args, Y2K), y) = Brought(args, y)
  <1>1. Gives({ManifestSource}, y, {ManifestSource}) /\ Gives({BootSource}, y, {BootSource})
    BY OneStays DEF ManifestSource, BootSource
  <1>2. Gives(IsoItems(args, Y2K), y, IsoItems(args, y))
    BY IsosGive
  <1>3. CASE args.test
    <2>1. Gives({ReadmeSource}, y, {ReadmeSource})
      BY OneStays DEF ReadmeSource
    <2>2. Gives(TestItems, y, TestItems)
      BY <1>1, <2>1, BothGive DEF TestItems
    <2> QED
      BY <1>3, <2>2, TestBrought DEF Gives
  <1>4. CASE ~args.test /\ args.raw # None
    <2> DEFINE f == {UfsSource(args, args.raw.behind[args.porch])}
    <2>1. Gives(f, y, f)
      BY OneStays DEF UfsSource
    <2> HIDE DEF f
    <2>2. Gives({BootSource} \cup f, y, {BootSource} \cup f)
      BY <1>1, <2>1, BothGive
    <2>3. Gives(({BootSource} \cup f) \cup IsoItems(args, Y2K), y, ({BootSource} \cup f) \cup IsoItems(args, y))
      BY <1>2, <2>2, BothGive
    <2>4. Gives(RawItems(args, Y2K), y, RawItems(args, y))
      BY <2>3 DEF RawItems, f
    <2>5. Gives(RawItems(args, Y2K) \cup {ManifestSource}, y, RawItems(args, y) \cup {ManifestSource})
      BY <1>1, <2>4, BothGive
    <2> QED
      BY <1>4, <2>5, RawBrought DEF Gives
  <1>5. CASE ~args.test /\ args.raw = None
    <2> DEFINE base == {From(0, args.base)}
               d == DriverItems(args)  u == UserItems(args)  o == OverlayItems(args)
               p == FolderItems(7, args.patch)  q == FolderItems(8, args.driver)
    <2>1. Gives(base, y, base)
      BY OneStays
    <2>2. Gives(d, y, d)
      BY OneStays, NoneStays DEF DriverItems
    <2>3. Gives(u, y, u)
      BY OneStays, NoneStays DEF UserItems
    <2>4. Gives(p, y, p) /\ Gives(q, y, q)
      BY OneStays, NoneStays DEF FolderItems
    <2>5. Gives(o, y, o)
      <3>1. \A s \in OverlayItems(args) : s.rank # 4
        BY DEF OverlayItems
      <3> QED
        BY <3>1, MostStay
    <2> HIDE DEF base, d, u, o, p, q
    <2> DEFINE x == (base \cup {BootSource}) \cup IsoItems(args, Y2K)
               z == (base \cup {BootSource}) \cup IsoItems(args, y)
    <2>6. Gives(base \cup {BootSource}, y, base \cup {BootSource})
      BY <1>1, <2>1, BothGive
    <2>7. Gives(x, y, z)
      BY <1>2, <2>6, BothGive
    <2> HIDE DEF x, z
    <2>8. Gives(x \cup d, y, z \cup d)
      BY <2>2, <2>7, BothGive
    <2>9. Gives((x \cup d) \cup u, y, (z \cup d) \cup u)
      BY <2>3, <2>8, BothGive
    <2>10. Gives(((x \cup d) \cup u) \cup p, y, ((z \cup d) \cup u) \cup p)
      BY <2>4, <2>9, BothGive
    <2>11. Gives((((x \cup d) \cup u) \cup p) \cup q, y, (((z \cup d) \cup u) \cup p) \cup q)
      BY <2>4, <2>10, BothGive
    <2>12. Gives(((((x \cup d) \cup u) \cup p) \cup q) \cup o, y, ((((z \cup d) \cup u) \cup p) \cup q) \cup o)
      BY <2>5, <2>11, BothGive
    <2>13. /\ BaseItems(args, Y2K) = ((((x \cup d) \cup u) \cup p) \cup q) \cup o
           /\ BaseItems(args, y) = ((((z \cup d) \cup u) \cup p) \cup q) \cup o
      BY DEF BaseItems, x, z, d, u, p, q, o, base
    <2>14. Gives(BaseItems(args, Y2K), y, BaseItems(args, y))
      BY <2>12, <2>13
    <2>15. Gives(BaseItems(args, Y2K) \cup {ManifestSource}, y, BaseItems(args, y) \cup {ManifestSource})
      BY <1>1, <2>14, BothGive
    <2> QED
      BY <1>5, <2>15, BaseBrought DEF Gives
  <1> QED
    BY <1>3, <1>4, <1>5

OneOrNone(M, a, r, tree, items, steps) ==
  /\ r \in Int /\ items \subseteq M
  /\ \/ items = {} /\ steps = << >>
     \/ items = {From(r, tree)} /\ steps = <<LayerOf(a, From(r, tree))>>

LEMMA SomePart ==
  ASSUME NEW M, NEW a, NEW r, NEW tree, NEW items, NEW steps, OneOrNone(M, a, r, tree, items, steps)
  PROVE  \E t : Part(M, a, r, t, r, items, steps)
  <1>1. CASE items = {} /\ steps = << >>
    <2>1. Part(M, a, r, << >>, r, {}, << >>)
      BY NoPart DEF OneOrNone
    <2> QED
      BY <1>1, <2>1
  <1>2. CASE items = {From(r, tree)} /\ steps = <<LayerOf(a, From(r, tree))>>
    <2>1. From(r, tree) \in M /\ r \in Int
      BY <1>2 DEF OneOrNone
    <2>2. Part(M, a, r, <<From(r, tree)>>, r, {From(r, tree)}, <<LayerOf(a, From(r, tree))>>)
      BY <2>1, OnePart
    <2> QED
      BY <1>2, <2>2
  <1> QED
    BY <1>1, <1>2 DEF OneOrNone

LEMMA PatchesPart ==
  ASSUME NEW a \in CommandLines, NEW M, PatchItems(a) \subseteq M
  PROVE  \E t : Part(M, a, 3, t, 3, PatchItems(a), [i \in 1..Len(a.patches) |-> Iso(a.patches[i], TRUE)])
  <1> DEFINE n == Len(a.patches)  s(i) == [rank |-> 3, nth |-> i, tree |-> a.patches[i]]
  <1>0. 3 \in Int \ {4}
    OBVIOUS
  <1>1. n \in Nat
    BY RebuildAssumption
  <1>2. \A i \in 1..n : Nth(3, a.patches)[i] \in M
    BY DEF Nth, PatchItems
  <1>3. \A i \in 1..n : LayerOf(a, s(i)) = Iso(a.patches[i], TRUE)
    BY DEF LayerOf
  <1>4. [i \in 1..n |-> LayerOf(a, s(i))] = [i \in 1..n |-> Iso(a.patches[i], TRUE)]
    BY <1>3
  <1>5. Part(M, a, 3, Nth(3, a.patches), 3, {[rank |-> 3, nth |-> i, tree |-> a.patches[i]] : i \in 1..n},
             [i \in 1..n |-> LayerOf(a, s(i))])
    BY <1>0, <1>1, <1>2, ManyParts
  <1> QED
    BY <1>4, <1>5 DEF PatchItems

LEMMA OverlaysPart ==
  ASSUME NEW a \in CommandLines, NEW M, OverlayItems(a) \subseteq M
  PROVE  \E t : Part(M, a, 9, t, 9, OverlayItems(a), [i \in 1..Len(a.overlays) |-> Layer(a.overlays[i])])
  <1> DEFINE n == Len(a.overlays)  s(i) == [rank |-> 9, nth |-> i, tree |-> a.overlays[i]]
  <1>0. 9 \in Int \ {4}
    OBVIOUS
  <1>1. n \in Nat
    BY RebuildAssumption
  <1>2. \A i \in 1..n : Nth(9, a.overlays)[i] \in M
    BY DEF Nth, OverlayItems
  <1>3. \A i \in 1..n : LayerOf(a, s(i)) = Layer(a.overlays[i])
    BY DEF LayerOf
  <1>4. [i \in 1..n |-> LayerOf(a, s(i))] = [i \in 1..n |-> Layer(a.overlays[i])]
    BY <1>3
  <1>5. Part(M, a, 9, Nth(9, a.overlays), 9, {[rank |-> 9, nth |-> i, tree |-> a.overlays[i]] : i \in 1..n},
             [i \in 1..n |-> LayerOf(a, s(i))])
    BY <1>0, <1>1, <1>2, ManyParts
  <1> QED
    BY <1>4, <1>5 DEF OverlayItems

Ordered(M, a, items, steps) == \E t : Part(M, a, 0, t, 9, items, steps)

LEMMA IsosAscend ==
  ASSUME NEW a \in CommandLines, NEW M, IsoItems(a, Y2K) \subseteq M
  PROVE  \E t : Part(M, a, 3, t, 4, IsoItems(a, Y2K), Isos(a))
  <1> DEFINE I == PatchItems(a)  J == Y2KItems(a, Y2K)
             K == [i \in 1..Len(a.patches) |-> Iso(a.patches[i], TRUE)]
             L == IF a.skip THEN << >> ELSE <<Iso(Y2K, cache = "whole")>>
  <1>0. I \subseteq M /\ J \subseteq M
    BY DEF IsoItems
  <1>1. PICK s : Part(M, a, 3, s, 3, I, K)
    BY <1>0, PatchesPart
  <1>2. \E t : Part(M, a, 4, t, 4, J, L)
    <2>1. LayerOf(a, From(4, Y2K)) = Iso(Y2K, cache = "whole")
      BY DEF LayerOf, From
    <2>2. J = IF a.skip THEN {} ELSE {From(4, Y2K)}
      BY DEF Y2KItems
    <2>3. L = IF a.skip THEN << >> ELSE <<LayerOf(a, From(4, Y2K))>>
      BY <2>1
    <2> HIDE DEF J, L
    <2>4. OneOrNone(M, a, 4, Y2K, J, L)
      BY <1>0, <2>2, <2>3 DEF OneOrNone
    <2> QED
      BY <2>4, SomePart
  <1>3. PICK t : Part(M, a, 4, t, 4, J, L)
    BY <1>2
  <1>4. IsoItems(a, Y2K) = I \cup J /\ Isos(a) = K \o L
    BY DEF IsoItems, Isos
  <1>5. Ranks(3, 3, 4, 4)
    BY DEF Ranks
  <1> HIDE DEF I, J, K, L
  <1>6. Part(M, a, 3, s \o t, 4, I \cup J, K \o L)
    BY <1>1, <1>3, <1>5, PartsJoin
  <1> QED
    BY <1>4, <1>6

LEMMA Widens ==
  ASSUME NEW M, NEW a, NEW t, NEW h \in Int, NEW items, NEW steps, Part(M, a, 0, t, h, items, steps), h <= 9
  PROVE  Ordered(M, a, items, steps)
  <1>1. Between(0, t, 9)
    BY DEF Part, Run, Between, IsSource
  <1>2. Part(M, a, 0, t, 9, items, steps)
    BY <1>1 DEF Part, Run
  <1> QED
    BY <1>2 DEF Ordered

LEMMA TestAscends ==
  ASSUME NEW M, TestItems \subseteq M
  PROVE  Ordered(M, args, TestItems, TestLayers)
  <1> DEFINE s == <<BootSource>>  t == <<ReadmeSource>>
             K == <<Layer(Boot)>>  L == <<Layer(File("README.TXT", Written("readme")))>>
  <1>0. BootSource \in M /\ ReadmeSource \in M
    BY DEF TestItems
  <1>1. Part(M, args, 1, s, 1, {BootSource}, K)
    <2>1. LayerOf(args, BootSource) = Layer(Boot)
      BY DEF LayerOf, BootSource, From
    <2>2. Part(M, args, 1, <<BootSource>>, 1, {BootSource}, <<LayerOf(args, BootSource)>>)
      BY <1>0, OnePart DEF BootSource
    <2> QED
      BY <2>1, <2>2
  <1>2. Part(M, args, 2, t, 2, {ReadmeSource}, L)
    <2>1. LayerOf(args, ReadmeSource) = Layer(File("README.TXT", Written("readme")))
      BY DEF LayerOf, ReadmeSource, From
    <2>2. Part(M, args, 2, <<ReadmeSource>>, 2, {ReadmeSource}, <<LayerOf(args, ReadmeSource)>>)
      BY <1>0, OnePart DEF ReadmeSource
    <2> QED
      BY <2>1, <2>2
  <1>3. Part(M, args, 0, << >>, 0, {}, << >>)
    BY NoPart
  <1>4. Ranks(0, 0, 1, 1) /\ Ranks(0, 1, 2, 2)
    BY DEF Ranks
  <1>5. TestLayers = K \o L
    BY DEF TestLayers
  <1> HIDE DEF s, t, K, L
  <1>6. Part(M, args, 0, << >> \o s, 1, {} \cup {BootSource}, << >> \o K)
    BY <1>1, <1>3, <1>4, PartsJoin
  <1>7. Part(M, args, 0, (<< >> \o s) \o t, 2, ({} \cup {BootSource}) \cup {ReadmeSource}, (<< >> \o K) \o L)
    BY <1>2, <1>4, <1>6, PartsJoin
  <1>8. ({} \cup {BootSource}) \cup {ReadmeSource} = TestItems /\ << >> \o K = K
    BY DEF TestItems, K
  <1>9. Part(M, args, 0, (<< >> \o s) \o t, 2, TestItems, TestLayers)
    BY <1>5, <1>7, <1>8
  <1> QED
    BY <1>9, Widens

LEMMA RawAscends ==
  ASSUME NEW M, args \in CommandLines, RawItems(args, Y2K) \subseteq M
  PROVE  Ordered(M, args, RawItems(args, Y2K), RawLayers(args, args.raw.behind[args.porch]))
  <1> DEFINE f == UfsSource(args, args.raw.behind[args.porch])
             s == <<BootSource>>  t == <<f>>
             K == <<Layer(Boot)>>  L == <<Layer(File(args.ufs, Written(args.raw.behind[args.porch])))>>
  <1>0. BootSource \in M /\ f \in M /\ IsoItems(args, Y2K) \subseteq M
    BY DEF RawItems
  <1>1. Part(M, args, 1, s, 1, {BootSource}, K)
    <2>1. LayerOf(args, BootSource) = Layer(Boot)
      BY DEF LayerOf, BootSource, From
    <2>2. Part(M, args, 1, <<BootSource>>, 1, {BootSource}, <<LayerOf(args, BootSource)>>)
      BY <1>0, OnePart DEF BootSource
    <2> QED
      BY <2>1, <2>2
  <1>2. Part(M, args, 2, t, 2, {f}, L)
    <2>1. LayerOf(args, f) = Layer(File(args.ufs, Written(args.raw.behind[args.porch])))
      BY DEF LayerOf, UfsSource, From
    <2>2. Part(M, args, 2, <<f>>, 2, {f}, <<LayerOf(args, f)>>)
      BY <1>0, OnePart DEF UfsSource
    <2> HIDE DEF f
    <2> QED
      BY <2>1, <2>2
  <1>3. PICK u : Part(M, args, 3, u, 4, IsoItems(args, Y2K), Isos(args))
    BY <1>0, IsosAscend
  <1>4. Ranks(0, 0, 1, 1) /\ Ranks(0, 1, 2, 2) /\ Ranks(0, 2, 3, 4)
    BY DEF Ranks
  <1>5. RawLayers(args, args.raw.behind[args.porch]) = (K \o L) \o Isos(args)
    BY DEF RawLayers
  <1>6. Part(M, args, 0, << >>, 0, {}, << >>)
    BY NoPart
  <1>7. << >> \o K = K
    OBVIOUS
  <1>8. RawItems(args, Y2K) = (({} \cup {BootSource}) \cup {f}) \cup IsoItems(args, Y2K)
    BY DEF RawItems
  <1> HIDE DEF f, s, t, K, L
  <1>9. Part(M, args, 0, << >> \o s, 1, {} \cup {BootSource}, << >> \o K)
    BY <1>1, <1>4, <1>6, PartsJoin
  <1>10. Part(M, args, 0, (<< >> \o s) \o t, 2, ({} \cup {BootSource}) \cup {f}, (<< >> \o K) \o L)
    BY <1>2, <1>4, <1>9, PartsJoin
  <1>11. Part(M, args, 0, ((<< >> \o s) \o t) \o u, 4, (({} \cup {BootSource}) \cup {f}) \cup IsoItems(args, Y2K),
              ((<< >> \o K) \o L) \o Isos(args))
    BY <1>3, <1>4, <1>10, PartsJoin
  <1>12. Part(M, args, 0, ((<< >> \o s) \o t) \o u, 4, RawItems(args, Y2K),
              RawLayers(args, args.raw.behind[args.porch]))
    BY <1>5, <1>7, <1>8, <1>11
  <1> QED
    BY <1>12, Widens

LEMMA BaseAscends ==
  ASSUME NEW M, args \in CommandLines, BaseItems(args, Y2K) \subseteq M
  PROVE  Ordered(M, args, BaseItems(args, Y2K), BaseLayers(args))
  <1> DEFINE base == From(0, args.base)  placed == Placed(args.drivers, "drivers", "floppies")
             driverLayer == IF args.drivers = << >> THEN << >> ELSE <<Layer(placed)>>
             userLayer == IF args.user = None THEN << >> ELSE <<Layer(merge_named_payload(args.user))>>
             overLayers == [i \in 1..Len(args.overlays) |-> Layer(args.overlays[i])]
             d == DriverItems(args)  v == UserItems(args)  o == OverlayItems(args)
             p == FolderItems(7, args.patch)  q == FolderItems(8, args.driver)
             I == IsoItems(args, Y2K)  P == RootLayer(args.patch)  Q == RootLayer(args.driver)
             F == <<Iso(args.base, TRUE)>>  B == <<Layer(Boot)>>
  <1>0. /\ base \in M /\ BootSource \in M /\ I \subseteq M /\ d \subseteq M /\ v \subseteq M
        /\ p \subseteq M /\ q \subseteq M /\ o \subseteq M
    BY DEF BaseItems
  <1>1. Part(M, args, 0, <<base>>, 0, {base}, F)
    <2>1. LayerOf(args, base) = Iso(args.base, TRUE)
      BY DEF LayerOf, From
    <2>2. Part(M, args, 0, <<base>>, 0, {base}, <<LayerOf(args, base)>>)
      BY <1>0, OnePart
    <2> HIDE DEF base
    <2> QED
      BY <2>1, <2>2
  <1>2. Part(M, args, 1, <<BootSource>>, 1, {BootSource}, B)
    <2>1. LayerOf(args, BootSource) = Layer(Boot)
      BY DEF LayerOf, BootSource, From
    <2>2. Part(M, args, 1, <<BootSource>>, 1, {BootSource}, <<LayerOf(args, BootSource)>>)
      BY <1>0, OnePart DEF BootSource
    <2> QED
      BY <2>1, <2>2
  <1>3. PICK t2 : Part(M, args, 3, t2, 4, I, Isos(args))
    BY <1>0, IsosAscend
  <1>4. \E t : Part(M, args, 5, t, 5, d, driverLayer)
    <2>1. LayerOf(args, From(5, placed)) = Layer(placed)
      BY DEF LayerOf, From
    <2>2. d = IF args.drivers = << >> THEN {} ELSE {From(5, placed)}
      BY DEF DriverItems
    <2>3. driverLayer = IF args.drivers = << >> THEN << >> ELSE <<LayerOf(args, From(5, placed))>>
      BY <2>1
    <2> HIDE DEF d, driverLayer, placed
    <2>4. OneOrNone(M, args, 5, placed, d, driverLayer)
      BY <1>0, <2>2, <2>3 DEF OneOrNone
    <2> QED
      BY <2>4, SomePart
  <1>5. \E t : Part(M, args, 6, t, 6, v, userLayer)
    <2> DEFINE x == merge_named_payload(args.user)
    <2>1. LayerOf(args, From(6, x)) = Layer(x)
      BY DEF LayerOf, From
    <2>2. v = IF args.user = None THEN {} ELSE {From(6, x)}
      BY DEF UserItems
    <2>3. userLayer = IF args.user = None THEN << >> ELSE <<LayerOf(args, From(6, x))>>
      BY <2>1
    <2> HIDE DEF v, userLayer, x
    <2>4. OneOrNone(M, args, 6, x, v, userLayer)
      BY <1>0, <2>2, <2>3 DEF OneOrNone
    <2> QED
      BY <2>4, SomePart
  <1>6. \E t : Part(M, args, 7, t, 7, p, P)
    <2>1. LayerOf(args, From(7, args.patch.tree)) = IF args.patch.root THEN Layer(args.patch.tree) ELSE [kind |-> "missing"]
      BY DEF LayerOf, From
    <2>2. p = IF args.patch = None THEN {} ELSE {From(7, args.patch.tree)}
      BY DEF FolderItems
    <2>3. P = IF args.patch = None THEN << >> ELSE <<LayerOf(args, From(7, args.patch.tree))>>
      BY <2>1 DEF RootLayer
    <2> HIDE DEF p, P
    <2>4. OneOrNone(M, args, 7, args.patch.tree, p, P)
      BY <1>0, <2>2, <2>3 DEF OneOrNone
    <2> QED
      BY <2>4, SomePart
  <1>7. \E t : Part(M, args, 8, t, 8, q, Q)
    <2>1. LayerOf(args, From(8, args.driver.tree)) = IF args.driver.root THEN Layer(args.driver.tree) ELSE [kind |-> "missing"]
      BY DEF LayerOf, From
    <2>2. q = IF args.driver = None THEN {} ELSE {From(8, args.driver.tree)}
      BY DEF FolderItems
    <2>3. Q = IF args.driver = None THEN << >> ELSE <<LayerOf(args, From(8, args.driver.tree))>>
      BY <2>1 DEF RootLayer
    <2> HIDE DEF q, Q
    <2>4. OneOrNone(M, args, 8, args.driver.tree, q, Q)
      BY <1>0, <2>2, <2>3 DEF OneOrNone
    <2> QED
      BY <2>4, SomePart
  <1>8. PICK t7 : Part(M, args, 9, t7, 9, o, overLayers)
    BY <1>0, OverlaysPart
  <1>9. PICK t3 : Part(M, args, 5, t3, 5, d, driverLayer)
    BY <1>4
  <1>10. PICK t4 : Part(M, args, 6, t4, 6, v, userLayer)
    BY <1>5
  <1>11. PICK t5 : Part(M, args, 7, t5, 7, p, P)
    BY <1>6
  <1>12. PICK t6 : Part(M, args, 8, t6, 8, q, Q)
    BY <1>7
  <1>13. /\ Ranks(0, 0, 1, 1) /\ Ranks(0, 1, 3, 4) /\ Ranks(0, 4, 5, 5) /\ Ranks(0, 5, 6, 6)
         /\ Ranks(0, 6, 7, 7) /\ Ranks(0, 7, 8, 8) /\ Ranks(0, 8, 9, 9)
    BY DEF Ranks
  <1>14. /\ BaseItems(args, Y2K) = ((((((({base} \cup {BootSource}) \cup I) \cup d) \cup v) \cup p) \cup q) \cup o)
         /\ BaseLayers(args) = (((((((F \o B) \o Isos(args)) \o driverLayer) \o userLayer) \o P) \o Q) \o overLayers)
    BY DEF BaseItems, BaseLayers
  <1> DEFINE t0 == <<base>>  t1 == <<BootSource>>
  <1>15. Part(M, args, 0, t0, 0, {base}, F) /\ Part(M, args, 1, t1, 1, {BootSource}, B)
    BY <1>1, <1>2
  <1> HIDE DEF base, placed, driverLayer, userLayer, overLayers, d, v, o, p, q, I, P, Q, F, B, t0, t1
  <1>16. Part(M, args, 0, t0 \o t1, 1, {base} \cup {BootSource}, F \o B)
    BY <1>13, <1>15, PartsJoin
  <1> DEFINE s2 == (t0 \o t1) \o t2  I2 == ({base} \cup {BootSource}) \cup I  K2 == (F \o B) \o Isos(args)
             s3 == s2 \o t3  I3 == I2 \cup d  K3 == K2 \o driverLayer
             s4 == s3 \o t4  I4 == I3 \cup v  K4 == K3 \o userLayer
             s5 == s4 \o t5  I5 == I4 \cup p  K5 == K4 \o P
             s6 == s5 \o t6  I6 == I5 \cup q  K6 == K5 \o Q
  <1>17. Part(M, args, 0, s2, 4, I2, K2)
    BY <1>3, <1>13, <1>16, PartsJoin
  <1>18. I6 \cup o = BaseItems(args, Y2K) /\ K6 \o overLayers = BaseLayers(args)
    BY <1>14
  <1> HIDE DEF s2, I2, K2
  <1>19. Part(M, args, 0, s3, 5, I3, K3)
    BY <1>9, <1>13, <1>17, PartsJoin
  <1> HIDE DEF s3, I3, K3
  <1>20. Part(M, args, 0, s4, 6, I4, K4)
    BY <1>10, <1>13, <1>19, PartsJoin
  <1> HIDE DEF s4, I4, K4
  <1>21. Part(M, args, 0, s5, 7, I5, K5)
    BY <1>11, <1>13, <1>20, PartsJoin
  <1> HIDE DEF s5, I5, K5
  <1>22. Part(M, args, 0, s6, 8, I6, K6)
    BY <1>12, <1>13, <1>21, PartsJoin
  <1> HIDE DEF s6, I6, K6
  <1>23. Part(M, args, 0, s6 \o t7, 9, I6 \cup o, K6 \o overLayers)
    BY <1>8, <1>13, <1>22, PartsJoin
  <1> QED
    BY <1>18, <1>23 DEF Ordered

(* A tree can be merged: no file is where a directory is or comes.         *)
Merges(T, tree) ==
  /\ Folders(T) \cap Files(tree) = {}
  /\ Landings(T, tree) \cap (Folders(tree) \cup Folders(T)) = {}

LEMMA NothingIsMade == MadeOf(<< >>, {})
  BY DEF MadeOf, Files, Folders

(* What is where in a tree that another one was merged into.               *)
LEMMA CopiedTree ==
  ASSUME NEW T, NEW tree, Merges(T, tree), DOMAIN tree = Files(tree) \cup Folders(tree)
  PROVE  LET new == copy_tree(T, tree)
         IN /\ Folders(new) = Folders(tree) \cup Folders(T)
            /\ Files(new) = Files(tree) \cup Landings(T, tree)
            /\ DOMAIN new = Files(new) \cup Folders(new)
            /\ \A x \in Landings(T, tree) : \E p \in Files(T) : Landed(p, tree) = x /\ new[x] = T[p]
            /\ \A x \in Files(tree) \ Landings(T, tree) : new[x] = tree[x]
  <1> DEFINE new == copy_tree(T, tree)  L == Landings(T, tree)
  <1>1. /\ DOMAIN new = DOMAIN tree \cup L \cup Folders(T)
        /\ \A p \in DOMAIN new :
             new[p] = IF p \in Folders(T) THEN Directory
                      ELSE IF p \in L THEN T[CHOOSE q \in Files(T) : Landed(q, tree) = p]
                      ELSE tree[p]
    BY DEF copy_tree
  <1>2. /\ Folders(T) \cap Files(tree) = {} /\ L \cap Folders(tree) = {} /\ L \cap Folders(T) = {}
    BY DEF Merges
  <1>3. ASSUME NEW x \in L PROVE \E p \in Files(T) : Landed(p, tree) = x /\ new[x] = T[p]
    <2>1. \E q \in Files(T) : Landed(q, tree) = x
      BY DEF Landings
    <2> QED
      BY <1>1, <1>2, <2>1
  <1>4. \A p \in Folders(T) : new[p].kind = "folder"
    BY <1>1 DEF Directory
  <1>5. \A p \in L : new[p].kind = "file"
    BY <1>3 DEF Files
  <1>6. \A p \in DOMAIN tree \ (L \cup Folders(T)) : new[p] = tree[p]
    BY <1>1
  <1>7. DOMAIN tree = Files(tree) \cup Folders(tree)
    OBVIOUS
  <1> HIDE DEF new, L
  <1>8. \A p \in Files(tree) : p \in DOMAIN tree /\ tree[p].kind = "file"
    BY DEF Files
  <1>9. \A p \in Folders(tree) : p \in DOMAIN tree /\ tree[p].kind = "folder"
    BY DEF Folders
  <1>10. \A p \in DOMAIN new : \/ p \in Files(tree) \cup L /\ new[p].kind = "file"
                               \/ p \in Folders(tree) \cup Folders(T) /\ new[p].kind = "folder"
    BY <1>1, <1>2, <1>4, <1>5, <1>6, <1>7, <1>8, <1>9
  <1>11. \A p \in Files(tree) \cup L : p \in DOMAIN new /\ new[p].kind = "file"
    BY <1>1, <1>2, <1>5, <1>6, <1>8
  <1>12. \A p \in Folders(tree) \cup Folders(T) : p \in DOMAIN new /\ new[p].kind = "folder"
    BY <1>1, <1>2, <1>4, <1>6, <1>9
  <1>13. Folders(new) = Folders(tree) \cup Folders(T)
    BY <1>10, <1>11, <1>12 DEF Folders
  <1>14. Files(new) = Files(tree) \cup L
    BY <1>10, <1>11, <1>12 DEF Files
  <1>15. DOMAIN new = Files(new) \cup Folders(new)
    BY <1>10, <1>11, <1>12, <1>13, <1>14
  <1>16. \A x \in Files(tree) \ L : new[x] = tree[x]
    BY <1>2, <1>6, <1>8
  <1> QED
    BY <1>3, <1>13, <1>14, <1>15, <1>16 DEF new, L

(* A source goes over those before it.                                     *)
LEMMA LayerGoesOver ==
  ASSUME NEW S, NEW r, NEW tree, MadeOf(tree, S), Merges(r.tree, tree), IsSource(r),
         \A x \in S : IsSource(x) /\ Over(r, x)
  PROVE  MadeOf(copy_tree(r.tree, tree), S \cup {r})
  <1> DEFINE T == r.tree  new == copy_tree(T, tree)  R == S \cup {r}  L == Landings(T, tree)
  <1>1. /\ DOMAIN tree = Files(tree) \cup Folders(tree)
        /\ Folders(tree) = UNION {Folders(s.tree) : s \in S}
        /\ \A s \in S : \A p \in Files(s.tree) : Lands(s, p, S) \in Files(tree)
        /\ \A x \in Files(tree) : \E s \in S : \E p \in Files(s.tree) :
             /\ Lands(s, p, S) = x /\ tree[x] = s.tree[p]
             /\ \A t \in S : Over(t, s) => \A q \in Files(t.tree) : Lands(t, q, S) # x
    BY DEF MadeOf
  <1>2. /\ Folders(new) = Folders(tree) \cup Folders(T)
        /\ Files(new) = Files(tree) \cup L
        /\ DOMAIN new = Files(new) \cup Folders(new)
        /\ \A x \in L : \E p \in Files(T) : Landed(p, tree) = x /\ new[x] = T[p]
        /\ \A x \in Files(tree) \ L : new[x] = tree[x]
    BY <1>1, CopiedTree
  <1>3. ~Over(r, r) /\ \A x \in S : ~Over(x, r)
    BY DEF Over, IsSource
  <1>4. ASSUME NEW s \in S, NEW p PROVE Lands(s, p, R) = Lands(s, p, S)
    BY <1>3 DEF Lands
  <1>5. ASSUME NEW p PROVE Lands(r, p, R) = Landed(p, tree)
    <2>1. (\E t \in R : Over(r, t) /\ p \in Folders(t.tree)) <=> p \in Folders(tree)
      BY <1>1, <1>3
    <2> QED
      BY <2>1 DEF Lands, Landed
  <1>6. L = {Landed(p, tree) : p \in Files(T)}
    BY DEF Landings
  <1> HIDE DEF new, L, R
  <1>7. \A s \in R : s \in S \/ s = r
    BY DEF R
  <1>8. r \in R /\ S \subseteq R
    BY DEF R
  <1>9. Folders(new) = UNION {Folders(s.tree) : s \in R}
    BY <1>1, <1>2, <1>7, <1>8
  <1>10. \A s \in R : \A p \in Files(s.tree) : Lands(s, p, R) \in Files(new)
    <2>1. \A p \in Files(T) : Lands(r, p, R) \in Files(new)
      BY <1>2, <1>5, <1>6
    <2>2. \A s \in S : \A p \in Files(s.tree) : Lands(s, p, R) \in Files(new)
      BY <1>1, <1>2, <1>4
    <2> QED
      BY <1>7, <2>1, <2>2
  <1>11. ASSUME NEW x \in Files(new)
         PROVE  \E s \in R : \E p \in Files(s.tree) :
                  /\ Lands(s, p, R) = x /\ new[x] = s.tree[p]
                  /\ \A t \in R : Over(t, s) => \A q \in Files(t.tree) : Lands(t, q, R) # x
    <2>1. CASE x \in L
      <3>1. PICK p \in Files(T) : Landed(p, tree) = x /\ new[x] = T[p]
        BY <1>2, <2>1
      <3>2. Lands(r, p, R) = x
        BY <1>5, <3>1
      <3>3. \A t \in R : ~Over(t, r)
        BY <1>3, <1>7
      <3> QED
        BY <1>8, <3>1, <3>2, <3>3
    <2>2. CASE x \in Files(tree) \ L
      <3>1. PICK s \in S : \E p \in Files(s.tree) :
                /\ Lands(s, p, S) = x /\ tree[x] = s.tree[p]
                /\ \A t \in S : Over(t, s) => \A q \in Files(t.tree) : Lands(t, q, S) # x
        BY <1>1, <2>2
      <3>2. PICK p \in Files(s.tree) :
                /\ Lands(s, p, S) = x /\ tree[x] = s.tree[p]
                /\ \A t \in S : Over(t, s) => \A q \in Files(t.tree) : Lands(t, q, S) # x
        BY <3>1
      <3>3. Lands(s, p, R) = x /\ new[x] = s.tree[p]
        BY <1>2, <1>4, <2>2, <3>2
      <3>4. ASSUME NEW t \in R, Over(t, s), NEW q \in Files(t.tree) PROVE Lands(t, q, R) # x
        <4>1. CASE t \in S
          BY <1>4, <3>2, <3>4, <4>1
        <4>2. CASE t = r
          <5>1. Landed(q, tree) \in L
            BY <1>6, <3>4, <4>2
          <5> QED
            BY <1>5, <2>2, <4>2, <5>1
        <4> QED
          BY <1>7, <4>1, <4>2
      <3> QED
        BY <1>8, <3>3, <3>4
    <2> QED
      BY <1>2, <2>1, <2>2
  <1> QED
    BY <1>2, <1>9, <1>10, <1>11 DEF MadeOf, new, R

Had(y) == /\ \E part \in SUBSET DOMAIN Y2K : y = [p \in part |-> Y2K[p]]
          /\ cache = "whole" => y = Y2K

Closing(a) == IF a.test THEN {} ELSE {ManifestSource}

(* While layers are merged: E are the sources merged so far, t those to    *)
(* come, in order, and y is what could be had of the Y2K image.            *)
Merging(M, a, y, t, E, tree, to) ==
  /\ Run(M, a, 0, t, 9) /\ to = LayersOf(a, t)
  /\ MadeOf(tree, Actuals(E, y))
  /\ E \cup Items(t) \cup Closing(a) = M
  /\ \A e \in E : IsSource(e) /\ e.rank <= 9 /\ \A i \in 1..Len(t) : Over(t[i], e)

MadeInv ==
  /\ step = "merge" => \E y, t, E : Had(y) /\ Merging(Brought(args, Y2K), args, y, t, E, stage, layers)
  /\ step = "build" => \E y : Had(y) /\ MadeOf(stage, Brought(args, y))
  /\ step \in {"find", "label", "validate"} \/ status = "ok" =>
       \E y : Had(y) /\ MadeOf(output.tree, Brought(args, y))

LEMMA MergingStarts ==
  ASSUME NEW M, NEW a, NEW items, NEW steps, Ordered(M, a, items, steps), items \cup Closing(a) = M, NEW y
  PROVE  \E t, E : Merging(M, a, y, t, E, << >>, steps)
  <1>1. PICK t : Part(M, a, 0, t, 9, items, steps)
    BY DEF Ordered
  <1>2. MadeOf(<< >>, Actuals({}, y))
    <2>1. Actuals({}, y) = {}
      BY DEF Actuals
    <2> QED
      BY <2>1, NothingIsMade
  <1>3. Merging(M, a, y, t, {}, << >>, steps)
    BY <1>1, <1>2 DEF Part, Merging
  <1> QED
    BY <1>3

(* A merge changes what could be had of the Y2K image from the guess it    *)
(* was to what was extracted, and only when it is that image's turn.       *)
Took(E, s, y, z) ==
  /\ Actuals(E \cup {s}, z) = Actuals(E, y) \cup {Actual(s, z)}
  /\ IsSource(Actual(s, z))
  /\ \A x \in Actuals(E, y) : IsSource(x) /\ Over(Actual(s, z), x)

LEMMA MergedIsActual ==
  ASSUME NEW E, NEW s, IsSource(s), \A e \in E : IsSource(e) /\ Over(s, e),
         NEW y, NEW z, z = y \/ s.rank = 4
  PROVE  Took(E, s, y, z)
  <1>1. s.rank = 4 => \A e \in E : e.rank # 4
    BY DEF IsSource, Over
  <1>2. \A e \in E : Actual(e, z) = Actual(e, y)
    BY <1>1 DEF Actual
  <1>3. Actuals(E, z) = Actuals(E, y)
    BY <1>2 DEF Actuals
  <1>4. Actuals(E \cup {s}, z) = Actuals(E, z) \cup {Actual(s, z)}
    BY DEF Actuals
  <1>5. ASSUME NEW x, IsSource(x), NEW w
        PROVE  IsSource(Actual(x, w)) /\ Actual(x, w).rank = x.rank /\ Actual(x, w).nth = x.nth
    <2>1. CASE x.rank = 4
      <3>1. Actual(x, w) = [rank |-> 4, nth |-> 0, tree |-> w] /\ x.nth = 0
        BY <1>5, <2>1 DEF Actual, From, IsSource
      <3> QED
        BY <2>1, <3>1 DEF IsSource
    <2>2. CASE x.rank # 4
      BY <1>5, <2>2 DEF Actual
    <2> QED
      BY <2>1, <2>2
  <1>6. IsSource(Actual(s, z)) /\ Actual(s, z).rank = s.rank /\ Actual(s, z).nth = s.nth
    <2> QED
      BY <1>5
  <1>7. ASSUME NEW x \in Actuals(E, y) PROVE IsSource(x) /\ Over(Actual(s, z), x)
    <2>1. PICK e \in E : x = Actual(e, y)
      BY DEF Actuals
    <2>2. IsSource(x) /\ x.rank = e.rank /\ x.nth = e.nth
      BY <1>5, <2>1
    <2>3. Over(s, e)
      OBVIOUS
    <2> QED
      BY <1>6, <2>2, <2>3 DEF Over
  <1> QED
    BY <1>3, <1>4, <1>6, <1>7 DEF Took

LEMMA ExtractedIsActual ==
  ASSUME NEW s, NEW y, Had(y), NEW T \in Extracted(LayerOf(args, s))
  PROVE  LET z == IF s.rank = 4 THEN T ELSE y
         IN Had(z) /\ Actual(s, z).tree = T
  <1>1. CASE s.rank \in {0, 3}
    <2>1. T = s.tree
      BY <1>1 DEF LayerOf, Extracted, Iso
    <2> QED
      BY <1>1, <2>1 DEF Actual
  <1>2. CASE s.rank = 4
    <2>1. LayerOf(args, s) = Iso(Y2K, cache = "whole")
      BY <1>2 DEF LayerOf
    <2>2. CASE cache = "whole"
      <3>1. T = Y2K
        <4>1. LayerOf(args, s) = Iso(Y2K, TRUE)
          BY <2>1, <2>2
        <4> QED
          BY <4>1 DEF Extracted, Iso
      <3>2. DOMAIN Y2K \in SUBSET DOMAIN Y2K /\ Y2K = [p \in DOMAIN Y2K |-> Y2K[p]]
        BY RebuildAssumption
      <3>3. Had(T)
        BY <3>1, <3>2 DEF Had
      <3> QED
        BY <1>2, <3>3 DEF Actual, From
    <2>3. CASE cache # "whole"
      <3>1. \E part \in SUBSET DOMAIN Y2K : T = [p \in part |-> Y2K[p]]
        <4>1. LayerOf(args, s) = Iso(Y2K, FALSE)
          BY <2>1, <2>3
        <4>2. \A x \in Extracted(Iso(Y2K, FALSE)) : \E part \in SUBSET DOMAIN Y2K : x = [p \in part |-> Y2K[p]]
          BY DEF Extracted, Iso
        <4> QED
          BY <4>1, <4>2
      <3>2. Had(T)
        BY <2>3, <3>1 DEF Had
      <3> QED
        BY <1>2, <3>2 DEF Actual, From
    <2> QED
      BY <2>2, <2>3
  <1>3. CASE s.rank \notin {0, 3, 4}
    <2>1. T = s.tree
      BY <1>3 DEF LayerOf, Extracted, Layer
    <2> QED
      BY <1>3, <2>1 DEF Actual
  <1> QED
    BY <1>1, <1>2, <1>3

(* One layer more.                                                         *)
LEMMA MergingGoesOn ==
  ASSUME NEW M, NEW y, NEW t, NEW E, NEW tree, NEW to, Merging(M, args, y, t, E, tree, to), to # << >>, Had(y),
         NEW T \in Extracted(Head(to)), ~Raises(T, tree)
  PROVE  \E z : Had(z) /\ Merging(M, args, z, Tail(t), E \cup {t[1]}, copy_tree(T, tree), Tail(to))
  <1> DEFINE n == Len(t)  u == Tail(t)  s == t[1]  z == IF s.rank = 4 THEN T ELSE y
             r == Actual(s, z)
  <1>1. t \in Seq(M) /\ n \in Nat /\ n # 0
    <2>1. t \in Seq(M)
      BY DEF Merging, Run
    <2>2. n = 0 => to = << >>
      BY DEF Merging, LayersOf
    <2> QED
      BY <2>1, <2>2
  <1>2. u \in Seq(M) /\ Len(u) = n - 1 /\ \A i \in 1..(n - 1) : u[i] = t[i + 1]
    BY <1>1
  <1>3. 1 \in 1..n /\ \A i \in 1..(n - 1) : i + 1 \in 1..n /\ 1 < i + 1
    BY <1>1
  <1>4. \A i \in 1..n : IsSource(t[i]) /\ 0 <= t[i].rank /\ t[i].rank <= 9
    BY DEF Merging, Run, Between
  <1>5. \A i, j \in 1..n : i < j => Over(t[j], t[i])
    BY DEF Merging, Run, Ascends
  <1>6. \A e \in E : IsSource(e) /\ e.rank <= 9 /\ \A i \in 1..n : Over(t[i], e)
    BY DEF Merging
  <1>7. to = [i \in 1..n |-> LayerOf(args, t[i])]
    BY DEF Merging, LayersOf
  <1>8. Head(to) = LayerOf(args, s)
    BY <1>1, <1>7
  <1>9. Had(z) /\ r.tree = T
    BY <1>8, ExtractedIsActual
  <1>10. IsSource(s) /\ \A e \in E : IsSource(e) /\ Over(s, e)
    BY <1>3, <1>4, <1>6
  <1>11. Took(E, s, y, z)
    <2>1. z = y \/ s.rank = 4
      OBVIOUS
    <2> HIDE DEF s, z
    <2> QED
      BY <1>10, <2>1, MergedIsActual
  <1> HIDE DEF n, u, z, r, s
  <1>12. Run(M, args, 0, u, 9)
    <2>1. Ascends(u)
      <3> SUFFICES ASSUME NEW i \in 1..(n - 1), NEW j \in 1..(n - 1), i < j PROVE Over(u[j], u[i])
        BY <1>2 DEF Ascends
      <3>1. i + 1 \in 1..n /\ j + 1 \in 1..n /\ i + 1 < j + 1
        BY <1>1, <1>3
      <3> QED
        BY <1>2, <1>5, <3>1
    <2>2. Between(0, u, 9)
      BY <1>2, <1>3, <1>4 DEF Between
    <2> QED
      BY <1>2, <2>1, <2>2 DEF Run
  <1>13. Tail(to) = LayersOf(args, u)
    <2>1. Tail(to) = [i \in 1..(n - 1) |-> LayerOf(args, t[i + 1])]
      BY <1>1, <1>7
    <2>2. LayersOf(args, u) = [i \in 1..(n - 1) |-> LayerOf(args, u[i])]
      BY <1>2 DEF LayersOf
    <2> QED
      BY <1>2, <2>1, <2>2
  <1>14. MadeOf(copy_tree(T, tree), Actuals(E \cup {s}, z))
    <2>1. MadeOf(tree, Actuals(E, y))
      BY DEF Merging
    <2>2. Merges(r.tree, tree)
      BY <1>9 DEF Raises, Merges
    <2>3. /\ Actuals(E \cup {s}, z) = Actuals(E, y) \cup {r}
          /\ IsSource(r) /\ \A x \in Actuals(E, y) : IsSource(x) /\ Over(r, x)
      BY <1>11 DEF Took, r
    <2>4. MadeOf(copy_tree(r.tree, tree), Actuals(E, y) \cup {r})
      BY <2>1, <2>2, <2>3, LayerGoesOver
    <2> QED
      BY <1>9, <2>3, <2>4
  <1>15. Items(t) = {s} \cup Items(u)
    <2>1. ASSUME NEW x \in Items(t) PROVE x \in {s} \cup Items(u)
      <3>1. PICK i \in 1..n : x = t[i]
        BY DEF Items, n
      <3>2. CASE i = 1
        BY <3>1, <3>2 DEF s
      <3>3. CASE i # 1
        <4>1. i - 1 \in 1..(n - 1) /\ (i - 1) + 1 = i
          BY <1>1, <3>3
        <4>2. u[i - 1] = x
          BY <1>2, <3>1, <4>1
        <4> QED
          BY <1>2, <4>1, <4>2 DEF Items
      <3> QED
        BY <3>2, <3>3
    <2>2. ASSUME NEW x \in Items(u) PROVE x \in Items(t)
      <3>1. PICK i \in 1..(n - 1) : x = u[i]
        BY <1>2, <2>2 DEF Items
      <3>2. i + 1 \in 1..n /\ x = t[i + 1]
        BY <1>2, <1>3, <3>1
      <3> QED
        BY <3>2 DEF Items, n
    <2>3. s \in Items(t)
      BY <1>3 DEF Items, n, s
    <2> QED
      BY <2>1, <2>2, <2>3
  <1>16. (E \cup {s}) \cup Items(u) \cup Closing(args) = M
    BY <1>15 DEF Merging
  <1>17. ASSUME NEW e \in E \cup {s}
         PROVE  IsSource(e) /\ e.rank <= 9 /\ \A i \in 1..Len(u) : Over(u[i], e)
    <2>1. CASE e \in E
      BY <1>2, <1>3, <1>6, <2>1
    <2>2. CASE e = s
      BY <1>2, <1>3, <1>4, <1>5, <2>2 DEF s
    <2> QED
      BY <2>1, <2>2
  <1>18. Merging(M, args, z, u, E \cup {s}, copy_tree(T, tree), Tail(to))
    BY <1>12, <1>13, <1>14, <1>16, <1>17 DEF Merging
  <1> QED
    BY <1>9, <1>18 DEF u, s

(* What the image is made of when nothing is left to merge.                *)
LEMMA MergingEnds ==
  ASSUME args \in CommandLines, NEW y, NEW t, NEW E, NEW tree,
         Merging(Brought(args, Y2K), args, y, t, E, tree, << >>)
  PROVE  /\ args.test => MadeOf(tree, Brought(args, y))
         /\ ~args.test /\ <<Manifest_>> \notin Folders(tree) =>
              MadeOf(copy_tree(File(Manifest_, Written("manifest")), tree), Brought(args, y))
  <1> DEFINE f == File(Manifest_, Written("manifest"))
  <1>1. Len(t) = 0
    <2>1. t \in Seq(Brought(args, Y2K))
      BY DEF Merging, Run
    <2>2. Len(LayersOf(args, t)) = Len(t)
      BY <2>1 DEF LayersOf
    <2> QED
      BY <2>2 DEF Merging
  <1>2. E \cup Closing(args) = Brought(args, Y2K)
    BY <1>1 DEF Merging, Items
  <1>3. Actuals(E \cup Closing(args), y) = Brought(args, y)
    BY <1>2, BroughtIsActual
  <1>4. MadeOf(tree, Actuals(E, y))
    BY DEF Merging
  <1>5. CASE args.test
    BY <1>3, <1>4, <1>5 DEF Closing
  <1>6. CASE ~args.test /\ <<Manifest_>> \notin Folders(tree)
    <2>1. IsSource(ManifestSource) /\ ManifestSource.rank = 10 /\ ManifestSource.tree = f
      BY DEF ManifestSource, From, IsSource
    <2>2. Folders(f) = {} /\ Files(f) = {<<Manifest_>>}
      BY DEF Folders, Files, File, Written
    <2> HIDE DEF f
    <2>3. Landings(f, tree) = {<<Manifest_>>}
      BY <1>6, <2>2 DEF Landings, Landed
    <2>4. Merges(f, tree)
      BY <1>6, <2>2, <2>3 DEF Merges
    <2>5. \A e \in E : IsSource(e) /\ e.rank <= 9
      BY DEF Merging
    <2>6. ASSUME NEW x \in Actuals(E, y) PROVE IsSource(x) /\ Over(ManifestSource, x)
      <3>1. PICK e \in E : x = Actual(e, y)
        BY DEF Actuals
      <3>2. IsSource(x) /\ x.rank <= 9
        <4>1. CASE e.rank = 4
          <5>1. x = [rank |-> 4, nth |-> 0, tree |-> y]
            BY <3>1, <4>1 DEF Actual, From
          <5> QED
            BY <5>1 DEF IsSource
        <4>2. CASE e.rank # 4
          BY <2>5, <3>1, <4>2 DEF Actual
        <4> QED
          BY <4>1, <4>2
      <3> QED
        BY <2>1, <3>2 DEF Over, IsSource
    <2>7. MadeOf(copy_tree(f, tree), Actuals(E, y) \cup {ManifestSource})
      BY <1>4, <2>1, <2>4, <2>6, LayerGoesOver
    <2>8. Actuals(E \cup {ManifestSource}, y) = Actuals(E, y) \cup {ManifestSource}
      <3>1. Gives({ManifestSource}, y, {ManifestSource})
        BY OneStays DEF ManifestSource
      <3>2. Gives(E, y, Actuals(E, y))
        BY DEF Gives
      <3>3. Gives(E \cup {ManifestSource}, y, Actuals(E, y) \cup {ManifestSource})
        BY <3>1, <3>2, BothGive
      <3> QED
        BY <3>3 DEF Gives
    <2>9. Closing(args) = {ManifestSource}
      BY <1>6 DEF Closing
    <2> QED
      BY <1>3, <1>6, <2>7, <2>8, <2>9 DEF f
  <1> HIDE DEF f
  <1> QED
    BY <1>5, <1>6 DEF f

LEMMA BeginMakes ==
  ASSUME UsableInv, MadeInv, begin_stage, stage = << >>
  PROVE  MadeInv'
  <1> DEFINE M == Brought(args, Y2K)
  <1>1. /\ args \in CommandLines /\ step = "stage" /\ status # "ok"
        /\ UNCHANGED <<args, image, cache, output, stage>>
    BY DEF begin_stage, UsableInv
  <1>2. ASSUME NEW y PROVE Brought(args, y)' = Brought(args, y)
    BY <1>1 DEF Brought, Boot
  <1>3. PICK y : Had(y)
    <2>1. Y2K = [p \in DOMAIN Y2K |-> Y2K[p]]
      BY RebuildAssumption
    <2> QED
      BY <2>1 DEF Had
  <1>4. ASSUME NEW items, NEW steps, Ordered(M, args, items, steps), items \cup Closing(args) = M,
               layers' = steps, step' = "merge", UNCHANGED status
        PROVE  MadeInv'
    <2>1. PICK t, E : Merging(M, args, y, t, E, << >>, steps)
      BY <1>4, MergingStarts
    <2>2. Merging(M, args, y, t, E, stage', layers')
      BY <1>1, <1>4, <2>1
    <2>3. Merging(Brought(args, Y2K), args, y, t, E, stage, layers)'
      BY <1>1, <1>2, <2>2 DEF Merging, LayersOf, LayerOf, Closing
    <2>4. Had(y)'
      BY <1>1, <1>3 DEF Had
    <2> QED
      BY <1>1, <1>4, <2>3, <2>4 DEF MadeInv
  <1>5. CASE args.test /\ layers' = TestLayers /\ step' = "merge" /\ UNCHANGED status
    <2>1. M = TestItems /\ TestItems \cup Closing(args) = M
      BY <1>1, <1>5, TestBrought DEF Closing
    <2> HIDE DEF M
    <2>2. Ordered(M, args, TestItems, TestLayers)
      BY <2>1, TestAscends
    <2> QED
      BY <1>4, <1>5, <2>1, <2>2
  <1>6. ASSUME NEW f \in extract_raw_cd_ufs(args.raw, args.porch), ~args.test, args.raw # None,
               layers' = RawLayers(args, f), step' = "merge", UNCHANGED status
        PROVE  MadeInv'
    <2>1. f = args.raw.behind[args.porch]
      BY DEF extract_raw_cd_ufs
    <2>2. RawItems(args, Y2K) \cup Closing(args) = M
      BY <1>1, <1>6, RawBrought DEF Closing
    <2> HIDE DEF M
    <2>3. Ordered(M, args, RawItems(args, Y2K), RawLayers(args, f))
      BY <1>1, <2>1, <2>2, RawAscends
    <2> QED
      BY <1>4, <1>6, <2>2, <2>3
  <1>7. CASE ~args.test /\ args.raw = None /\ layers' = BaseLayers(args) /\ step' = "merge" /\ UNCHANGED status
    <2>1. BaseItems(args, Y2K) \cup Closing(args) = M
      BY <1>1, <1>7, BaseBrought DEF Closing
    <2> HIDE DEF M
    <2>2. Ordered(M, args, BaseItems(args, Y2K), BaseLayers(args))
      BY <1>1, <2>1, BaseAscends
    <2> QED
      BY <1>4, <1>7, <2>1, <2>2
  <1>8. CASE step' = "idle" /\ status' \in {"error", "traceback"}
    BY <1>8 DEF MadeInv
  <1> HIDE DEF M
  <1> QED
    BY <1>5, <1>6, <1>7, <1>8 DEF begin_stage, ends

LEMMA MergeMakes ==
  ASSUME UsableInv, MadeInv, merge
  PROVE  MadeInv'
  <1> DEFINE M == Brought(args, Y2K)
  <1>1. /\ step = "merge" /\ layers # << >> /\ status # "ok"
        /\ UNCHANGED <<args, image, cache, output>>
    BY DEF merge, UsableInv
  <1>2. Brought(args, Y2K)' = Brought(args, Y2K)
    BY <1>1 DEF Brought, Boot
  <1>3. PICK y, t, E : Had(y) /\ Merging(M, args, y, t, E, stage, layers)
    BY <1>1 DEF MadeInv
  <1> HIDE DEF M
  <1>4. ASSUME NEW T \in Extracted(Head(layers)), ~Raises(T, stage),
               stage' = copy_tree(T, stage), layers' = Tail(layers), UNCHANGED <<step, status>>
        PROVE  MadeInv'
    <2>1. PICK z : Had(z) /\ Merging(M, args, z, Tail(t), E \cup {t[1]}, copy_tree(T, stage), Tail(layers))
      BY <1>1, <1>3, <1>4, MergingGoesOn
    <2>2. Merging(M, args, z, Tail(t), E \cup {t[1]}, stage', layers')
      BY <1>4, <2>1
    <2>3. \E u, F : Merging(M, args, z, u, F, stage', layers')
      BY <2>2
    <2>4. PICK u, F : Merging(M, args, z, u, F, stage', layers')
      BY <2>3
    <2>5. Merging(Brought(args, Y2K), args, z, u, F, stage, layers)'
      BY <1>1, <1>2, <2>4 DEF M, Merging, LayersOf, LayerOf, Closing
    <2>6. Had(z)'
      BY <1>1, <2>1 DEF Had
    <2> QED
      BY <1>1, <1>4, <2>5, <2>6 DEF MadeInv
  <1>5. CASE step' = "idle" /\ status' \in {"error", "traceback"}
    BY <1>5 DEF MadeInv
  <1> QED
    BY <1>4, <1>5 DEF merge, ends

LEMMA ManifestMakes ==
  ASSUME UsableInv, MadeInv, write_manifest
  PROVE  MadeInv'
  <1>1. /\ step = "merge" /\ layers = << >> /\ status # "ok" /\ args \in CommandLines
        /\ UNCHANGED <<args, image, cache, output>>
    BY DEF write_manifest, UsableInv
  <1>2. ASSUME NEW y PROVE Brought(args, y)' = Brought(args, y)
    BY <1>1 DEF Brought, Boot
  <1>3. PICK y, t, E : Had(y) /\ Merging(Brought(args, Y2K), args, y, t, E, stage, << >>)
    BY <1>1 DEF MadeInv
  <1>4. ASSUME step' = "build", UNCHANGED status, MadeOf(stage', Brought(args, y))
        PROVE  MadeInv'
    <2>1. MadeOf(stage', Brought(args, y)')
      BY <1>2, <1>4
    <2>2. Had(y)'
      BY <1>1, <1>3 DEF Had
    <2> QED
      BY <1>1, <1>4, <2>1, <2>2 DEF MadeInv
  <1>5. CASE args.test /\ step' = "build" /\ UNCHANGED <<stage, status>>
    <2>1. MadeOf(stage, Brought(args, y))
      BY <1>1, <1>3, <1>5, MergingEnds
    <2> QED
      BY <1>4, <1>5, <2>1
  <1>6. CASE /\ ~args.test /\ <<Manifest_>> \notin Folders(stage)
             /\ stage' = copy_tree(File(Manifest_, Written("manifest")), stage)
             /\ step' = "build" /\ UNCHANGED status
    <2>1. MadeOf(copy_tree(File(Manifest_, Written("manifest")), stage), Brought(args, y))
      BY <1>1, <1>3, <1>6, MergingEnds
    <2> QED
      BY <1>4, <1>6, <2>1
  <1>7. CASE step' = "idle" /\ status' = "traceback"
    BY <1>7 DEF MadeInv
  <1> QED
    BY <1>5, <1>6, <1>7 DEF write_manifest, ends

LEMMA BuildMakes ==
  ASSUME UsableInv, MadeInv, build_iso
  PROVE  MadeInv'
  <1>1. /\ step = "build" /\ status # "ok" /\ UNCHANGED <<args, image, cache>>
    BY DEF build_iso, UsableInv
  <1>2. PICK y : Had(y) /\ MadeOf(stage, Brought(args, y))
    BY <1>1 DEF MadeInv
  <1>3. Brought(args, y)' = Brought(args, y)
    BY <1>1 DEF Brought, Boot
  <1>4. CASE output' \in Made /\ step' = "find" /\ UNCHANGED status
    <2>1. output'.tree = stage
      BY <1>4 DEF Made
    <2>2. MadeOf(output'.tree, Brought(args, y)')
      BY <1>2, <1>3, <2>1
    <2>3. Had(y)'
      BY <1>1, <1>2 DEF Had
    <2> QED
      BY <1>1, <1>4, <2>2, <2>3 DEF MadeInv
  <1>5. CASE step' = "idle" /\ status' = "error"
    BY <1>5 DEF MadeInv
  <1> QED
    BY <1>4, <1>5 DEF build_iso, ends

LEMMA LaterMakes ==
  ASSUME UsableInv, MadeInv, find_iso_file_extent \/ apply_label_overlay \/ require_valid
  PROVE  MadeInv'
  <1>1. /\ step \in {"find", "label", "validate"} /\ IsIso(output)
        /\ UNCHANGED <<args, image, cache>>
        /\ step' \in {"find", "label", "validate", "idle"}
    BY DEF find_iso_file_extent, apply_label_overlay, require_valid, ends, UsableInv
  <1>2. output'.tree = output.tree
    <2>1. UNCHANGED output \/ \E l : output' = [output EXCEPT !.label = l]
      BY DEF find_iso_file_extent, apply_label_overlay, require_valid
    <2> QED
      BY <1>1, <2>1 DEF IsIso
  <1>3. PICK y : Had(y) /\ MadeOf(output.tree, Brought(args, y))
    BY <1>1 DEF MadeInv
  <1>4. Brought(args, y)' = Brought(args, y)
    BY <1>1 DEF Brought, Boot
  <1>5. MadeOf(output'.tree, Brought(args, y)')
    BY <1>2, <1>3, <1>4
  <1>6. Had(y)'
    BY <1>1, <1>3 DEF Had
  <1> QED
    BY <1>1, <1>5, <1>6 DEF MadeInv

(* Up to its first merge the stage is empty.                               *)
StageInv == step \in {"resolve", "y2k", "download", "stage"} => stage = << >>

LEMMA StageSteps == StageInv /\ [RebuildNext]_rebuildVars => StageInv'
  <1> SUFFICES ASSUME StageInv, [RebuildNext]_rebuildVars PROVE StageInv'
    OBVIOUS
  <1>1. CASE UNCHANGED rebuildVars
    BY <1>1 DEF rebuildVars, StageInv
  <1>2. CASE main \/ resolve_boot_image \/ ensure_y2k_patch_iso \/ download \/ begin_stage
    BY <1>2 DEF main, resolve_boot_image, ensure_y2k_patch_iso, download, begin_stage, ends, StageInv
  <1>3. CASE merge \/ write_manifest \/ build_iso \/ find_iso_file_extent \/ apply_label_overlay
             \/ require_valid \/ kill_rebuild
    <2>1. step' \notin {"resolve", "y2k", "download", "stage"}
      BY <1>3 DEF merge, write_manifest, build_iso, find_iso_file_extent, apply_label_overlay, require_valid,
         kill_rebuild, ends
    <2> QED
      BY <2>1 DEF StageInv
  <1> QED
    BY <1>1, <1>2, <1>3 DEF RebuildNext

LEMMA MadeSteps == UsableInv /\ StageInv /\ MadeInv /\ [RebuildNext]_rebuildVars => MadeInv'
  <1> SUFFICES ASSUME UsableInv, StageInv, MadeInv, [RebuildNext]_rebuildVars PROVE MadeInv'
    OBVIOUS
  <1>1. CASE UNCHANGED rebuildVars
    <2>1. ASSUME NEW y PROVE Brought(args, y)' = Brought(args, y) /\ (Had(y) => Had(y)')
      BY <1>1 DEF rebuildVars, Brought, Boot, Had
    <2>2. ASSUME NEW y, NEW t, NEW E, Merging(Brought(args, Y2K), args, y, t, E, stage, layers)
          PROVE  Merging(Brought(args, Y2K), args, y, t, E, stage, layers)'
      <3>1. UNCHANGED <<args, stage, layers, cache>>
        BY <1>1 DEF rebuildVars
      <3> QED
        BY <2>1, <2>2, <3>1 DEF Merging, LayersOf, LayerOf, Closing
    <2>3. step' = step /\ stage' = stage /\ output' = output /\ status' = status
      BY <1>1 DEF rebuildVars
    <2>4. CASE step = "merge"
      <3>1. PICK y, t, E : Had(y) /\ Merging(Brought(args, Y2K), args, y, t, E, stage, layers)
        BY <2>4 DEF MadeInv
      <3>2. Had(y)' /\ Merging(Brought(args, Y2K), args, y, t, E, stage, layers)'
        BY <2>1, <2>2, <3>1
      <3>3. status # "ok"
        BY <2>4 DEF UsableInv
      <3> QED
        BY <2>3, <2>4, <3>2, <3>3 DEF MadeInv
    <2>5. CASE step = "build"
      <3>1. PICK y : Had(y) /\ MadeOf(stage, Brought(args, y))
        BY <2>5 DEF MadeInv
      <3>2. Had(y)' /\ MadeOf(stage', Brought(args, y)')
        BY <2>1, <2>3, <3>1
      <3>3. status # "ok"
        BY <2>5 DEF UsableInv
      <3> QED
        BY <2>3, <2>5, <3>2, <3>3 DEF MadeInv
    <2>6. CASE step \notin {"merge", "build"}
      <3>1. CASE step \in {"find", "label", "validate"} \/ status = "ok"
        <4>1. PICK y : Had(y) /\ MadeOf(output.tree, Brought(args, y))
          BY <3>1 DEF MadeInv
        <4>2. Had(y)' /\ MadeOf(output'.tree, Brought(args, y)')
          BY <2>1, <2>3, <4>1
        <4> QED
          BY <2>3, <2>6, <4>2 DEF MadeInv
      <3>2. CASE ~(step \in {"find", "label", "validate"} \/ status = "ok")
        BY <2>3, <2>6, <3>2 DEF MadeInv
      <3> QED
        BY <3>1, <3>2
    <2> QED
      BY <2>4, <2>5, <2>6
  <1>2. CASE main
    BY <1>2, RebuildAssumption DEF main, ends, MadeInv
  <1>3. CASE resolve_boot_image
    BY <1>3 DEF resolve_boot_image, ends, MadeInv, UsableInv
  <1>4. CASE ensure_y2k_patch_iso
    BY <1>4 DEF ensure_y2k_patch_iso, ends, MadeInv, UsableInv
  <1>5. CASE download
    BY <1>5 DEF download, ends, MadeInv, UsableInv
  <1>6. CASE kill_rebuild
    BY <1>6 DEF kill_rebuild, ends, MadeInv
  <1>7. CASE begin_stage
    <2>1. stage = << >>
      BY <1>7 DEF StageInv, begin_stage
    <2> QED
      BY <1>7, <2>1, BeginMakes
  <1> QED
    BY <1>1, <1>2, <1>3, <1>4, <1>5, <1>6, <1>7,
       MergeMakes, ManifestMakes, BuildMakes, LaterMakes DEF RebuildNext

(* When rebuild.py says that an image is complete, it has every directory  *)
(* and file of every source the command line names, each file from the     *)
(* last one that puts one in its place, and nothing else: for any trees,   *)
(* any number of images and overlays, any accidents, and whatever the      *)
(* cache holds of an earlier download.                                     *)
THEOREM RebuiltFromSources == Spec => []RebuiltAsAsked
  <1>1. RebuildInit => UsableInv /\ StageInv /\ MadeInv
    BY UsableStarts, RebuildAssumption DEF RebuildInit, MadeInv, StageInv
  <1>2. RebuildSpec => [](UsableInv /\ StageInv /\ MadeInv)
    BY <1>1, UsableSteps, StageSteps, MadeSteps, PTL DEF RebuildSpec
  <1>3. MadeInv => RebuiltAsAsked
    <2> SUFFICES ASSUME MadeInv, status = "ok" PROVE RebuiltAsAsked
      BY DEF RebuiltAsAsked
    <2>1. PICK y : Had(y) /\ MadeOf(output.tree, Brought(args, y))
      BY DEF MadeInv
    <2>2. PICK part \in SUBSET DOMAIN Y2K : y = [p \in part |-> Y2K[p]]
      BY <2>1 DEF Had
    <2>3. cache = "whole" => part = DOMAIN Y2K
      BY <2>1, <2>2 DEF Had
    <2> QED
      BY <2>1, <2>2, <2>3 DEF RebuiltAsAsked
  <1> QED
    BY <1>2, <1>3, EachToolAlone, PTL

(***************************************************************************)
(* Labels: the two sums, one of the writer in Python and one of the reader *)
(* in C, are one.                                                          *)
(***************************************************************************)
(* What is left of a number when its carries are taken back: never zero    *)
(* but for zero.                                                           *)
Rest_(n) == IF n = 0 THEN 0 ELSE ((n - 1) % 65535) + 1

LEMMA WordFacts ==
  /\ Word = 65536
  /\ \A w : w \in Words <=> w \in Int /\ 0 <= w /\ w < Word
  <1>1. Word = 65536
    BY DEF Word
  <1>2. Word \in Int
    BY <1>1
  <1>3. \A w : w \in Words <=> w \in Int /\ 0 <= w /\ w < Word
    BY <1>2 DEF Words
  <1> QED
    BY <1>1, <1>3

LEMMA RestCarries ==
  ASSUME NEW n \in Nat, NEW w \in Words
  PROVE  Carried(Rest_(n) + w) = Rest_(n + w)
  <1>1. w \in Int /\ 0 <= w /\ w < 65536
    BY WordFacts, SMT
  <1> QED
    BY <1>1, SMT DEF Rest_, Carried

LEMMA RestFolds ==
  ASSUME NEW n \in Nat
  PROVE  /\ Rest_(n) \in Words
         /\ n < 65536 => Rest_(n) = n
         /\ n >= 65536 => /\ (n % 65536) + (n \div 65536) \in 0..(n - 1)
                          /\ Rest_((n % 65536) + (n \div 65536)) = Rest_(n)
  <1>1. Rest_(n) \in Int /\ 0 <= Rest_(n) /\ Rest_(n) < 65536
    BY SMT DEF Rest_
  <1>2. n < 65536 => Rest_(n) = n
    BY SMT DEF Rest_
  <1>3. ASSUME n >= 65536
        PROVE  /\ (n % 65536) + (n \div 65536) \in 0..(n - 1)
               /\ Rest_((n % 65536) + (n \div 65536)) = Rest_(n)
    <2> DEFINE q == n \div 65536  s == n % 65536
    <2>1. q \in Nat /\ s \in Nat /\ s < 65536 /\ n = 65536 * q + s /\ q >= 1
      BY <1>3, SMT
    <2> HIDE DEF q, s
    <2>2. s + q \in 0..(n - 1) /\ s + q >= 1
      BY <2>1, SMT
    <2>3. ((s + q) - 1) % 65535 = (n - 1) % 65535
      BY <2>1, SMT
    <2>4. Rest_(s + q) = Rest_(n)
      BY <1>3, <2>1, <2>2, <2>3, SMT DEF Rest_
    <2> QED
      BY <2>2, <2>4 DEF q, s
  <1>4. Rest_(n) \in Words
    BY <1>1, WordFacts, SMT
  <1> QED
    BY <1>2, <1>3, <1>4, SMT

LEMMA FoldedIsRest ==
  ASSUME NEW total \in Nat
  PROVE  Folded(total) = Rest_(total)
  <1> DEFINE D == 0..total
             Good(f) == f = [n \in D |-> IF n < 65536 THEN n ELSE f[(n % 65536) + (n \div 65536)]]
             g == [n \in D |-> Rest_(n)]
             fold == CHOOSE f : Good(f)
  <1>1. \A n \in D : n \in Nat /\ n <= total
    OBVIOUS
  <1>2. Good(g)
    <2>1. ASSUME NEW n \in D
          PROVE  g[n] = IF n < 65536 THEN n ELSE g[(n % 65536) + (n \div 65536)]
      <3>1. n < 65536 => Rest_(n) = n
        BY <1>1, RestFolds
      <3>2. n >= 65536 => /\ (n % 65536) + (n \div 65536) \in 0..(n - 1)
                          /\ Rest_((n % 65536) + (n \div 65536)) = Rest_(n)
        BY <1>1, RestFolds
      <3> QED
        BY <1>1, <3>1, <3>2
    <2> HIDE DEF g
    <2>2. g = [n \in D |-> g[n]]
      BY DEF g
    <2> QED
      BY <2>1, <2>2
  <1>3. Good(fold)
    <2> HIDE DEF Good, g
    <2> QED
      BY <1>2
  <1>4. Folded(total) = fold[total]
    BY DEF Folded
  <1> HIDE DEF fold
  <1>5. \A n \in D : fold[n] = IF n < 65536 THEN n ELSE fold[(n % 65536) + (n \div 65536)]
    BY <1>3
  <1> DEFINE S == {n \in D : fold[n] = Rest_(n)}
  <1>6. ASSUME NEW n \in 0..total, \A k \in 0..(n - 1) : k \in S
        PROVE  n \in S
    <2>1. n < 65536 => Rest_(n) = n
      BY <1>1, RestFolds
    <2>2. n >= 65536 => /\ (n % 65536) + (n \div 65536) \in 0..(n - 1)
                        /\ Rest_((n % 65536) + (n \div 65536)) = Rest_(n)
      BY <1>1, RestFolds
    <2> QED
      BY <1>1, <1>5, <1>6, <2>1, <2>2
  <1> HIDE DEF S
  <1>7. \A n \in 0..total : n \in S
    BY <1>6, Induction
  <1> QED
    BY <1>4, <1>7 DEF S

(* The words as they are summed.                                           *)
LEMMA SummedFacts ==
  /\ Len(Summed) = 17
  /\ \A i \in 1..Len(Summed) : Summed[i] \in Offsets \ {CHECKSUM_OFFSET}
  /\ Offsets = {0, 2, 4, 6, 94, 110, 112, 128, 188, 192, 194, 196, 226, 256, 258, 260, 290, 558}
  BY DEF Summed, Offsets, CHECKSUM_OFFSET, SECTOR_SIZE_OFFSET, FRONT_OFFSET, ROOT_OFFSET,
         PARTITION_A_OFFSET, PARTITION_B_OFFSET, TYPE

Sums(l, f) == f = [i \in 0..Len(Summed) |-> IF i = 0 THEN 0 ELSE f[i - 1] + l[Summed[i]]]

LEMMA SumsExist ==
  ASSUME NEW l \in Labels
  PROVE  \E f : Sums(l, f) /\ f \in [0..Len(Summed) -> Nat]
  <1> DEFINE n == Len(Summed)  next == [i \in 1..n |-> [k \in Nat |-> k + l[Summed[i]]]]
  <1>1. n \in Nat
    BY SummedFacts
  <1>2. \A i \in 1..n : l[Summed[i]] \in Nat
    <2>1. \A i \in 1..n : l[Summed[i]] \in Words
      BY SummedFacts DEF Labels
    <2> QED
      BY <2>1, WordFacts
  <1>3. next \in [1..n -> [Nat -> Nat]]
    BY <1>2
  <1> HIDE DEF next
  <1>4. PICK f \in [0..n -> Nat] : Follows(f, n, 0, next)
    BY <1>1, <1>3, Recursion
  <1>5. \A i \in 1..n : f[i] = f[i - 1] + l[Summed[i]]
    <2> SUFFICES ASSUME NEW i \in 1..n PROVE f[i] = f[i - 1] + l[Summed[i]]
      OBVIOUS
    <2>1. f[i] = next[i][f[i - 1]]
      BY <1>4 DEF Follows
    <2>2. f[i - 1] \in Nat
      BY <1>1, <1>4
    <2> QED
      BY <2>1, <2>2 DEF next
  <1>6. f[0] = 0
    BY <1>4 DEF Follows
  <1>7. ASSUME NEW i \in 0..n PROVE f[i] = IF i = 0 THEN 0 ELSE f[i - 1] + l[Summed[i]]
    BY <1>1, <1>5, <1>6
  <1>8. f = [i \in 0..n |-> f[i]]
    BY <1>4
  <1> QED
    BY <1>4, <1>7, <1>8 DEF Sums

LEMMA TotalSums ==
  ASSUME NEW l \in Labels
  PROVE  \E f \in [0..Len(Summed) -> Nat] : Sums(l, f) /\ Total(l) = f[Len(Summed)]
  <1> DEFINE sum == CHOOSE f : Sums(l, f)  n == Len(Summed)
  <1>1. Sums(l, sum)
    BY SumsExist
  <1>2. Total(l) = sum[n]
    BY DEF Total, Sums
  <1>3. PICK g \in [0..n -> Nat] : Sums(l, g)
    BY SumsExist
  <1> HIDE DEF sum
  <1>4. \A i \in 0..n : sum[i] = IF i = 0 THEN 0 ELSE sum[i - 1] + l[Summed[i]]
    BY <1>1 DEF Sums
  <1>5. \A i \in 0..n : g[i] = IF i = 0 THEN 0 ELSE g[i - 1] + l[Summed[i]]
    BY <1>3 DEF Sums
  <1> DEFINE S == {i \in 0..n : sum[i] = g[i]}
  <1>6. n \in Nat
    BY SummedFacts
  <1>7. ASSUME NEW i \in 0..n, \A k \in 0..(i - 1) : k \in S PROVE i \in S
    BY <1>4, <1>5, <1>6, <1>7
  <1> HIDE DEF S
  <1>8. \A i \in 0..n : i \in S
    BY <1>6, <1>7, Induction
  <1>9. sum[n] = g[n]
    BY <1>6, <1>8 DEF S
  <1> QED
    BY <1>2, <1>3, <1>9

LEMMA TotalsAgree ==
  ASSUME NEW l \in Labels, NEW m \in Labels, \A i \in 1..Len(Summed) : l[Summed[i]] = m[Summed[i]]
  PROVE  Total(l) = Total(m)
  <1> DEFINE n == Len(Summed)
  <1>1. PICK f \in [0..n -> Nat] : Sums(l, f) /\ Total(l) = f[n]
    BY TotalSums
  <1>2. PICK g \in [0..n -> Nat] : Sums(m, g) /\ Total(m) = g[n]
    BY TotalSums
  <1>3. \A i \in 0..n : f[i] = IF i = 0 THEN 0 ELSE f[i - 1] + l[Summed[i]]
    BY <1>1 DEF Sums
  <1>4. \A i \in 0..n : g[i] = IF i = 0 THEN 0 ELSE g[i - 1] + m[Summed[i]]
    BY <1>2 DEF Sums
  <1> DEFINE S == {i \in 0..n : f[i] = g[i]}
  <1>5. n \in Nat
    BY SummedFacts
  <1>6. ASSUME NEW i \in 0..n, \A k \in 0..(i - 1) : k \in S PROVE i \in S
    BY <1>3, <1>4, <1>5, <1>6
  <1> HIDE DEF S
  <1>7. \A i \in 0..n : i \in S
    BY <1>5, <1>6, Induction
  <1>8. f[n] = g[n]
    BY <1>5, <1>7 DEF S
  <1> QED
    BY <1>1, <1>2, <1>8

(* checksum_v3 in nextlabel.py adds all words and folds the sum;           *)
(* dlV3Checksum in nextlabel.c takes the carry back at every word.  For    *)
(* every label in its own first block they agree.                          *)
THEOREM ChecksumsAgree ==
  ASSUME NEW l \in Labels, l[4] = 0, l[6] = 0
  PROVE  /\ dlV3Checksum(l) = checksum_v3(l)
         /\ checksum_v3(l) \in Words
  <1> DEFINE n == Len(Summed)
             word(i) == IF Summed[i] \in {4, 6} THEN 0 ELSE l[Summed[i]]
             Good(c) == c = [i \in 0..n |-> IF i = 0 THEN 0 ELSE Carried(c[i - 1] + word(i))]
             sum == CHOOSE c : Good(c)
  <1>1. n \in Nat
    BY SummedFacts
  <1>2. PICK f \in [0..n -> Nat] : Sums(l, f) /\ Total(l) = f[n]
    BY TotalSums
  <1>3. \A i \in 0..n : f[i] = IF i = 0 THEN 0 ELSE f[i - 1] + l[Summed[i]]
    BY <1>2 DEF Sums
  <1>4. \A i \in 1..n : word(i) = l[Summed[i]] /\ word(i) \in Words
    BY SummedFacts DEF Labels
  <1>5. dlV3Checksum(l) = sum[n]
    BY DEF dlV3Checksum
  <1> HIDE DEF word
  <1> DEFINE g == [i \in 0..n |-> Rest_(f[i])]
  <1>6. \A i \in 1..n : Carried(Rest_(f[i - 1]) + word(i)) = Rest_(f[i])
    <2> SUFFICES ASSUME NEW i \in 1..n PROVE Carried(Rest_(f[i - 1]) + word(i)) = Rest_(f[i])
      OBVIOUS
    <2>1. f[i - 1] \in Nat /\ f[i] = f[i - 1] + word(i)
      BY <1>1, <1>2, <1>3, <1>4
    <2> QED
      BY <1>4, <2>1, RestCarries
  <1>7. Good(g)
    <2>1. ASSUME NEW i \in 0..n PROVE g[i] = IF i = 0 THEN 0 ELSE Carried(g[i - 1] + word(i))
      <3>1. CASE i = 0
        BY <1>1, <1>3, <3>1 DEF Rest_
      <3>2. CASE i # 0
        <4>1. i \in 1..n /\ i - 1 \in 0..n
          BY <1>1, <3>2
        <4> QED
          BY <1>6, <3>2, <4>1
      <3> QED
        BY <3>1, <3>2
    <2> HIDE DEF g
    <2>2. g = [i \in 0..n |-> g[i]]
      BY DEF g
    <2> QED
      BY <2>1, <2>2
  <1>8. Good(sum)
    <2> HIDE DEF Good, g
    <2> QED
      BY <1>7
  <1> HIDE DEF sum
  <1>9. \A i \in 0..n : sum[i] = IF i = 0 THEN 0 ELSE Carried(sum[i - 1] + word(i))
    BY <1>8
  <1> DEFINE S == {i \in 0..n : sum[i] = g[i]}
  <1>10. \A i \in 0..n : g[i] = IF i = 0 THEN 0 ELSE Carried(g[i - 1] + word(i))
    <2> HIDE DEF g
    <2> QED
      BY <1>7
  <1>11. g[n] = Rest_(f[n])
    BY <1>1
  <1> HIDE DEF g, Good
  <1>12. ASSUME NEW i \in 0..n, \A k \in 0..(i - 1) : k \in S PROVE i \in S
    BY <1>1, <1>9, <1>10, <1>12
  <1> HIDE DEF S
  <1>13. \A i \in 0..n : i \in S
    BY <1>1, <1>12, Induction
  <1>14. sum[n] = g[n]
    BY <1>1, <1>13 DEF S
  <1>15. f[n] \in Nat
    BY <1>1, <1>2
  <1>16. checksum_v3(l) = Rest_(f[n])
    BY <1>2, <1>15, FoldedIsRest DEF checksum_v3
  <1> QED
    BY <1>5, <1>11, <1>14, <1>15, <1>16, RestFolds

(***************************************************************************)
(* Labels: what an updated template says.                                  *)
(***************************************************************************)
LEMMA Bytes24 ==
  ASSUME NEW n, Fits24(n), NEW w \in Words
  PROVE  /\ n \in Nat /\ n < 16777216
         /\ n \div 256 \in Words /\ n % 65536 \in Words
         /\ (n % 256) * 256 + (w % 256) \in Words
         /\ (n \div 256) * 256 + (((n % 256) * 256 + (w % 256)) \div 256) = n
         /\ ((n % 256) * 256 + (w % 256)) % 256 = w % 256
         /\ (w \div 256) * 256 + (n \div 65536) \in Words
         /\ ((w \div 256) * 256 + (n \div 65536)) \div 256 = w \div 256
         /\ (((w \div 256) * 256 + (n \div 65536)) % 256) * 65536 + (n % 65536) = n
  <1>1. w \in Int /\ 0 <= w /\ w < 65536
    BY WordFacts, SMT
  <1>2. n \in Int /\ 0 <= n /\ n < 16777216
    <2>1. 256 * Word - 1 \in Int /\ 256 * Word = 16777216
      BY WordFacts, SMT
    <2>2. n \in 0..(256 * Word - 1)
      BY DEF Fits24
    <2> HIDE DEF Word
    <2> QED
      BY <2>1, <2>2, SMT
  <1> DEFINE h == n \div 256  b == n % 256  c == w \div 256  d == w % 256
             q == n \div 65536  r == n % 65536
  <1>3. h \in Int /\ b \in Int /\ n = 256 * h + b /\ 0 <= b /\ b < 256 /\ 0 <= h /\ h < 65536
    BY <1>2, SMT
  <1>4. c \in Int /\ d \in Int /\ 0 <= c /\ c < 256 /\ 0 <= d /\ d < 256
    BY <1>1, SMT
  <1>5. q \in Int /\ r \in Int /\ n = 65536 * q + r /\ 0 <= r /\ r < 65536 /\ 0 <= q /\ q < 256
    BY <1>2, SMT
  <1> HIDE DEF h, b, c, d, q, r
  <1>6. (b * 256 + d) \div 256 = b /\ (b * 256 + d) % 256 = d /\ 0 <= b * 256 + d /\ b * 256 + d < 65536
    BY <1>3, <1>4, SMT
  <1>7. (c * 256 + q) \div 256 = c /\ (c * 256 + q) % 256 = q /\ 0 <= c * 256 + q /\ c * 256 + q < 65536
    BY <1>4, <1>5, SMT
  <1>8. h * 256 + b = n /\ q * 65536 + r = n
    BY <1>3, <1>5, SMT
  <1>9. h \in Words /\ r \in Words /\ b * 256 + d \in Words /\ c * 256 + q \in Words
    BY <1>3, <1>4, <1>5, <1>6, <1>7, WordFacts, SMT
  <1> QED
    BY <1>2, <1>6, <1>7, <1>8, <1>9 DEF h, b, c, d, q, r

(* A label with other words at some places, and the same ones elsewhere.   *)
Alike(l, m, places) == l \in Labels /\ \A o \in Offsets \ places : l[o] = m[o]

Records == {192, 256}

LEMMA BaseIsWritten ==
  ASSUME NEW l \in Labels, NEW p \in Records, NEW n, Fits24(n)
  PROVE  /\ Alike(with_base(l, p, n), l, {p, p + 2})
         /\ base_of(with_base(l, p, n), p) = n
         /\ size_of(with_base(l, p, n), p) = size_of(l, p)
  <1> DEFINE m == with_base(l, p, n)
  <1>1. p \in Offsets /\ p + 2 \in Offsets /\ p + 4 \in Offsets /\ p # p + 2 /\ p + 4 \notin {p, p + 2}
    BY SummedFacts DEF Records
  <1>2. \A o \in Offsets : l[o] \in Words
    BY DEF Labels
  <1>3. l[p + 2] \in Words
    BY <1>1, <1>2
  <1> DEFINE v == (n % 256) * 256 + (l[p + 2] % 256)
             k == [l EXCEPT ![p] = n \div 256]
  <1>4. k \in Labels /\ \A o \in Offsets : k[o] = IF o = p THEN n \div 256 ELSE l[o]
    BY <1>1, <1>3, Bytes24, SMT DEF Labels
  <1>5. m = [k EXCEPT ![p + 2] = v] /\ v \in Words
    BY <1>1, <1>3, <1>4, Bytes24, SMT DEF with_base
  <1> HIDE DEF k, m, v
  <1>8. m \in Labels /\ \A o \in Offsets : m[o] = IF o = p + 2 THEN v ELSE k[o]
    BY <1>1, <1>4, <1>5, SMT DEF Labels
  <1>9. m[p] = n \div 256 /\ m[p + 2] = v /\ m[p + 4] = l[p + 4] /\ \A o \in Offsets \ {p, p + 2} : m[o] = l[o]
    BY <1>1, <1>4, <1>8, SMT
  <1>6. m[p] * 256 + (m[p + 2] \div 256) = n /\ m[p + 2] % 256 = l[p + 2] % 256
    <2>1. (n \div 256) * 256 + (v \div 256) = n /\ v % 256 = l[p + 2] % 256
      <3> DEFINE w == l[p + 2]
      <3>1. w \in Words
        BY <1>3
      <3> HIDE DEF w
      <3>2. (n \div 256) * 256 + (((n % 256) * 256 + (w % 256)) \div 256) = n
            /\ ((n % 256) * 256 + (w % 256)) % 256 = w % 256
        BY <3>1, Bytes24
      <3> QED
        BY <3>2, SMT DEF v, w
    <2> QED
      BY <1>9, <2>1, SMT
  <1>7. Alike(m, l, {p, p + 2}) /\ base_of(m, p) = n /\ size_of(m, p) = size_of(l, p)
    BY <1>6, <1>8, <1>9, SMT DEF Alike, base_of, size_of
  <1> QED
    BY <1>7 DEF m

LEMMA SizeIsWritten ==
  ASSUME NEW l \in Labels, NEW p \in Records, NEW n, Fits24(n)
  PROVE  /\ Alike(with_size(l, p, n), l, {p + 2, p + 4})
         /\ size_of(with_size(l, p, n), p) = n
         /\ base_of(with_size(l, p, n), p) = base_of(l, p)
  <1> DEFINE m == with_size(l, p, n)
  <1>1. p \in Offsets /\ p + 2 \in Offsets /\ p + 4 \in Offsets /\ p + 4 # p + 2 /\ p \notin {p + 2, p + 4}
    BY SummedFacts DEF Records
  <1>2. \A o \in Offsets : l[o] \in Words
    BY DEF Labels
  <1>3. l[p + 2] \in Words
    BY <1>1, <1>2
  <1>4. m[p] = l[p] /\ m[p + 2] = (l[p + 2] \div 256) * 256 + (n \div 65536) /\ m[p + 4] = n % 65536
    BY <1>1 DEF with_size, Labels
  <1>5. m \in Labels /\ \A o \in Offsets \ {p + 2, p + 4} : m[o] = l[o]
    BY <1>1, <1>3, Bytes24 DEF with_size, Labels
  <1>6. (m[p + 2] % 256) * 65536 + m[p + 4] = n /\ m[p + 2] \div 256 = l[p + 2] \div 256
    BY <1>3, <1>4, Bytes24
  <1> HIDE DEF m
  <1>7. Alike(m, l, {p + 2, p + 4}) /\ size_of(m, p) = n /\ base_of(m, p) = base_of(l, p)
    BY <1>4, <1>5, <1>6 DEF Alike, base_of, size_of
  <1> QED
    BY <1>7 DEF m

(* A label that its writer summed: BootE finds the same sum.               *)
LEMMA SumIsRight ==
  ASSUME NEW l \in Labels, l[4] = 0, l[6] = 0
  PROVE  LET m == with_checksum(l)
         IN /\ Alike(m, l, {558})
            /\ m[558] = checksum_v3(m) /\ m[558] = dlV3Checksum(m)
  <1> DEFINE m == with_checksum(l)
  <1>1. checksum_v3(l) \in Words
    BY ChecksumsAgree
  <1>2. m \in Labels /\ m[558] = checksum_v3(l) /\ \A o \in Offsets \ {558} : m[o] = l[o]
    <2>1. 558 \in Offsets
      BY SummedFacts
    <2> QED
      BY <1>1, <2>1 DEF with_checksum, Labels, CHECKSUM_OFFSET
  <1> HIDE DEF m
  <1>3. \A i \in 1..Len(Summed) : m[Summed[i]] = l[Summed[i]]
    BY <1>2, SummedFacts DEF CHECKSUM_OFFSET
  <1>4. checksum_v3(m) = checksum_v3(l)
    BY <1>2, <1>3, TotalsAgree DEF checksum_v3
  <1>5. m[4] = 0 /\ m[6] = 0
    BY <1>2, SummedFacts
  <1>6. dlV3Checksum(m) = checksum_v3(m)
    BY <1>2, <1>5, ChecksumsAgree
  <1> QED
    BY <1>2, <1>4, <1>6 DEF m, Alike

(* What an updated template says, b the second partition if there is one.  *)
Updated(l, front, blocks, b) ==
  /\ l \in Labels /\ has_magic(l) /\ l[4] = 0 /\ l[6] = 0
  /\ l[558] = checksum_v3(l) /\ l[558] = dlV3Checksum(l)
  /\ l[112] = front /\ front \in Words
  /\ Fits24(blocks) /\ size_of(l, 192) = blocks
  /\ \A x \in b :
       /\ Fits24(x.base) /\ base_of(l, 256) = x.base
       /\ Fits24(x.size) /\ size_of(l, 256) = x.size
       /\ l[290] = l[226]

LEMMA RecordCopied ==
  ASSUME NEW l \in Labels
  PROVE  LET m == [o \in DOMAIN l |-> IF o - 256 \in PartitionWords THEN l[o - 256 + 192] ELSE l[o]]
         IN Alike(m, l, {256, 258, 260, 290}) /\ m[290] = l[226]
  <1>1. DOMAIN l = Offsets /\ \A o \in Offsets : l[o] \in Words
    BY DEF Labels
  <1>2. \A o \in Offsets : o - 256 \in PartitionWords <=> o \in {256, 258, 260, 290}
    BY SummedFacts, SMT DEF PartitionWords, TYPE
  <1>3. \A o \in {256, 258, 260, 290} : o \in Offsets /\ o - 256 + 192 \in Offsets
    BY SummedFacts, SMT
  <1> DEFINE m == [o \in DOMAIN l |-> IF o - 256 \in PartitionWords THEN l[o - 256 + 192] ELSE l[o]]
  <1>4. m = [o \in Offsets |-> IF o \in {256, 258, 260, 290} THEN l[o - 256 + 192] ELSE l[o]]
    BY <1>1, <1>2
  <1> HIDE DEF m
  <1>5. \A o \in Offsets : m[o] = IF o \in {256, 258, 260, 290} THEN l[o - 256 + 192] ELSE l[o]
    BY <1>4
  <1>6. \A o \in Offsets : m[o] \in Words
    BY <1>1, <1>3, <1>5
  <1>7. m \in Labels
    BY <1>4, <1>6 DEF Labels
  <1>8. \A o \in Offsets \ {256, 258, 260, 290} : m[o] = l[o]
    BY <1>5
  <1>9. m[290] = l[226]
    BY <1>3, <1>5
  <1> QED
    BY <1>7, <1>8, <1>9 DEF m, Alike

LEMMA TemplateIsUpdated ==
  ASSUME NEW t \in Labels, NEW front, NEW blocks, NEW b, NEW a_base,
         \A x, y \in b : x = y,
         NEW l \in update_template(t, front, blocks, b, a_base)
  PROVE  Updated(l, front, blocks, b)
  <1> DEFINE A == PARTITION_A_OFFSET
             B == PARTITION_B_OFFSET
             placed == [t EXCEPT ![4] = 0, ![6] = 0, ![FRONT_OFFSET] = front]
             based == IF a_base = {} THEN placed ELSE with_base(placed, A, 0)
             sized == with_size(based, A, blocks)
             copied == [o \in DOMAIN sized |-> IF o - B \in PartitionWords THEN sized[o - B + A] ELSE sized[o]]
             x == CHOOSE x \in b : TRUE
             more == with_base(copied, B, x.base)
             second == with_size(more, B, x.size)
             m == IF b = {} THEN sized ELSE second
  <1>1. /\ has_magic(t) /\ front \in Words /\ Fits24(blocks) /\ l = with_checksum(m)
        /\ \A y \in b : Fits24(y.base) /\ Fits24(y.size)
    BY DEF update_template
  <1>0. A = 192 /\ B = 256 /\ FRONT_OFFSET = 112
    BY DEF PARTITION_A_OFFSET, PARTITION_B_OFFSET, FRONT_OFFSET
  <1> HIDE DEF A, B
  <1>2. 0 \in Words /\ Fits24(0)
    <2>1. 0 \in Words
      BY WordFacts, SMT
    <2>2. 256 * Word - 1 \in Nat
      BY WordFacts, SMT
    <2> QED
      BY <2>1, <2>2, SMT DEF Fits24
  <1>3. \A o \in {0, 2, 4, 6, 112, 192, 194, 196, 226, 290, 558} : o \in Offsets
    BY SummedFacts, SMT
  <1>4. Alike(placed, t, {4, 6, 112}) /\ placed[4] = 0 /\ placed[6] = 0 /\ placed[112] = front
    BY <1>0, <1>1, <1>2, <1>3, SMT DEF Labels, Alike
  <1> HIDE DEF placed
  <1>5. Alike(based, placed, {192, 194})
    <2>1. placed \in Labels /\ 192 \in Records
      BY <1>4, SMT DEF Records, Alike
    <2>2. Alike(with_base(placed, 192, 0), placed, {192, 192 + 2})
      BY <1>2, <2>1, BaseIsWritten, SMT
    <2>3. 192 + 2 = 194
      OBVIOUS
    <2> QED
      BY <1>0, <2>1, <2>2, <2>3, SMT DEF Alike
  <1> HIDE DEF based
  <1>6. Alike(sized, based, {194, 196}) /\ size_of(sized, 192) = blocks
    <2>1. based \in Labels /\ 192 \in Records
      BY <1>5, SMT DEF Records, Alike
    <2>2. Alike(sized, based, {192 + 2, 192 + 4}) /\ size_of(sized, 192) = blocks
      BY <1>0, <1>1, <2>1, SizeIsWritten, SMT
    <2>3. 192 + 2 = 194 /\ 192 + 4 = 196
      OBVIOUS
    <2> QED
      BY <2>2, <2>3, SMT
  <1> HIDE DEF sized
  <1>7. Alike(sized, t, {4, 6, 112, 192, 194, 196}) /\ sized[4] = 0 /\ sized[6] = 0 /\ sized[112] = front
    BY <1>3, <1>4, <1>5, <1>6, SMT DEF Alike
  <1>8. ASSUME b # {}
        PROVE  /\ Alike(second, sized, {256, 258, 260, 290}) /\ second[290] = sized[226]
               /\ x \in b /\ base_of(second, 256) = x.base /\ size_of(second, 256) = x.size
    <2>1. x \in b
      BY <1>8, SMT
    <2>2. Alike(copied, sized, {256, 258, 260, 290}) /\ copied[290] = sized[226]
      <3>1. sized \in Labels
        BY <1>7, SMT DEF Alike
      <3> QED
        BY <1>0, <3>1, RecordCopied, SMT
    <2> HIDE DEF copied, x
    <2>3. Fits24(x.base) /\ Fits24(x.size)
      BY <1>1, <2>1, SMT
    <2>4. 256 \in Records /\ 256 + 2 = 258 /\ 256 + 4 = 260 /\ 290 \in Offsets
      BY <1>3, SMT DEF Records
    <2>5. copied \in Labels
      BY <2>2, SMT DEF Alike
    <2>6. Alike(more, copied, {256, 256 + 2}) /\ base_of(more, 256) = x.base
      BY <1>0, <2>3, <2>4, <2>5, BaseIsWritten, SMT
    <2> HIDE DEF more
    <2>7. more \in Labels
      BY <2>6, SMT DEF Alike
    <2>8. /\ Alike(second, more, {256 + 2, 256 + 4}) /\ size_of(second, 256) = x.size
          /\ base_of(second, 256) = base_of(more, 256)
      BY <1>0, <2>3, <2>4, <2>7, SizeIsWritten, SMT
    <2> HIDE DEF second
    <2>9. Alike(second, sized, {256, 258, 260, 290}) /\ second[290] = sized[226]
      BY <2>2, <2>4, <2>6, <2>8, SMT DEF Alike
    <2> QED
      BY <2>1, <2>6, <2>8, <2>9, SMT
  <1>9. ASSUME NEW y \in b PROVE y = x /\ b # {}
    OBVIOUS
  <1> HIDE DEF second, x
  <1>10. /\ Alike(m, sized, {256, 258, 260, 290})
         /\ \A y \in b : base_of(m, 256) = y.base /\ size_of(m, 256) = y.size /\ m[290] = m[226]
    <2>1. CASE b = {}
      BY <1>7, <2>1, SMT DEF Alike
    <2>2. CASE b # {}
      <3>1. m = second
        BY <2>2, SMT
      <3> HIDE DEF m
      <3>2. 226 \in Offsets \ {256, 258, 260, 290}
        BY <1>3, SMT
      <3> QED
        BY <1>8, <1>9, <2>2, <3>1, <3>2, SMT DEF Alike
    <2> QED
      BY <2>1, <2>2, SMT
  <1> HIDE DEF m
  <1>11. m \in Labels /\ m[4] = 0 /\ m[6] = 0 /\ m[112] = front /\ m[0] = t[0] /\ m[2] = t[2]
    BY <1>3, <1>7, <1>10, SMT DEF Alike
  <1>12. size_of(m, 192) = blocks
    <2>1. m[194] = sized[194] /\ m[196] = sized[196]
      BY <1>3, <1>10, SMT DEF Alike
    <2> QED
      BY <1>6, <2>1, SMT DEF size_of
  <1>13. Alike(l, m, {558}) /\ l[558] = checksum_v3(l) /\ l[558] = dlV3Checksum(l)
    BY <1>1, <1>11, SumIsRight, SMT
  <1>14. \A o \in {0, 2, 4, 6, 112, 192, 194, 196, 226, 256, 258, 260, 290} : l[o] = m[o]
    BY <1>13, SummedFacts, SMT DEF Alike
  <1>15. size_of(l, 192) = size_of(m, 192) /\ size_of(l, 256) = size_of(m, 256) /\ base_of(l, 256) = base_of(m, 256)
    BY <1>14, SMT DEF size_of, base_of
  <1>16. has_magic(l)
    BY <1>1, <1>11, <1>14, SMT DEF has_magic, Magic
  <1>17. l \in Labels /\ l[4] = 0 /\ l[6] = 0 /\ l[112] = front
    BY <1>11, <1>13, <1>14, SMT DEF Alike
  <1>18. ASSUME NEW y \in b
         PROVE  /\ Fits24(y.base) /\ base_of(l, 256) = y.base
                /\ Fits24(y.size) /\ size_of(l, 256) = y.size
                /\ l[290] = l[226]
    BY <1>1, <1>10, <1>14, <1>15, SMT
  <1> QED
    BY <1>1, <1>12, <1>13, <1>15, <1>16, <1>17, <1>18, SMT DEF Updated

(***************************************************************************)
(* Labels: where those of finished discs lead.                             *)
(***************************************************************************)
AssemblySpec == AssemblyInit /\ [][AssemblyNext]_assemblyVars

Payload_ == <<"OPENSTEP42CD">>

PayloadFits(file) == file.size \in Nat /\ Blocks_(file.size) \in Counts

DiscIso(d) ==
  /\ d = [kind |-> "iso", label |-> d.label, torito |-> d.torito, boot_sectors |-> d.boot_sectors, tree |-> d.tree]
  /\ \A p \in DOMAIN d.tree : d.tree[p].lba = 0 \/ d.tree[p].lba \in Counts
  /\ Payload_ \in DOMAIN d.tree => PayloadFits(d.tree[Payload_])

(* What is known of an image before its label is written.                  *)
IsoBuilt(r, d) ==
  d.kind = "iso" /\ Payload_ \in DOMAIN d.tree =>
    /\ r.developer /\ ~r.suffix => d.tree[developer_path(r)].size = r.size
    /\ r.mode = "floppy" => d.boot_sectors # 0

(* What WrappedLabelLeads says of an image that was made by a request.     *)
Led(r, l, tree, boot_sectors) ==
  /\ l[ROOT_OFFSET] \div 256 = 97 => LeadsTo(l, {0}, tree[Payload_].lba)
  /\ size_of(l, PARTITION_A_OFFSET) * 2048 >= tree[Payload_].size
  /\ r.developer =>
       /\ l[FRONT_OFFSET] + base_of(l, PARTITION_B_OFFSET) = tree[developer_path(r)].lba
       /\ r.suffix \/ size_of(l, PARTITION_B_OFFSET) * 2048 >= tree[developer_path(r)].size
       /\ l[ROOT_OFFSET] \div 256 = 98 => LeadsTo(l, {0}, tree[developer_path(r)].lba)
  /\ r.mode = "floppy" => boot_sectors # 0

Leading(r, l) ==
  /\ has_magic(l) /\ r.offset = FRONT_OFFSET /\ r.format = "u16be"
  /\ l[SECTOR_SIZE_OFFSET] = 2048 /\ base_of(l, PARTITION_A_OFFSET) = 0

WrapLeads(r, d) == Leading(r, d.label) => Led(r, d.label, d.tree, d.boot_sectors)

(* What a disk's label says before it is verified.                         *)
DiskLabelled(d) == \E blocks \in Counts : Updated(d.label, d.at, blocks, {})

DiskVerified(d) == d.of.ufs /\ ufs_byte_offset(d.label) = {d.at * 2048}

Stands(pc, r) == assembly = [pc |-> pc, request |-> r]

LabelInv ==
  /\ payload # Blank => PayloadFits(payload)
  /\ template # Blank /\ template.size = LABEL_EXPORT_SIZE => template.label \in Labels
  /\ disc # Blank => disc.kind # "iso" \/ DiscIso(disc)
  /\ \/ assembly.pc \in {"idle", "failed", "extracted"}
     \/ \E r \in Wraps : Stands("label", r) /\ template # Blank /\ IsoBuilt(r, disc) /\ (disc.kind # "iso" \/ DiscIso(disc))
     \/ \E r \in Wraps : (Stands("inspect", r) \/ Stands("wrapped", r)) /\ WrapLeads(r, disc)
     \/ \E r \in Masters : Stands("verify", r) /\ DiskLabelled(disc)
     \/ \E r \in Masters : Stands("mastered", r) /\ DiskLabelled(disc) /\ DiskVerified(disc)

LEMMA LabelStarts == AssemblyInit => LabelInv
  BY DEF AssemblyInit, LabelInv

(* The tools find a file system at a block, and BootE does from sector 0.  *)
ToolsFind(l, at) == ufs_byte_offset(l) = {at * 2048}
BooteFinds(l, at) ==
  l[PARTITION_A_OFFSET + TYPE] = 43 /\ l[SECTOR_SIZE_OFFSET] \in SectorSizes
    => NeXTLabelUFSOffset(l, 0) = {at * 4}

(* A label that says it is block 0 is taken in sector 0 and nowhere else.  *)
LEMMA BooteIsLed ==
  ASSUME NEW l, NEW copies, NEW x, l[6] = 0, NeXTLabelUFSOffset(l, 0) = {x}
  PROVE  newNeXTBVRef([s \in copies |-> l]) = IF 0 \in copies THEN {x} ELSE {}
  <1> DEFINE at == [s \in copies |-> l]
             taken == {s \in LabelSectors \cap copies : NeXTLabelUFSOffset(l, s) # {}}
             first == {t \in taken : \A u \in taken : t <= u}
  <1>1. newNeXTBVRef(at) = UNION {NeXTLabelUFSOffset(l, s) : s \in first}
    <2>1. DOMAIN at = copies /\ \A s \in copies : at[s] = l
      OBVIOUS
    <2>2. {s \in LabelSectors \cap DOMAIN at : NeXTLabelUFSOffset(at[s], s) # {}} = taken
      BY <2>1
    <2>3. {NeXTLabelUFSOffset(at[s], s) : s \in first} = {NeXTLabelUFSOffset(l, s) : s \in first}
      BY <2>1
    <2> HIDE DEF at
    <2> QED
      BY <2>2, <2>3 DEF newNeXTBVRef
  <1>2. ASSUME NEW s, s # 0 PROVE NeXTLabelUFSOffset(l, s) = {}
    BY <1>2 DEF NeXTLabelUFSOffset
  <1>3. taken = IF 0 \in copies THEN {0} ELSE {}
    BY <1>2 DEF LabelSectors
  <1>4. first = taken
    <2> HIDE DEF taken
    <2>1. \A t \in taken : t = 0
      BY <1>3
    <2>2. 0 <= 0
      OBVIOUS
    <2> QED
      BY <2>1, <2>2
  <1>5. CASE 0 \in copies
    <2> HIDE DEF at, first, taken
    <2>1. {NeXTLabelUFSOffset(l, s) : s \in first} = {{x}}
      BY <1>3, <1>4, <1>5
    <2> QED
      BY <1>1, <1>5, <2>1 DEF at
  <1>6. CASE 0 \notin copies
    <2> HIDE DEF at, first, taken
    <2>1. {NeXTLabelUFSOffset(l, s) : s \in first} = {}
      BY <1>3, <1>4, <1>6
    <2> QED
      BY <1>1, <1>6, <2>1 DEF at
  <1> QED
    BY <1>5, <1>6

LEMMA BothFind ==
  ASSUME NEW l, NEW copies, NEW at, l[6] = 0,
         ToolsFind(l, at), l[CHECKSUM_OFFSET] = checksum_v3(l), BooteFinds(l, at)
  PROVE  LeadsTo(l, copies, at)
  <1>1. ASSUME l[PARTITION_A_OFFSET + TYPE] = 43, l[SECTOR_SIZE_OFFSET] \in SectorSizes
        PROVE  newNeXTBVRef([s \in copies |-> l]) = IF 0 \in copies THEN {at * 4} ELSE {}
    <2>1. NeXTLabelUFSOffset(l, 0) = {at * 4}
      BY <1>1 DEF BooteFinds
    <2> QED
      BY <2>1, BooteIsLed
  <1> QED
    BY <1>1 DEF LeadsTo, ToolsFind

(* A label whose sums agree, and whose root partition is at a block.       *)
Sound(l, p, at) ==
  /\ has_magic(l) /\ l[4] = 0 /\ l[6] = 0 /\ l[558] = checksum_v3(l) /\ l[558] = dlV3Checksum(l)
  /\ root_record(l) = {p} /\ (l[226] = 43 => l[p + 34] = 43)
  /\ (l[94] \in SectorSizes => base_of(l, p) # 256 * Word - 1)
  /\ size_of(l, p) \in Counts /\ ToolsFind(l, at)

(* The place of a partition in sectors is where the tools find it, and a   *)
(* label whose sums agree is taken.                                        *)
LEMMA SumLeads ==
  ASSUME NEW l \in Labels, NEW copies, NEW p \in Records, NEW at \in Nat, Sound(l, p, at)
  PROVE  LeadsTo(l, copies, at)
  <1>0. /\ has_magic(l) /\ l[4] = 0 /\ l[6] = 0 /\ l[558] = checksum_v3(l) /\ l[558] = dlV3Checksum(l)
        /\ root_record(l) = {p} /\ (l[226] = 43 => l[p + 34] = 43)
        /\ (l[94] \in SectorSizes => base_of(l, p) # 256 * Word - 1)
        /\ size_of(l, p) \in Counts /\ ToolsFind(l, at)
    BY DEF Sound
  <1>1. l[112] \in Nat /\ l[94] \in Nat /\ base_of(l, p) \in Nat
    <2>1. \A o \in {94, 112, p, p + 2} : o \in Offsets
      BY SummedFacts, SMT DEF Records
    <2>2. \A o \in {94, 112, p, p + 2} : l[o] \in Nat
      BY <2>1, WordFacts, SMT DEF Labels
    <2>3. base_of(l, p) = l[p] * 256 + (l[p + 2] \div 256)
      BY DEF base_of
    <2>4. l[p] \in Nat /\ l[p + 2] \in Nat /\ l[112] \in Nat /\ l[94] \in Nat
      BY <2>2
    <2>5. base_of(l, p) \in Nat
      <3> DEFINE u == l[p]  v == l[p + 2]
      <3>1. u \in Nat /\ v \in Nat
        BY <2>4
      <3>2. base_of(l, p) = u * 256 + (v \div 256)
        BY <2>3
      <3> HIDE DEF u, v
      <3> QED
        BY <3>1, <3>2, SMT
    <2> QED
      BY <2>4, <2>5
  <1>2. (l[112] + base_of(l, p)) * l[94] = at * 2048
    <2> DEFINE places == {(l[FRONT_OFFSET] + base_of(l, r)) * l[SECTOR_SIZE_OFFSET] : r \in {p}}
               value == (l[FRONT_OFFSET] + base_of(l, p)) * l[SECTOR_SIZE_OFFSET]
    <2>1. ufs_byte_offset(l) = places
      BY <1>0 DEF ufs_byte_offset
    <2>4. ufs_byte_offset(l) = {at * 2048}
      BY <1>0 DEF ToolsFind
    <2>2. value \in places
      OBVIOUS
    <2> HIDE DEF places
    <2>3. value = at * 2048
      BY <2>1, <2>2, <2>4
    <2> QED
      BY <2>3 DEF FRONT_OFFSET, SECTOR_SIZE_OFFSET
  <1>3. /\ size_of(l, p) # 0 /\ size_of(l, p) # 16777215
        /\ (l[94] \in SectorSizes => base_of(l, p) # 16777215)
    <2>1. 256 * Word - 2 = 16777214 /\ 256 * Word - 1 = 16777215
      BY WordFacts, SMT
    <2> HIDE DEF Word
    <2> QED
      BY <1>0, <2>1, SMT DEF Counts
  <1>4. ASSUME l[226] = 43, NEW k \in 1..127, l[94] = 512 * k
        PROVE  NeXTLabelUFSOffset(l, 0) = {at * 4}
    <2>1. l[94] # 0 /\ l[94] % 512 = 0 /\ l[94] \div 512 = k
      BY <1>4, SMT
    <2>5. base_of(l, p) # 16777215
      BY <1>3, <1>4, SMT DEF SectorSizes
    <2>2. (l[112] + base_of(l, p)) * (l[94] \div 512) = at * 4
      <3> DEFINE s == l[112] + base_of(l, p)
      <3>1. s \in Int /\ k \in Int
        BY <1>1, <1>4, SMT
      <3>2. s * (512 * k) = at * 2048
        BY <1>2, <1>4
      <3> HIDE DEF s
      <3>3. 512 * (s * k) = at * 2048
        BY <3>1, <3>2, SMT
      <3>4. s * k = at * 4
        <4> DEFINE y == s * k
        <4>1. y \in Int
          BY <3>1, SMT
        <4>2. 512 * y = at * 2048
          BY <3>3
        <4> HIDE DEF y
        <4>3. y = at * 4
          BY <4>1, <4>2, SMT
        <4> QED
          BY <4>3 DEF y
      <3> QED
        BY <2>1, <3>4 DEF s
    <2>3. l[p + 34] = 43
      BY <1>0, <1>4
    <2>4. {r \in root_record(l) :
                 /\ has_magic(l) /\ l[4] = 0 /\ l[6] = 0
                 /\ l[CHECKSUM_OFFSET] = dlV3Checksum(l)
                 /\ base_of(l, r) # 16777215 /\ size_of(l, r) \notin {0, 16777215}
                 /\ l[r + TYPE] = 43
                 /\ l[94] # 0 /\ l[94] % 512 = 0} = {p}
      BY <1>0, <1>3, <2>1, <2>3, <2>5, SMT DEF CHECKSUM_OFFSET, TYPE
    <2> QED
      BY <2>2, <2>4 DEF NeXTLabelUFSOffset, SECTOR_SIZE_OFFSET, FRONT_OFFSET
  <1>5. l[CHECKSUM_OFFSET] = checksum_v3(l)
    BY <1>0 DEF CHECKSUM_OFFSET
  <1>6. ASSUME l[PARTITION_A_OFFSET + TYPE] = 43, l[SECTOR_SIZE_OFFSET] \in SectorSizes
        PROVE  NeXTLabelUFSOffset(l, 0) = {at * 4}
    <2>1. PICK k \in 1..127 : l[SECTOR_SIZE_OFFSET] = 512 * k
      BY <1>6, SMT DEF SectorSizes
    <2>2. l[226] = 43 /\ l[94] = 512 * k
      BY <1>6, <2>1, SMT DEF PARTITION_A_OFFSET, TYPE, SECTOR_SIZE_OFFSET
    <2> QED
      BY <1>4, <2>2
  <1>7. BooteFinds(l, at)
    BY <1>6 DEF BooteFinds
  <1> QED
    BY <1>0, <1>5, <1>7, BothFind

LEMMA PathsDiffer ==
  ASSUME NEW r
  PROVE  /\ developer_path(r) # Payload_
         /\ r.tool = "mkisofs" => <<Named(r, "OPENSTEP42CD")>> # Payload_
         /\ r.tool # "mkisofs" => <<Named(r, "OPENSTEP42CD")>> = Payload_
  <1>1. <<"OPENSTEP">> # <<"OPENSTEP42CD">> /\ <<"OPENSTEP42DEV">> # <<"OPENSTEP42CD">>
    BY SMT
  <1>2. <<"DEVELOPER", "OPENSTEP42DEV">> # <<"OPENSTEP42CD">>
    BY SMT
  <1>3. developer_path(r) \in {<<"DEVELOPER", "OPENSTEP42DEV">>, <<"OPENSTEP">>, <<"OPENSTEP42DEV">>}
    BY DEF developer_path, Named
  <1>4. developer_path(r) # Payload_
    BY <1>1, <1>2, <1>3 DEF Payload_
  <1>5. r.tool = "mkisofs" => <<Named(r, "OPENSTEP42CD")>> # Payload_
    BY <1>1 DEF Payload_, Named
  <1>6. r.tool # "mkisofs" => <<Named(r, "OPENSTEP42CD")>> = Payload_
    BY DEF Payload_, Named
  <1> QED
    BY <1>4, <1>5, <1>6

LEMMA BuiltIsDisc ==
  ASSUME NEW r, r.developer \in BOOLEAN, NEW at \in FilePlaces, NEW dev \in FilePlaces, PayloadFits(payload)
  PROVE  LET d == Built(r, at, dev)
         IN /\ d.kind = "iso" /\ DiscIso(d)
            /\ Payload_ \in DOMAIN d.tree /\ r.developer => d.tree[developer_path(r)].size = r.size
            /\ d.boot_sectors = 0 => hdiutil_only(r) /\ r.mode = "floppy"
  <1> DEFINE d == Built(r, at, dev)
             here == <<Named(r, "OPENSTEP42CD")>>
             paths == {here} \cup (IF r.developer THEN {developer_path(r)} ELSE {})
             file == [lba |-> at, size |-> payload.size, of |-> payload]
             other == [lba |-> dev, size |-> r.size, of |-> "developer"]
             tree == [path \in paths |-> IF path = here THEN file ELSE other]
  <1>1. d = [kind |-> "iso", label |-> Blank, torito |-> TRUE,
             boot_sectors |-> IF hdiutil_only(r) /\ r.mode = "floppy" THEN 0 ELSE 4, tree |-> tree]
    BY DEF Built
  <1>2. (at = 0 \/ at \in Counts) /\ (dev = 0 \/ dev \in Counts)
    BY AssemblyAssumption DEF AssemblyAssumption
  <1>3. DOMAIN tree = paths
    OBVIOUS
  <1>4. \A path \in paths : tree[path] = IF path = here THEN file ELSE other
    OBVIOUS
  <1>5. file.lba = at /\ file.size = payload.size /\ other.lba = dev /\ other.size = r.size
    OBVIOUS
  <1> HIDE DEF tree, file, other, d
  <1>6. ASSUME Payload_ \in paths
        PROVE  here = Payload_ /\ here \in paths
    <2>1. developer_path(r) # Payload_
      BY PathsDiffer
    <2> QED
      BY <1>6, <2>1
  <1>7. r.developer => developer_path(r) \in paths
    OBVIOUS
  <1> HIDE DEF paths, here
  <1>8. \A path \in DOMAIN d.tree : d.tree[path].lba = 0 \/ d.tree[path].lba \in Counts
    BY <1>1, <1>2, <1>3, <1>4, <1>5
  <1>9. Payload_ \in DOMAIN d.tree => PayloadFits(d.tree[Payload_])
    BY <1>1, <1>3, <1>4, <1>5, <1>6 DEF PayloadFits
  <1>10. d = [kind |-> "iso", label |-> d.label, torito |-> d.torito, boot_sectors |-> d.boot_sectors, tree |-> d.tree]
    BY <1>1
  <1>11. ASSUME Payload_ \in DOMAIN d.tree, r.developer
         PROVE  d.tree[developer_path(r)].size = r.size
    <2>1. developer_path(r) # here
      BY <1>1, <1>3, <1>6, <1>11, PathsDiffer
    <2> QED
      BY <1>1, <1>4, <1>5, <1>7, <1>11, <2>1
  <1>12. d.kind = "iso" /\ (d.boot_sectors = 0 => hdiutil_only(r) /\ r.mode = "floppy")
    BY <1>1
  <1> QED
    BY <1>8, <1>9, <1>10, <1>11, <1>12 DEF d, DiscIso

(* What the invariant says of the files and of the command.                *)
FilesFit ==
  /\ payload # Blank => PayloadFits(payload)
  /\ template # Blank /\ template.size = LABEL_EXPORT_SIZE => template.label \in Labels
  /\ disc # Blank => disc.kind # "iso" \/ DiscIso(disc)

Wrapping(r) ==
  \/ Stands("label", r) /\ template # Blank /\ IsoBuilt(r, disc) /\ (disc.kind # "iso" \/ DiscIso(disc))
  \/ Stands("inspect", r) /\ WrapLeads(r, disc)
  \/ Stands("wrapped", r) /\ WrapLeads(r, disc)

Mastering(r) ==
  \/ Stands("verify", r) /\ DiskLabelled(disc)
  \/ Stands("mastered", r) /\ DiskLabelled(disc) /\ DiskVerified(disc)

Stopped == assembly.pc \in {"idle", "failed", "extracted"}

LEMMA LabelInvIs ==
  LabelInv <=> FilesFit /\ (Stopped \/ (\E r \in Wraps : Wrapping(r)) \/ (\E r \in Masters : Mastering(r)))
  BY DEF LabelInv, FilesFit, Wrapping, Mastering, Stopped

LEMMA BuildLeads == FilesFit /\ build_iso_tree => FilesFit' /\ \E r \in Wraps : Wrapping(r)'
  <1> SUFFICES ASSUME FilesFit, build_iso_tree PROVE FilesFit' /\ \E r \in Wraps : Wrapping(r)'
    OBVIOUS
  <1>1. payload # Blank /\ template # Blank /\ PayloadFits(payload)
    BY DEF build_iso_tree, FilesFit
  <1>2. PICK r \in Wraps, at \in FilePlaces :
          \E dev \in IF r.developer THEN FilePlaces \ {at} ELSE {at} :
            /\ Begin("label", r)
            /\ LET built == Built(r, at, dev)
                   there == IF hdiutil_only(r) /\ r.suffix /\ disc # Blank THEN disc ELSE built
               IN disc' = IF hdiutil_only(r) /\ r.mode = "floppy" /\ there.kind = "iso" /\ there.boot_sectors = 0
                          THEN [there EXCEPT !.boot_sectors = 1] ELSE there
    BY DEF build_iso_tree
  <1>3. r.developer \in BOOLEAN
    BY AssemblyAssumption DEF AssemblyAssumption
  <1>4. PICK dev \in FilePlaces :
            /\ Begin("label", r)
            /\ LET built == Built(r, at, dev)
                   there == IF hdiutil_only(r) /\ r.suffix /\ disc # Blank THEN disc ELSE built
               IN disc' = IF hdiutil_only(r) /\ r.mode = "floppy" /\ there.kind = "iso" /\ there.boot_sectors = 0
                          THEN [there EXCEPT !.boot_sectors = 1] ELSE there
    BY <1>2
  <1> DEFINE built == Built(r, at, dev)
             there == IF hdiutil_only(r) /\ r.suffix /\ disc # Blank THEN disc ELSE built
             blind == hdiutil_only(r) /\ r.mode = "floppy" /\ there.kind = "iso" /\ there.boot_sectors = 0
  <1>5. disc' = IF blind THEN [there EXCEPT !.boot_sectors = 1] ELSE there
    BY <1>4
  <1>6. /\ built.kind = "iso" /\ DiscIso(built)
        /\ Payload_ \in DOMAIN built.tree /\ r.developer => built.tree[developer_path(r)].size = r.size
        /\ built.boot_sectors = 0 => hdiutil_only(r) /\ r.mode = "floppy"
    BY <1>1, <1>3, BuiltIsDisc
  <1> HIDE DEF built
  <1>7. there.kind # "iso" \/ DiscIso(there)
    BY <1>6 DEF FilesFit
  <1>8. Payload_ \in DOMAIN there.tree /\ r.developer /\ ~r.suffix => there.tree[developer_path(r)].size = r.size
    BY <1>6
  <1>9. there.kind = "iso" /\ r.mode = "floppy" /\ there.boot_sectors = 0 => hdiutil_only(r)
    BY <1>6
  <1> HIDE DEF there
  <1>10. ASSUME blind PROVE IsoBuilt(r, disc') /\ (disc'.kind # "iso" \/ DiscIso(disc'))
    <2>1. DiscIso(there)
      BY <1>7, <1>10
    <2>2. disc' = [kind |-> "iso", label |-> there.label, torito |-> there.torito, boot_sectors |-> 1, tree |-> there.tree]
      BY <1>5, <1>10, <2>1 DEF DiscIso
    <2>3. DiscIso(disc')
      BY <2>1, <2>2 DEF DiscIso
    <2>4. IsoBuilt(r, disc')
      BY <1>8, <2>2, SMT DEF IsoBuilt
    <2> QED
      BY <2>3, <2>4
  <1>11. ASSUME ~blind PROVE IsoBuilt(r, disc') /\ (disc'.kind # "iso" \/ DiscIso(disc'))
    <2>1. disc' = there
      BY <1>5, <1>11
    <2>2. IsoBuilt(r, there)
      BY <1>8, <1>9, <1>11 DEF IsoBuilt
    <2> QED
      BY <1>7, <2>1, <2>2
  <1>12. IsoBuilt(r, disc') /\ (disc'.kind # "iso" \/ DiscIso(disc'))
    BY <1>10, <1>11
  <1>13. Stands("label", r)' /\ UNCHANGED <<payload, template>>
    BY <1>4 DEF Begin, Stands, build_iso_tree
  <1>14. FilesFit'
    BY <1>12, <1>13 DEF FilesFit, PayloadFits
  <1>15. Wrapping(r)'
    BY <1>1, <1>12, <1>13 DEF Wrapping, IsoBuilt, DiscIso, PayloadFits
  <1> QED
    BY <1>14, <1>15

LEMMA RootRecords ==
  ASSUME NEW l
  PROVE  /\ l[ROOT_OFFSET] \div 256 = 97 => root_record(l) = {192}
         /\ l[ROOT_OFFSET] \div 256 = 98 => root_record(l) = {256}
  BY SMT DEF root_record, PARTITION_A_OFFSET, PARTITION_B_OFFSET

(* One element sets of places.                                             *)
LEMMA RootPlace ==
  ASSUME NEW l, NEW p, root_record(l) = {p}
  PROVE  ufs_byte_offset(l) = {(l[112] + base_of(l, p)) * l[94]}
  <1>1. ufs_byte_offset(l) = {(l[FRONT_OFFSET] + base_of(l, r)) * l[SECTOR_SIZE_OFFSET] : r \in {p}}
    BY DEF ufs_byte_offset
  <1>2. ufs_byte_offset(l) = {(l[FRONT_OFFSET] + base_of(l, p)) * l[SECTOR_SIZE_OFFSET]}
    BY <1>1
  <1> QED
    BY <1>2 DEF FRONT_OFFSET, SECTOR_SIZE_OFFSET

LEMMA BlocksSuffice ==
  ASSUME NEW bytes \in Nat
  PROVE  Blocks_(bytes) * 2048 >= bytes
  BY SMT DEF Blocks_

LEMMA FieldIsNoMagic ==
  ASSUME NEW t \in Labels, NEW blocks, NEW l \in patch_label(t, FRONT_OFFSET, blocks, "u16be"), has_magic(l)
  PROVE  has_magic(t)
  <1>1. l = [t EXCEPT ![112] = blocks]
    BY DEF patch_label, FRONT_OFFSET
  <1>2. 0 \in Offsets /\ 2 \in Offsets /\ DOMAIN t = Offsets
    BY SummedFacts DEF Labels
  <1>3. l[0] = t[0] /\ l[2] = t[2]
    BY <1>1, <1>2, SMT
  <1> QED
    BY <1>3 DEF has_magic, Magic

LEMMA WrapIsLabelled ==
  ASSUME NEW r \in Wraps, NEW d, DiscIso(d), d.kind = "iso", Payload_ \in DOMAIN d.tree, IsoBuilt(r, d),
         template.size = LABEL_EXPORT_SIZE => template.label \in Labels,
         NEW developer,
         developer = IF r.developer
                     THEN IF developer_path(r) \in DOMAIN d.tree THEN {d.tree[developer_path(r)]} ELSE {} ELSE {},
         ~(r.developer /\ developer = {}),
         NEW l \in wrapped_label(r, d.tree[Payload_], developer),
         NEW e, e.label = l, e.tree = d.tree, e.boot_sectors = d.boot_sectors
  PROVE  WrapLeads(r, e)
  <1> SUFFICES ASSUME Leading(r, l)
               PROVE  Led(r, l, d.tree, d.boot_sectors)
    BY DEF WrapLeads
  <1>0. l[94] = 2048 /\ base_of(l, 192) = 0 /\ has_magic(l) /\ r.offset = FRONT_OFFSET /\ r.format = "u16be"
    BY DEF Leading, SECTOR_SIZE_OFFSET, PARTITION_A_OFFSET
  <1> DEFINE file == d.tree[Payload_]
             dev == d.tree[developer_path(r)]
             b == {[base |-> x.lba - file.lba, size |-> Blocks_(r.size)] : x \in developer}
             a_base == IF r.root_kind = "rhapsody-dr2" THEN {0} ELSE {}
             t == template.label
  <1>1. template.size = LABEL_EXPORT_SIZE /\ t \in Labels
    BY DEF wrapped_label
  <1>2. has_magic(t)
    <2> SUFFICES ASSUME ~has_magic(t) PROVE FALSE
      OBVIOUS
    <2>1. l \in patch_label(t, r.offset, file.lba, r.format)
      BY <1>0, <1>1 DEF wrapped_label
    <2> QED
      BY <1>0, <1>1, <2>1, FieldIsNoMagic
  <1>3. l \in update_template(t, file.lba, Blocks_(file.size), b, a_base)
    BY <1>0, <1>1, <1>2 DEF wrapped_label
  <1>4. file.size \in Nat /\ Blocks_(file.size) \in Counts /\ (file.lba = 0 \/ file.lba \in Counts)
    BY DEF DiscIso, PayloadFits
  <1>5. r.size \in Nat /\ Blocks_(r.size) \in Counts
    BY AssemblyAssumption DEF AssemblyAssumption
  <1>6. r.developer => developer = {dev} /\ (dev.lba = 0 \/ dev.lba \in Counts)
    BY DEF DiscIso
  <1>7. ~r.developer => developer = {}
    OBVIOUS
  <1> HIDE DEF file, dev, a_base, t
  <1>8. \A x, y \in b : x = y
    BY <1>6, <1>7
  <1>9. Updated(l, file.lba, Blocks_(file.size), b)
    <2> HIDE DEF b
    <2> QED
      BY <1>1, <1>3, <1>8, TemplateIsUpdated
  <1>10. r.developer => base_of(l, 256) = dev.lba - file.lba /\ size_of(l, 256) = Blocks_(r.size) /\ l[290] = l[226]
    <2> SUFFICES ASSUME r.developer
                 PROVE  base_of(l, 256) = dev.lba - file.lba /\ size_of(l, 256) = Blocks_(r.size) /\ l[290] = l[226]
      OBVIOUS
    <2> DEFINE x == [base |-> dev.lba - file.lba, size |-> Blocks_(r.size)]
    <2>1. x \in b
      <3>1. dev \in developer
        BY <1>6
      <3> QED
        BY <3>1
    <2>2. base_of(l, 256) = x.base /\ size_of(l, 256) = x.size /\ l[290] = l[226]
      <3> HIDE DEF b, x
      <3> QED
        BY <1>9, <2>1 DEF Updated
    <2> QED
      BY <2>2
  <1> HIDE DEF b
  <1>11. /\ l \in Labels /\ l[4] = 0 /\ l[6] = 0
         /\ l[558] = checksum_v3(l) /\ l[558] = dlV3Checksum(l)
         /\ l[112] = file.lba /\ size_of(l, 192) = Blocks_(file.size)
    BY <1>9 DEF Updated
  <1>12. file.lba \in Nat /\ (r.developer => dev.lba \in Nat /\ dev.lba < 256 * Word - 1)
    <2>1. Word = 65536
      BY WordFacts
    <2>2. \A n : n \in Counts => n \in Nat /\ n < 256 * Word - 1
      <3> DEFINE top == 256 * Word
      <3>1. top \in Int
        BY <2>1, SMT
      <3>2. Counts = 1..(top - 2)
        BY DEF Counts
      <3> HIDE DEF top
      <3>3. \A n : n \in Counts => n \in Nat /\ n < top - 1
        BY <3>1, <3>2, SMT
      <3> QED
        BY <3>3 DEF top
    <2>3. 0 < 256 * Word - 1
      <3> HIDE DEF Word
      <3> QED
        BY <2>1, SMT
    <2> QED
      BY <1>4, <1>6, <2>2, <2>3
  <1>13. ASSUME l[ROOT_OFFSET] \div 256 = 97 PROVE LeadsTo(l, {0}, file.lba)
    <2>1. root_record(l) = {192}
      BY <1>13, RootRecords
    <2>2. ToolsFind(l, file.lba)
      <3>1. (l[112] + base_of(l, 192)) * l[94] = file.lba * 2048
        BY <1>0, <1>11, <1>12, SMT
      <3> QED
        BY <2>1, <3>1, RootPlace DEF ToolsFind
    <2>3. base_of(l, 192) # 256 * Word - 1
      BY <1>0, WordFacts, SMT
    <2>4. 192 \in Records /\ size_of(l, 192) \in Counts
      BY <1>4, <1>11 DEF Records
    <2>5. Sound(l, 192, file.lba)
      <3>1. 192 + 34 = 226
        OBVIOUS
      <3> QED
        BY <1>0, <1>11, <2>1, <2>2, <2>3, <2>4, <3>1 DEF Sound
    <2> QED
      BY <1>11, <1>12, <2>4, <2>5, SumLeads
  <1>14. size_of(l, 192) * 2048 >= file.size
    BY <1>4, <1>11, BlocksSuffice
  <1>15. ASSUME r.developer
         PROVE  /\ l[112] + base_of(l, 256) = dev.lba
                /\ r.suffix \/ size_of(l, 256) * 2048 >= dev.size
                /\ l[ROOT_OFFSET] \div 256 = 98 => LeadsTo(l, {0}, dev.lba)
    <2>1. l[112] + base_of(l, 256) = dev.lba
      BY <1>10, <1>11, <1>12, <1>15, SMT
    <2>2. r.suffix \/ size_of(l, 256) * 2048 >= dev.size
      <3>1. ~r.suffix => dev.size = r.size
        BY <1>15 DEF IsoBuilt, dev
      <3> QED
        BY <1>5, <1>10, <1>15, <3>1, BlocksSuffice
    <2>3. ASSUME l[ROOT_OFFSET] \div 256 = 98 PROVE LeadsTo(l, {0}, dev.lba)
      <3>1. root_record(l) = {256}
        BY <2>3, RootRecords
      <3>2. ToolsFind(l, dev.lba)
        <4>1. (l[112] + base_of(l, 256)) * l[94] = dev.lba * 2048
          BY <1>0, <2>1
        <4> QED
          BY <3>1, <4>1, RootPlace DEF ToolsFind
      <3>3. base_of(l, 256) # 256 * Word - 1
        <4>1. 256 * Word - 1 \in Int
          BY WordFacts, SMT
        <4> HIDE DEF Word
        <4> QED
          BY <1>10, <1>12, <1>15, <4>1, SMT
      <3>4. 256 \in Records /\ size_of(l, 256) \in Counts /\ (l[226] = 43 => l[256 + 34] = 43)
        BY <1>5, <1>10, <1>15, SMT DEF Records
      <3>5. Sound(l, 256, dev.lba)
        BY <1>0, <1>11, <3>1, <3>2, <3>3, <3>4 DEF Sound
      <3> QED
        BY <1>11, <1>12, <1>15, <3>4, <3>5, SumLeads
    <2> QED
      BY <2>1, <2>2, <2>3
  <1>16. r.mode = "floppy" => d.boot_sectors # 0
    BY DEF IsoBuilt
  <1> QED
    BY <1>13, <1>14, <1>15, <1>16 DEF file, dev, Led, FRONT_OFFSET, PARTITION_A_OFFSET, PARTITION_B_OFFSET

LEMMA WriteLeads == LabelInv /\ write_label => LabelInv'
  <1> SUFFICES ASSUME LabelInv, write_label PROVE LabelInv'
    OBVIOUS
  <1>1. FilesFit /\ assembly.pc = "label" /\ UNCHANGED <<payload, template>>
    BY LabelInvIs DEF write_label
  <1>2. PICK r \in Wraps : Stands("label", r) /\ template # Blank /\ IsoBuilt(r, disc) /\ (disc.kind # "iso" \/ DiscIso(disc))
    BY <1>1 DEF LabelInv, Stands
  <1>3. assembly.request = r /\ assembly = [pc |-> "label", request |-> r]
    BY <1>2 DEF Stands
  <1> DEFINE developer == IF r.developer THEN iso_path_extent(developer_path(r)) ELSE {}
             labels == UNION {wrapped_label(r, f, developer) : f \in iso_root_extent("OPENSTEP42CD")}
  <1>4. \/ Goto("failed") /\ UNCHANGED disc
        \/ /\ ~(r.developer /\ developer = {}) /\ Goto("inspect")
           /\ \E l \in labels : disc' = [disc EXCEPT !.label = l]
    BY <1>3 DEF write_label
  <1>5. ASSUME Goto("failed"), UNCHANGED disc PROVE LabelInv'
    <2>1. Stopped'
      BY <1>3, <1>5 DEF Goto, Stopped
    <2> QED
      BY <1>1, <1>5, <2>1 DEF LabelInv, FilesFit, PayloadFits, Stopped
  <1>6. ASSUME ~(r.developer /\ developer = {}), Goto("inspect"), NEW l \in labels, disc' = [disc EXCEPT !.label = l]
        PROVE  LabelInv'
    <2>1. PICK file \in iso_root_extent("OPENSTEP42CD") : l \in wrapped_label(r, file, developer)
      BY <1>6
    <2>2. disc.kind = "iso" /\ Payload_ \in DOMAIN disc.tree /\ file = disc.tree[Payload_]
      BY <2>1 DEF iso_root_extent, iso_path_extent, Payload_
    <2>3. DiscIso(disc) /\ PayloadFits(file) /\ (file.lba = 0 \/ file.lba \in Counts)
      BY <1>2, <2>2 DEF DiscIso
    <2>4. /\ disc' = [kind |-> "iso", label |-> l, torito |-> disc.torito,
                      boot_sectors |-> disc.boot_sectors, tree |-> disc.tree]
          /\ DiscIso(disc')
      BY <1>6, <2>3 DEF DiscIso
    <2>5. Stands("inspect", r)'
      BY <1>3, <1>6 DEF Goto, Stands
    <2>6. WrapLeads(r, disc')
      <3>1. template # Blank
        BY <1>2
      <3>2. disc'.label = l /\ disc'.tree = disc.tree /\ disc'.boot_sectors = disc.boot_sectors
        BY <2>4
      <3> QED
        <4>1. developer = IF r.developer
                          THEN IF developer_path(r) \in DOMAIN disc.tree THEN {disc.tree[developer_path(r)]} ELSE {}
                          ELSE {}
          BY <2>2 DEF iso_path_extent
        <4>2. template.size = LABEL_EXPORT_SIZE => template.label \in Labels
          BY <1>1, <3>1 DEF FilesFit
        <4>3. IsoBuilt(r, disc)
          BY <1>2
        <4>4. l \in wrapped_label(r, disc.tree[Payload_], developer)
          BY <2>1, <2>2
        <4>5. ~(r.developer /\ developer = {})
          BY <1>6
        <4> HIDE DEF developer, labels
        <4> QED
          BY <2>2, <2>3, <3>2, <4>1, <4>2, <4>3, <4>4, <4>5, WrapIsLabelled
    <2>7. FilesFit'
      BY <1>1, <2>4 DEF FilesFit, PayloadFits, DiscIso
    <2>8. Wrapping(r)'
      BY <2>5, <2>6 DEF Wrapping, WrapLeads
    <2> QED
      BY <2>7, <2>8 DEF LabelInv, FilesFit, Wrapping
  <1> QED
    BY <1>4, <1>5, <1>6

LEMMA ExtractLeads == LabelInv /\ extract_raw_cd => LabelInv'
  <1> SUFFICES ASSUME LabelInv, extract_raw_cd PROVE LabelInv'
    OBVIOUS
  <1>1. PICK raw \in RawDiscs : \E porch \in {p \in DOMAIN raw.behind : p >= 1 /\ p < raw.size} :
         /\ payload' = raw.behind[porch]
         /\ \/ raw.labels = << >> /\ Begin("failed", raw) /\ UNCHANGED template
            \/ raw.labels # << >> /\ Begin("extracted", raw)
                 /\ template' = [size |-> LABEL_EXPORT_SIZE, label |-> normalized_template(Head(raw.labels))]
    BY DEF extract_raw_cd
  <1>2. payload'.size \in Nat /\ Blocks_(payload'.size) \in Counts
    BY <1>1, AssemblyAssumption DEF AssemblyAssumption
  <1>3. disc' = disc /\ FilesFit
    BY LabelInvIs DEF extract_raw_cd
  <1>4. Stopped'
    BY <1>1 DEF Begin, Stopped
  <1>5. template' = template \/ template'.label \in Labels
    <2> SUFFICES ASSUME template' # template PROVE template'.label \in Labels
      OBVIOUS
    <2> DEFINE l == Head(raw.labels)  k == [l EXCEPT ![4] = 0, ![6] = 0]
    <2>1. raw.labels # << >> /\ template' = [size |-> LABEL_EXPORT_SIZE, label |-> normalized_template(l)]
      BY <1>1
    <2>2. l \in Labels
      BY <2>1, AssemblyAssumption DEF AssemblyAssumption
    <2>3. normalized_template(l) = with_checksum(k)
      BY DEF normalized_template
    <2> HIDE DEF l
    <2>4. 4 \in Offsets /\ 6 \in Offsets
      BY SummedFacts
    <2>5. 0 \in Words
      BY WordFacts, SMT
    <2>6. k \in Labels /\ k[4] = 0 /\ k[6] = 0
      BY <2>2, <2>4, <2>5, SMT DEF Labels
    <2> HIDE DEF k
    <2>7. Alike(with_checksum(k), k, {558})
      BY <2>6, SumIsRight
    <2> QED
      BY <2>1, <2>3, <2>7 DEF Alike
  <1>6. FilesFit'
    BY <1>2, <1>3, <1>5 DEF FilesFit, PayloadFits, DiscIso
  <1> QED
    BY <1>4, <1>6 DEF LabelInv, FilesFit, Stopped

(* What does not touch the files and ends a command, or goes on with it.   *)
LEMMA StopLeads == LabelInv /\ UNCHANGED <<payload, template, disc>> /\ Stopped' => LabelInv'
  BY DEF LabelInv, Stopped, PayloadFits, DiscIso

LEMMA FailLeads == LabelInv /\ (builder_fails \/ kill_assembly) => LabelInv'
  <1> SUFFICES ASSUME LabelInv, builder_fails \/ kill_assembly PROVE LabelInv'
    OBVIOUS
  <1>1. UNCHANGED <<payload, template, disc>>
    BY DEF builder_fails, kill_assembly
  <1>2. Stopped'
    <2>1. CASE builder_fails
      BY <2>1 DEF builder_fails, Begin, Stopped
    <2>2. CASE kill_assembly
      <3>1. assembly.pc \notin {"idle", "failed", "extracted"} /\ Goto("failed")
        BY <2>2 DEF kill_assembly, Settled, Rest
      <3>2. PICK pc, r : Stands(pc, r)
        BY <3>1 DEF LabelInv
      <3> QED
        BY <3>1, <3>2 DEF Stands, Goto, Stopped
    <2> QED
      BY <2>1, <2>2
  <1> QED
    BY <1>1, <1>2, StopLeads

LEMMA BringLeads == LabelInv /\ bring_template => LabelInv'
  <1> SUFFICES ASSUME LabelInv, bring_template PROVE LabelInv'
    OBVIOUS
  <1>1. UNCHANGED <<payload, disc, assembly>> /\ FilesFit /\ assembly.pc # "label"
    BY LabelInvIs DEF bring_template, Settled, Rest
  <1>2. template'.size = LABEL_EXPORT_SIZE => template'.label \in Labels
    BY AssemblyAssumption DEF bring_template, AssemblyAssumption
  <1>3. FilesFit'
    BY <1>1, <1>2 DEF FilesFit, PayloadFits, DiscIso
  <1>4. Stopped \/ (\E r \in Wraps : Wrapping(r)) \/ (\E r \in Masters : Mastering(r))
    BY LabelInvIs
  <1>5. ASSUME NEW r, Wrapping(r) PROVE Wrapping(r)'
    <2>1. (Stands("inspect", r) \/ Stands("wrapped", r)) /\ WrapLeads(r, disc)
      BY <1>1, <1>5 DEF Wrapping, Stands
    <2>2. (Stands("inspect", r) \/ Stands("wrapped", r))'
      BY <1>1, <2>1 DEF Stands
    <2>3. WrapLeads(r, disc')
      BY <1>1, <2>1
    <2> QED
      BY <2>2, <2>3 DEF Wrapping, WrapLeads
  <1>6. ASSUME NEW r, Mastering(r) PROVE Mastering(r)'
    BY <1>1, <1>6 DEF Mastering, DiskLabelled, DiskVerified, Stands
  <1>7. Stopped => Stopped'
    BY <1>1 DEF Stopped
  <1>8. Stopped' \/ (\E r \in Wraps : Wrapping(r)') \/ (\E r \in Masters : Mastering(r)')
    BY <1>4, <1>5, <1>6, <1>7
  <1> QED
    BY <1>3, <1>8 DEF LabelInv, FilesFit, Wrapping, Mastering, Stopped

LEMMA InspectLeads == LabelInv /\ inspect_el_torito => LabelInv'
  <1> SUFFICES ASSUME LabelInv, inspect_el_torito PROVE LabelInv'
    OBVIOUS
  <1>1. UNCHANGED <<payload, template, disc>> /\ assembly.pc = "inspect" /\ FilesFit
    BY LabelInvIs DEF inspect_el_torito
  <1>2. PICK r \in Wraps : Stands("inspect", r) /\ WrapLeads(r, disc)
    BY <1>1 DEF LabelInv, Stands
  <1>3. assembly' = [pc |-> "wrapped", request |-> r] \/ assembly' = [pc |-> "failed", request |-> r]
    BY <1>2 DEF inspect_el_torito, Goto, Stands
  <1>4. CASE assembly' = [pc |-> "failed", request |-> r]
    BY <1>1, <1>4, StopLeads DEF Stopped
  <1>5. CASE assembly' = [pc |-> "wrapped", request |-> r]
    <2>1. WrapLeads(r, disc')
      BY <1>1, <1>2
    <2>2. Wrapping(r)'
      BY <1>5, <2>1 DEF Wrapping, Stands, WrapLeads
    <2>3. FilesFit'
      BY <1>1 DEF FilesFit, PayloadFits, DiscIso
    <2> QED
      BY <2>2, <2>3 DEF LabelInv, FilesFit, Wrapping
  <1> QED
    BY <1>3, <1>4, <1>5

LEMMA MasterLeads == LabelInv /\ master_ufs_disk => LabelInv'
  <1> SUFFICES ASSUME LabelInv, master_ufs_disk PROVE LabelInv'
    OBVIOUS
  <1>1. UNCHANGED <<payload, template>> /\ payload # Blank /\ template # Blank /\ FilesFit
    BY LabelInvIs DEF master_ufs_disk
  <1>2. PICK r \in Masters :
          \/ Begin("failed", r) /\ UNCHANGED disc
          \/ \E l \in (IF template.size = LABEL_EXPORT_SIZE
                       THEN update_template(template.label, r.porch, Blocks_(payload.size), {}, {}) ELSE {}) :
               /\ disc' = [[kind |-> "disk", label |-> l, copies |-> r.source.labels, at |-> r.porch, of |-> payload]
                             EXCEPT !.of = IF r.source.labels = {} THEN Blank ELSE payload]
               /\ Begin(IF r.source.labels = {} THEN "failed" ELSE "verify", r)
    BY DEF master_ufs_disk
  <1>3. CASE Begin("failed", r) /\ UNCHANGED disc
    BY <1>1, <1>3, StopLeads DEF Begin, Stopped
  <1>4. ASSUME template.size = LABEL_EXPORT_SIZE,
               NEW l \in update_template(template.label, r.porch, Blocks_(payload.size), {}, {}),
               disc' = [[kind |-> "disk", label |-> l, copies |-> r.source.labels, at |-> r.porch, of |-> payload]
                          EXCEPT !.of = IF r.source.labels = {} THEN Blank ELSE payload],
               Begin(IF r.source.labels = {} THEN "failed" ELSE "verify", r)
        PROVE  LabelInv'
    <2>1. disc'.kind = "disk" /\ disc'.label = l /\ disc'.at = r.porch
      BY <1>4
    <2>2. template.label \in Labels /\ Blocks_(payload.size) \in Counts
      BY <1>1, <1>4 DEF FilesFit, PayloadFits
    <2>3. Updated(l, r.porch, Blocks_(payload.size), {})
      BY <1>4, <2>2, TemplateIsUpdated
    <2>4. DiskLabelled(disc')
      BY <2>1, <2>2, <2>3 DEF DiskLabelled
    <2>5. FilesFit'
      BY <1>1, <2>1 DEF FilesFit, PayloadFits, DiscIso
    <2>6. Stopped' \/ Mastering(r)'
      BY <1>4, <2>4 DEF Begin, Stopped, Mastering, Stands, DiskLabelled
    <2> QED
      BY <2>5, <2>6 DEF LabelInv, FilesFit, Mastering, Stopped
  <1> QED
    BY <1>2, <1>3, <1>4

LEMMA VerifyLeads == LabelInv /\ verify_disk => LabelInv'
  <1> SUFFICES ASSUME LabelInv, verify_disk PROVE LabelInv'
    OBVIOUS
  <1>1. UNCHANGED <<payload, template, disc>> /\ assembly.pc = "verify" /\ FilesFit
    BY LabelInvIs DEF verify_disk
  <1>2. PICK r \in Masters : Stands("verify", r) /\ DiskLabelled(disc)
    BY <1>1 DEF LabelInv, Stands
  <1>3. \/ assembly' = [pc |-> "mastered", request |-> r] /\ DiskVerified(disc)
        \/ assembly' = [pc |-> "failed", request |-> r]
    BY <1>2 DEF verify_disk, Goto, Stands, DiskVerified
  <1>4. CASE assembly' = [pc |-> "failed", request |-> r]
    BY <1>1, <1>4, StopLeads DEF Stopped
  <1>5. CASE assembly' = [pc |-> "mastered", request |-> r] /\ DiskVerified(disc)
    <2>1. DiskLabelled(disc') /\ DiskVerified(disc')
      BY <1>1, <1>2, <1>5
    <2>2. Mastering(r)'
      BY <1>5, <2>1 DEF Mastering, Stands, DiskLabelled, DiskVerified
    <2>3. FilesFit'
      BY <1>1 DEF FilesFit, PayloadFits, DiscIso
    <2> QED
      BY <2>2, <2>3 DEF LabelInv, FilesFit, Mastering
  <1> QED
    BY <1>3, <1>4, <1>5

LEMMA LabelSteps == LabelInv /\ [AssemblyNext]_assemblyVars => LabelInv'
  <1> SUFFICES ASSUME LabelInv, [AssemblyNext]_assemblyVars PROVE LabelInv'
    OBVIOUS
  <1>1. CASE build_iso_tree
    BY <1>1, BuildLeads, LabelInvIs DEF LabelInv, FilesFit, Wrapping
  <1>2. CASE UNCHANGED assemblyVars
    BY <1>2 DEF assemblyVars, LabelInv, PayloadFits, DiscIso, Stands, IsoBuilt, WrapLeads, Leading, Led, LeadsTo,
                DiskLabelled, DiskVerified
  <1> QED
    BY <1>1, <1>2, ExtractLeads, FailLeads, BringLeads, InspectLeads, MasterLeads, VerifyLeads, WriteLeads
    DEF AssemblyNext

(* What LabelsLead says of the commands at rest.                           *)
LEMMA LabelInvLeads == LabelInv => LabelsLead
  <1> SUFFICES ASSUME LabelInv PROVE LabelsLead
    OBVIOUS
  <1>1. ASSUME assembly.pc = "wrapped", has_magic(disc.label)
        PROVE  WrappedLabelLeads
    <2>1. PICK r \in Wraps : Stands("wrapped", r) /\ WrapLeads(r, disc)
      BY <1>1 DEF LabelInv, Stands
    <2>2. assembly.request = r
      BY <2>1 DEF Stands
    <2>3. Leading(r, disc.label) => Led(r, disc.label, disc.tree, disc.boot_sectors)
      BY <2>1 DEF WrapLeads
    <2> QED
      BY <1>1, <2>2, <2>3 DEF WrappedLabelLeads, Leading, Led, Payload_
  <1>2. ASSUME assembly.pc = "mastered"
        PROVE  MasteredLabelLeads
    <2>1. DiskLabelled(disc) /\ DiskVerified(disc)
      BY <1>2 DEF LabelInv, Stands
    <2>2. PICK blocks \in Counts : Updated(disc.label, disc.at, blocks, {})
      BY <2>1 DEF DiskLabelled
    <2> DEFINE l == disc.label
    <2>3. ASSUME l[ROOT_OFFSET] \div 256 = 97 PROVE LeadsTo(l, disc.copies, disc.at)
      <3>1. root_record(l) = {192} /\ 192 \in Records
        BY <2>3, RootRecords DEF Records
      <3>2. ToolsFind(l, disc.at)
        BY <2>1 DEF DiskVerified, ToolsFind
      <3>3. /\ l \in Labels /\ has_magic(l) /\ l[4] = 0 /\ l[6] = 0 /\ l[112] = disc.at /\ disc.at \in Words
            /\ l[558] = checksum_v3(l) /\ l[558] = dlV3Checksum(l) /\ size_of(l, 192) = blocks
        BY <2>2 DEF Updated
      <3>4. disc.at \in Nat /\ disc.at < 65536
        BY <3>3, WordFacts, SMT
      <3> HIDE DEF l
      <3>5. l[94] \in SectorSizes => base_of(l, 192) # 256 * Word - 1
        <4> DEFINE b == base_of(l, 192)
        <4>1. 192 \in Offsets /\ 194 \in Offsets
          BY SummedFacts
        <4>2. b \in Nat
          <5> DEFINE u == l[192]  v == l[192 + 2]
          <5>1. u \in Nat /\ v \in Nat
            BY <3>3, <4>1, WordFacts, SMT DEF Labels
          <5>2. b = u * 256 + (v \div 256)
            BY DEF base_of
          <5> HIDE DEF u, v, b
          <5> QED
            BY <5>1, <5>2, SMT
        <4>3. (l[112] + b) * l[94] = disc.at * 2048
          <5>1. ufs_byte_offset(l) = {(l[112] + b) * l[94]}
            BY <3>1, RootPlace
          <5> HIDE DEF b
          <5> QED
            BY <3>2, <5>1 DEF ToolsFind
        <4> HIDE DEF b
        <4>4. ASSUME NEW k \in 1..127, l[94] = 512 * k PROVE b < 200000
          <5> DEFINE x == disc.at + b
          <5>1. x \in Nat /\ x * (512 * k) = disc.at * 2048
            BY <3>3, <3>4, <4>2, <4>3, <4>4
          <5>2. b = x - disc.at
            BY <3>4, <4>2
          <5> HIDE DEF x
          <5>3. x * k = disc.at * 4
            <6> DEFINE y == x * k
            <6>1. y \in Int
              BY <4>4, <5>1, SMT
            <6>2. 512 * y = disc.at * 2048
              BY <4>4, <5>1, SMT
            <6> HIDE DEF y
            <6>3. y = disc.at * 4
              BY <3>4, <6>1, <6>2, SMT
            <6> QED
              BY <6>3 DEF y
          <5>4. x * k >= x
            <6>1. k - 1 \in Nat /\ k = (k - 1) + 1
              BY <4>4, SMT
            <6>2. x * (k - 1) >= 0
              BY <5>1, <6>1, SMT
            <6>3. x * k = x * (k - 1) + x
              BY <5>1, <6>1, SMT
            <6> QED
              BY <4>4, <5>1, <6>2, <6>3, SMT
          <5> QED
            BY <3>4, <5>1, <5>2, <5>3, <5>4, SMT
        <4>5. 256 * Word - 1 = 16777215
          BY WordFacts, SMT
        <4>6. l[94] \in SectorSizes => \E k \in 1..127 : l[94] = 512 * k
          BY SMT DEF SectorSizes
        <4>7. l[94] \in SectorSizes => b < 200000
          BY <4>4, <4>6
        <4> QED
          BY <4>2, <4>5, <4>7, SMT DEF b
      <3>6. Sound(l, 192, disc.at)
        BY <2>2, <3>1, <3>2, <3>3, <3>5 DEF Sound
      <3> QED
        BY <3>1, <3>3, <3>4, <3>6, SumLeads
    <2> QED
      BY <2>1, <2>3 DEF MasteredLabelLeads, DiskVerified
  <1> QED
    BY <1>1, <1>2 DEF LabelsLead, WrappedLabelLeads, MasteredLabelLeads

(* The label of a finished disc leads the tools to the file system, and    *)
(* BootE, which sums it up with a procedure of its own, just when the disc *)
(* has a copy in sector 0: for any templates, discs and requests, places   *)
(* of the files and builders, after any runs.                              *)
THEOREM LabelsLeadSomewhere == Spec => []LabelsLead
  <1>1. AssemblySpec => []LabelInv
    BY LabelStarts, LabelSteps, PTL DEF AssemblySpec
  <1>2. Init => AssemblyInit
    BY DEF Init
  <1>3. [Next]_hostVars => [AssemblyNext]_assemblyVars
    BY DEF Next, hostVars, assemblyVars
  <1>4. Spec => AssemblySpec
    BY <1>2, <1>3, PTL DEF Spec, AssemblySpec
  <1> QED
    BY <1>1, <1>4, LabelInvLeads, PTL

(***************************************************************************)
(* Preparing the sources: every run makes what the first one made.         *)
(***************************************************************************)
SourceSpec == SourceInit /\ [][SourceNext]_sourceVars

Tracked == DOMAIN Pinned \cup DOMAIN Restored \cup Overlay

(* The tree before the patches, of the first undisturbed run.              *)
Enabled(f) == Each(Restored[f], "#if 0", <<"#if 1">>)

Unpatched ==
  [f \in Tracked |-> IF f \in Overlay THEN <<"overlay">>
                     ELSE IF f \in DOMAIN Restored THEN Enabled(f) ELSE Pinned[f]]

(* What a patch makes of a tree.                                           *)
Makes(before, p, after) ==
  \E text \in EditAll(before[p.file], p.edits) : after = [before EXCEPT ![p.file] = text]

(* The trees of a first run after each of its first n patches.             *)
FirstRun(trees, n) ==
  /\ trees = [i \in 0..n |-> trees[i]]
  /\ trees[0] = Unpatched
  /\ \A i \in 1..n : Makes(trees[i - 1], Patches[i], trees[i])

Reached(tree, n) == \E trees : FirstRun(trees, n) /\ trees[n] = tree

(* No edit of a first run fails to find its place.                         *)
PatchesApply ==
  \A n \in 1..Len(Patches) : \A tree :
    Reached(tree, n - 1) => EditAll(tree[Patches[n].file], Patches[n].edits) # {}

(* The first run makes what it should.                                     *)
FirstIsPatched == \A tree : Reached(tree, Len(Patches)) => Patched(tree)

LEMMA PatchesAreSequence == Len(Patches) \in Nat /\ Patches = [i \in 1..Len(Patches) |-> Patches[i]]
  <1> DEFINE text(file, its) == [file |-> file, edits |-> its]
             a == <<text("libsaio/Makefile", libsaio_Makefile), text("memory.h", memory_h),
                    text("boot2/Makefile", boot2_Makefile), text("cdboot.s", cdboot_s)>>
             b == [i \in DOMAIN Boot1 |-> text(Boot1[i], boot1_s)]
             c == <<text("boot.c", boot_c), text("boot2.s", boot2_s), text("disk.c", disk_c),
                    text("ufs_byteorder.h", ufs_byteorder_h), text("ufs.c", ufs_c),
                    text("modules/Makefile", modules_Makefile), text("boot2/Makefile", boot2_Makefile_again),
                    text("Make.rules", Make_rules), text("prompt.c", prompt_c)>>
             S == {a[i] : i \in 1..4} \cup {b[i] : i \in 1..4} \cup {c[i] : i \in 1..9}
  <1>1. Patches = (a \o b) \o c
    BY DEF Patches
  <1>2. a = [i \in 1..4 |-> a[i]] /\ c = [i \in 1..9 |-> c[i]]
    OBVIOUS
  <1>3. b = [i \in 1..4 |-> b[i]]
    <2>1. DOMAIN Boot1 = 1..4
      BY DEF Boot1
    <2> QED
      BY <2>1
  <1> HIDE DEF a, b, c
  <1>4. a \in Seq(S) /\ b \in Seq(S) /\ c \in Seq(S)
    <2>1. \A i \in 1..4 : a[i] \in S /\ b[i] \in S
      OBVIOUS
    <2>2. \A i \in 1..9 : c[i] \in S
      OBVIOUS
    <2> HIDE DEF S
    <2> QED
      BY <1>2, <1>3, <2>1, <2>2
  <1> HIDE DEF S
  <1>5. Patches \in Seq(S)
    <2>1. a \o b \in Seq(S)
      BY <1>4
    <2> QED
      BY <1>1, <1>4, <2>1
  <1> QED
    BY <1>5

(* A first run goes on.                                                    *)
LEMMA RunGoesOn ==
  ASSUME NEW n \in 1..Len(Patches), NEW before, Reached(before, n - 1), NEW after, Makes(before, Patches[n], after)
  PROVE  Reached(after, n)
  <1>1. n \in Nat /\ n >= 1
    BY PatchesAreSequence
  <1>2. PICK trees : FirstRun(trees, n - 1) /\ trees[n - 1] = before
    BY DEF Reached
  <1> DEFINE more == [i \in 0..n |-> IF i = n THEN after ELSE trees[i]]
  <1>3. more[n] = after /\ more[0] = Unpatched /\ more = [i \in 0..n |-> more[i]]
    BY <1>1, <1>2 DEF FirstRun
  <1>4. \A i \in 1..n : Makes(more[i - 1], Patches[i], more[i])
    <2> SUFFICES ASSUME NEW i \in 1..n PROVE Makes(more[i - 1], Patches[i], more[i])
      OBVIOUS
    <2>1. CASE i = n
      <3>1. more[i - 1] = before /\ more[i] = after
        BY <1>1, <1>2, <2>1
      <3> QED
        BY <2>1, <3>1
    <2>2. CASE i # n
      <3>1. i \in 1..(n - 1) /\ more[i - 1] = trees[i - 1] /\ more[i] = trees[i]
        BY <1>1, <2>2
      <3> QED
        BY <1>2, <3>1 DEF FirstRun
    <2> QED
      BY <2>1, <2>2
  <1> HIDE DEF more
  <1>5. FirstRun(more, n)
    BY <1>3, <1>4 DEF FirstRun
  <1> QED
    BY <1>3, <1>5 DEF Reached

LEMMA RunBegins == Reached(Unpatched, 0)
  <1> DEFINE trees == [i \in 0..0 |-> Unpatched]
  <1>1. trees[0] = Unpatched /\ trees = [i \in 0..0 |-> trees[i]]
    OBVIOUS
  <1> HIDE DEF trees
  <1>2. FirstRun(trees, 0)
    BY <1>1 DEF FirstRun
  <1> QED
    BY <1>1, <1>2 DEF Reached

(* A work tree that has the texts of a tree, and maybe more.               *)
Holds(w, tree) == \A f \in DOMAIN tree : f \in DOMAIN w /\ w[f] = tree[f]

(* What is left to do after the first n patches.                           *)
Remains(todo, n) ==
  /\ todo \in Seq({Patches[i] : i \in 1..Len(Patches)})
  /\ n \in 0..Len(Patches) /\ Len(todo) = Len(Patches) - n
  /\ \A i \in 1..Len(todo) : todo[i] = Patches[n + i]

Ready_(f) == IF f \in DOMAIN Restored THEN Enabled(f) ELSE Pinned[f]

PrepareInv ==
  /\ prepare.pc \in {"idle", "clone", "commit", "reset", "checkout", "enable", "overlay", "patch", "prepared", "failed"}
  /\ prepare.pc \notin {"idle", "failed"} => prepare = [pc |-> prepare.pc, todo |-> prepare.todo]
  /\ prepare.pc \in {"clone", "commit", "reset", "checkout", "enable", "overlay"} => prepare.todo = Patches
  /\ prepare.pc = "checkout" => Holds(worktree, Pinned)
  /\ prepare.pc = "enable" =>
       \A f \in DOMAIN Pinned \cup DOMAIN Restored :
         f \in DOMAIN worktree /\ worktree[f] = IF f \in DOMAIN Restored THEN Restored[f] ELSE Pinned[f]
  /\ prepare.pc = "overlay" =>
       \A f \in DOMAIN Pinned \cup DOMAIN Restored : f \in DOMAIN worktree /\ worktree[f] = Ready_(f)
  /\ prepare.pc = "patch" =>
       \E n, tree : Remains(prepare.todo, n) /\ Reached(tree, n) /\ DOMAIN tree = Tracked /\ Holds(worktree, tree)
  /\ prepare.pc = "prepared" =>
       \E tree : Reached(tree, Len(Patches)) /\ DOMAIN tree = Tracked /\ Holds(worktree, tree)
  /\ prepare.pc = "failed" /\ PatchesApply => prepare.why # "match"

LEMMA PrepareStarts == SourceInit => PrepareInv
  BY DEF SourceInit, PrepareInv

LEMMA Puts ==
  ASSUME NEW files, Put(files)
  PROVE  /\ \A f \in DOMAIN files : f \in DOMAIN worktree' /\ worktree'[f] = files[f]
         /\ \A f \in DOMAIN worktree \ DOMAIN files : f \in DOMAIN worktree' /\ worktree'[f] = worktree[f]
  BY DEF Put

(* A run that ends or has not touched the tree.                            *)
Early(k) ==
  \/ k.pc = "idle" \/ (k.pc = "failed" /\ k.why # "match")
  \/ k.pc \in {"clone", "commit", "reset"} /\ k = [pc |-> k.pc, todo |-> k.todo] /\ k.todo = Patches

LEMMA EarlyKeeps == Early(prepare') => PrepareInv'
  BY DEF Early, PrepareInv

LEMMA BeginKeeps ==
  PrepareInv /\ (start \/ git_clone \/ git_fetch \/ offline \/ kill_prepare \/ edit_tree) => PrepareInv'
  <1> SUFFICES ASSUME PrepareInv, start \/ git_clone \/ git_fetch \/ offline \/ kill_prepare \/ edit_tree
               PROVE  Early(prepare')
    BY EarlyKeeps
  <1>1. CASE start
    BY <1>1 DEF start, Early
  <1>2. CASE git_clone
    BY <1>2 DEF git_clone, Doing, To, Early, PrepareInv
  <1>3. CASE git_fetch
    BY <1>3 DEF git_fetch, Doing, To, Early, PrepareInv
  <1>4. CASE offline
    BY <1>4 DEF offline, Fail, Early
  <1>5. CASE kill_prepare
    BY <1>5 DEF kill_prepare, Fail, Early
  <1>6. CASE edit_tree
    BY <1>6 DEF edit_tree, Early
  <1> QED
    BY <1>1, <1>2, <1>3, <1>4, <1>5, <1>6

LEMMA ResetKeeps == PrepareInv /\ git_reset => PrepareInv'
  <1> SUFFICES ASSUME PrepareInv, git_reset PROVE PrepareInv'
    OBVIOUS
  <1>1. prepare' = [pc |-> "checkout", todo |-> Patches]
    BY DEF git_reset, Doing, To, PrepareInv
  <1>2. Holds(worktree', Pinned)
    BY Puts DEF git_reset, Holds
  <1> QED
    BY <1>1, <1>2 DEF PrepareInv, Holds

LEMMA CheckoutKeeps == PrepareInv /\ git_checkout => PrepareInv'
  <1> SUFFICES ASSUME PrepareInv, git_checkout PROVE PrepareInv'
    OBVIOUS
  <1>1. prepare' = [pc |-> "enable", todo |-> Patches] /\ Holds(worktree, Pinned)
    BY DEF git_checkout, Doing, To, PrepareInv
  <1>2. \A f \in DOMAIN Pinned \cup DOMAIN Restored :
          f \in DOMAIN worktree' /\ worktree'[f] = IF f \in DOMAIN Restored THEN Restored[f] ELSE Pinned[f]
    BY <1>1, Puts DEF git_checkout, Holds
  <1> QED
    BY <1>1, <1>2 DEF PrepareInv

LEMMA EnableKeeps == PrepareInv /\ enable => PrepareInv'
  <1> SUFFICES ASSUME PrepareInv, enable PROVE PrepareInv'
    OBVIOUS
  <1>1. prepare' = [pc |-> "overlay", todo |-> Patches]
    BY DEF enable, Doing, To, PrepareInv
  <1>2. \A f \in DOMAIN Pinned \cup DOMAIN Restored :
          f \in DOMAIN worktree /\ worktree[f] = IF f \in DOMAIN Restored THEN Restored[f] ELSE Pinned[f]
    BY DEF enable, Doing, PrepareInv
  <1> DEFINE files == [f \in DOMAIN Restored |-> Each(worktree[f], "#if 0", <<"#if 1">>)]
  <1>3. Put(files)
    BY DEF enable
  <1>4. DOMAIN files = DOMAIN Restored /\ \A f \in DOMAIN Restored : files[f] = Enabled(f)
    BY <1>2 DEF Enabled
  <1> HIDE DEF files
  <1>5. \A f \in DOMAIN Pinned \cup DOMAIN Restored : f \in DOMAIN worktree' /\ worktree'[f] = Ready_(f)
    BY <1>2, <1>3, <1>4, Puts DEF Ready_
  <1> QED
    BY <1>1, <1>5 DEF PrepareInv, Ready_, Enabled

LEMMA OverlayKeeps == PrepareInv /\ copy_overlay => PrepareInv'
  <1> SUFFICES ASSUME PrepareInv, copy_overlay PROVE PrepareInv'
    OBVIOUS
  <1>1. prepare' = [pc |-> "patch", todo |-> Patches]
    BY DEF copy_overlay, Doing, To, PrepareInv
  <1>2. \A f \in DOMAIN Pinned \cup DOMAIN Restored : f \in DOMAIN worktree /\ worktree[f] = Ready_(f)
    BY DEF copy_overlay, Doing, PrepareInv
  <1> DEFINE files == [f \in Overlay |-> <<"overlay">>]
  <1>3. Put(files)
    BY DEF copy_overlay
  <1>4. DOMAIN files = Overlay /\ \A f \in Overlay : files[f] = <<"overlay">>
    OBVIOUS
  <1> HIDE DEF files
  <1>5. DOMAIN Unpatched = Tracked /\ \A f \in Tracked : Unpatched[f] = IF f \in Overlay THEN <<"overlay">> ELSE Ready_(f)
    BY DEF Unpatched, Ready_
  <1>6. Holds(worktree', Unpatched)
    BY <1>2, <1>3, <1>4, <1>5, Puts DEF Holds, Tracked
  <1>7. Remains(Patches, 0)
    BY PatchesAreSequence DEF Remains
  <1>8. \E n, tree : Remains(Patches, n) /\ Reached(tree, n) /\ DOMAIN tree = Tracked /\ Holds(worktree', tree)
    BY <1>5, <1>6, <1>7, RunBegins
  <1> QED
    BY <1>1, <1>8 DEF PrepareInv, Holds

LEMMA HeadRemains ==
  ASSUME NEW todo, NEW n, Remains(todo, n), todo # << >>
  PROVE  Head(todo) = Patches[n + 1] /\ n + 1 \in 1..Len(Patches) /\ Remains(Tail(todo), n + 1)
  <1>1. Len(Patches) \in Nat
    BY PatchesAreSequence
  <1>2. Len(todo) > 0 /\ Head(todo) = todo[1] /\ Len(Tail(todo)) = Len(todo) - 1
        /\ \A i \in 1..(Len(todo) - 1) : Tail(todo)[i] = todo[i + 1]
    BY DEF Remains
  <1>3. Tail(todo) \in Seq({Patches[i] : i \in 1..Len(Patches)})
    BY DEF Remains
  <1>4. \A i \in 1..(Len(todo) - 1) : i + 1 \in 1..Len(todo) /\ n + (i + 1) = (n + 1) + i
    BY <1>1, <1>2 DEF Remains
  <1>5. Head(todo) = Patches[n + 1] /\ n + 1 \in 1..Len(Patches)
    BY <1>1, <1>2 DEF Remains
  <1> QED
    BY <1>1, <1>2, <1>3, <1>4, <1>5 DEF Remains

LEMMA PatchKeeps == PrepareInv /\ patch_text => PrepareInv'
  <1> SUFFICES ASSUME PrepareInv, patch_text PROVE PrepareInv'
    OBVIOUS
  <1> DEFINE todo == prepare.todo  p == Head(todo)
  <1>1. prepare = [pc |-> "patch", todo |-> todo] /\ todo # << >>
    BY DEF patch_text, Doing, PrepareInv
  <1>2. PICK n, tree : Remains(todo, n) /\ Reached(tree, n) /\ DOMAIN tree = Tracked /\ Holds(worktree, tree)
    BY <1>1 DEF PrepareInv
  <1>3. p = Patches[n + 1] /\ n + 1 \in 1..Len(Patches) /\ Remains(Tail(todo), n + 1)
    BY <1>1, <1>2, HeadRemains
  <1>4. (n + 1) - 1 = n
    BY <1>2, PatchesAreSequence DEF Remains
  <1>5. p.file \in Tracked
    BY <1>3, PatchesAreSequence, SourceAssumption DEF SourceAssumption, Tracked
  <1>6. worktree[p.file] = tree[p.file]
    BY <1>2, <1>5 DEF Holds
  <1>7. CASE EditAll(worktree[p.file], p.edits) = {} /\ Fail("match")
    <2>1. ~PatchesApply
      BY <1>2, <1>3, <1>4, <1>6, <1>7 DEF PatchesApply
    <2>2. prepare' = [pc |-> "failed", why |-> "match"]
      BY <1>7 DEF Fail
    <2>3. ~PatchesApply'
      BY <2>1 DEF PatchesApply, Reached, FirstRun, Makes, Unpatched, Tracked, Enabled
    <2> QED
      BY <2>2, <2>3 DEF PrepareInv, PatchesApply, Reached, FirstRun, Makes, Unpatched, Tracked, Enabled
  <1>8. ASSUME NEW text \in EditAll(worktree[p.file], p.edits),
               Put(Only(p.file, text)), prepare' = [prepare EXCEPT !.todo = Tail(@)]
        PROVE  PrepareInv'
    <2> DEFINE after == [tree EXCEPT ![p.file] = text]
    <2>1. prepare' = [pc |-> "patch", todo |-> Tail(todo)]
      <3> HIDE DEF todo, p
      <3> QED
        BY <1>1, <1>8
    <2>2. Makes(tree, p, after)
      BY <1>6, <1>8 DEF Makes
    <2>3. DOMAIN after = Tracked /\ \A f \in Tracked : after[f] = IF f = p.file THEN text ELSE tree[f]
      BY <1>2, <1>5
    <2>4. DOMAIN Only(p.file, text) = {p.file} /\ Only(p.file, text)[p.file] = text
      BY DEF Only
    <2> HIDE DEF after, p, todo
    <2>5. Holds(worktree', after)
      BY <1>2, <1>8, <2>3, <2>4, Puts DEF Holds
    <2>6. Reached(after, n + 1)
      BY <1>2, <1>3, <1>4, <2>2, RunGoesOn
    <2>7. \E m, t : Remains(Tail(todo), m) /\ Reached(t, m) /\ DOMAIN t = Tracked /\ Holds(worktree', t)
      BY <1>3, <2>3, <2>5, <2>6
    <2> QED
      BY <2>1, <2>7 DEF PrepareInv, Holds
  <1> QED
    BY <1>7, <1>8 DEF patch_text

LEMMA VersionKeeps == PrepareInv /\ write_version => PrepareInv'
  <1> SUFFICES ASSUME PrepareInv, write_version PROVE PrepareInv'
    OBVIOUS
  <1>1. prepare' = [pc |-> "prepared", todo |-> prepare.todo] /\ prepare.todo = << >>
    BY DEF write_version, Doing, To, PrepareInv
  <1>2. PICK n, tree : Remains(prepare.todo, n) /\ Reached(tree, n) /\ DOMAIN tree = Tracked /\ Holds(worktree, tree)
    BY DEF write_version, Doing, PrepareInv
  <1>3. n = Len(Patches)
    BY <1>1, <1>2, PatchesAreSequence DEF Remains
  <1>4. DOMAIN Only("vers.h", <<"5.0.133">>) = {"vers.h"} /\ "vers.h" \notin Tracked
    BY SourceAssumption DEF Only, SourceAssumption, Tracked
  <1>5. Holds(worktree', tree)
    BY <1>2, <1>4, Puts DEF Holds, write_version
  <1>6. \E t : Reached(t, Len(Patches)) /\ DOMAIN t = Tracked /\ Holds(worktree', t)
    BY <1>2, <1>3, <1>5
  <1> QED
    BY <1>1, <1>6 DEF PrepareInv, Holds

LEMMA PrepareSteps == PrepareInv /\ [SourceNext]_sourceVars => PrepareInv'
  <1>1. PrepareInv /\ UNCHANGED sourceVars => PrepareInv'
    BY DEF sourceVars, PrepareInv, Holds
  <1> QED
    BY <1>1, BeginKeeps, ResetKeeps, CheckoutKeeps, EnableKeeps, OverlayKeeps, PatchKeeps, VersionKeeps DEF SourceNext

LEMMA SourcesAlone == Spec => []PrepareInv
  <1>1. SourceSpec => []PrepareInv
    BY PrepareStarts, PrepareSteps, PTL DEF SourceSpec
  <1>2. Init => SourceInit
    BY DEF Init
  <1>3. [Next]_hostVars => [SourceNext]_sourceVars
    BY DEF Next, hostVars, sourceVars
  <1>4. Spec => SourceSpec
    BY <1>2, <1>3, PTL DEF Spec, SourceSpec
  <1> QED
    BY <1>1, <1>4, PTL

(* Where the edits of a first, undisturbed run find their places, those of *)
(* every later run do, for any texts and overlay: whatever was killed, cut *)
(* short or edited by a user before.                                       *)
THEOREM EditsFindTheirPlaces ==
  ASSUME PatchesApply
  PROVE  Spec => []OnlyTroubleFails
  <1>1. PrepareInv => OnlyTroubleFails
    BY DEF PrepareInv, OnlyTroubleFails
  <1> QED
    BY <1>1, SourcesAlone, PTL

LEMMA SamePatched ==
  ASSUME NEW tree, NEW w, Patched(tree), \A f \in DOMAIN Pinned : w[f] = tree[f]
  PROVE  Patched(w)
  BY DEF Patched

(* If a first run makes a tree that is patched, then every run that says   *)
(* it prepared the sources has made one: the same, text for text.          *)
THEOREM PreparedAsTheFirst ==
  ASSUME FirstIsPatched
  PROVE  Spec => []PreparedIsPatched
  <1>1. PrepareInv => PreparedIsPatched
    <2> SUFFICES ASSUME PrepareInv, prepare.pc = "prepared" PROVE Patched(worktree)
      BY DEF PreparedIsPatched
    <2>1. PICK tree : Reached(tree, Len(Patches)) /\ DOMAIN tree = Tracked /\ Holds(worktree, tree)
      BY DEF PrepareInv
    <2>2. Patched(tree)
      BY <2>1 DEF FirstIsPatched
    <2>3. \A f \in DOMAIN Pinned : worktree[f] = tree[f]
      BY <2>1 DEF Holds, Tracked
    <2> QED
      BY <2>2, <2>3, SamePatched
  <1> QED
    BY <1>1, SourcesAlone, PTL
(***************************************************************************)
(* The reader: what it finds is what newfs and the kernel put there.       *)
(***************************************************************************)
LEMMA Division ==
  ASSUME NEW a \in Nat, NEW b \in Nat \ {0}
  PROVE  /\ a \div b \in 0..a /\ a % b \in 0..(b - 1)
         /\ a = (a \div b) * b + (a % b)
  <1>1. a % b \in 0..(b - 1) /\ a = b * (a \div b) + (a % b)
    BY SMT
  <1>2. a \div b \in Int
    BY SMT
  <1>3. a \div b >= 0
    BY <1>1, <1>2, SMT
  <1>4. a \div b <= a
    BY <1>1, <1>2, <1>3, SMT
  <1> QED
    BY <1>1, <1>2, <1>3, <1>4

LEMMA InodeIsRead ==
  ASSUME NEW v, IsVolume(v), NEW n \in v.nodes
  PROVE  \E i : read_inode(v, n.ino) = {i} /\ IsInode(i, n)
  <1> DEFINE sb == v.sb  c == n.ino \div sb.ipg  index == n.ino % sb.ipg
             k == index \div sb.inopb  r == index % sb.inopb
  <1>1. /\ sb.ipg \in Nat \ {0} /\ sb.inopb \in Nat \ {0}
        /\ HasInode(v, n) /\ n.ino \in Nat
    BY DEF IsVolume, IsGeometry, HasInode
  <1>2. /\ c \in 0..n.ino /\ index \in 0..(sb.ipg - 1)
        /\ n.ino = c * sb.ipg + index
    BY <1>1, Division
  <1> HIDE DEF c, index
  <1>3. index \in Nat
    BY <1>1, <1>2
  <1>4. /\ k \in 0..index /\ r \in 0..(sb.inopb - 1)
        /\ index = k * sb.inopb + r
    BY <1>1, <1>3, Division
  <1> HIDE DEF k, r
  <1>5. index <= n.ino
    <2>1. c * sb.ipg >= 0
      BY <1>1, <1>2
    <2>2. c * sb.ipg \in Int
      BY <1>1, <1>2
    <2> QED
      BY <1>1, <1>2, <1>3, <2>1, <2>2
  <1>6. k \in 0..n.ino
    BY <1>1, <1>3, <1>4, <1>5
  <1>7. n.ino - c * sb.ipg = index /\ index - k * sb.inopb = r
    <2>1. c * sb.ipg \in Int /\ k * sb.inopb \in Int
      BY <1>1, <1>2, <1>6
    <2> QED
      BY <1>1, <1>2, <1>3, <1>4, <2>1
  <1>8. Home(sb, c, k, r) \in DOMAIN v.inodes /\ IsInode(v.inodes[Home(sb, c, k, r)], n)
    BY <1>1, <1>2, <1>4, <1>6, <1>7 DEF HasInode
  <1>9. InodeAt(sb, n.ino) = Home(sb, c, k, r)
    BY DEF InodeAt, Home, _cgbase, c, index, k, r
  <1> QED
    BY <1>1, <1>8, <1>9 DEF read_inode, HasInode

LEMMA SmallerFactor ==
  ASSUME NEW a \in Int, NEW b \in Int, NEW f \in Nat \ {0}, a * f < b * f
  PROVE  a < b
  <1>1. SUFFICES ASSUME b <= a PROVE FALSE
    OBVIOUS
  <1>2. PICK c \in Nat : a = b + c
    BY <1>1
  <1>3. a * f = b * f + c * f
    BY <1>2
  <1>4. c * f >= 0
    OBVIOUS
  <1> QED
    BY <1>3, <1>4

(* The number of blocks that a size takes.                                 *)
LEMMA BlocksOfSize ==
  ASSUME NEW length \in Nat, NEW count \in Nat, NEW frag \in Nat \ {0},
         (count - 1) * frag < length, length <= count * frag
  PROVE  (length + frag - 1) \div frag = count
  <1> DEFINE a == length + frag - 1  q == a \div frag  r == a % frag
  <1>0. a \in Nat
    OBVIOUS
  <1>1. q \in Nat /\ r \in 0..(frag - 1) /\ length + frag - 1 = q * frag + r
    <2> HIDE DEF a
    <2>1. q \in 0..a /\ r \in 0..(frag - 1) /\ a = q * frag + r
      BY <1>0, Division
    <2> QED
      BY <1>0, <2>1 DEF a
  <1> HIDE DEF q, r
  <1>2. (q - 1) * frag = q * frag - frag
    BY <1>1
  <1>3. q * frag \in Int /\ count * frag \in Int /\ (count - 1) * frag \in Int
    BY <1>1
  <1>4. (q - 1) * frag < length /\ length <= q * frag
    BY <1>1, <1>2, <1>3
  <1>5. (q - 1) * frag < count * frag /\ (count - 1) * frag < q * frag
    BY <1>2, <1>3, <1>4
  <1>6. q - 1 < count /\ count - 1 < q
    BY <1>1, <1>5, SmallerFactor
  <1> QED
    BY <1>1, <1>6 DEF q

BlocksOf(v, n) == (Len(n.content) + v.sb.frag - 1) \div v.sb.frag

(* What the reader may give up on.                                         *)
Hard(v, n) ==
  \/ n.kind = "device" \/ BlocksOf(v, n) > NDADDR + v.sb.nindir
  \/ BlocksOf(v, n) > NDADDR /\ n.table = 0
  \/ \E k \in DOMAIN n.at : n.at[k] + v.sb.frag > v.size

Inline(n) == n.kind = "symlink" /\ n.at = << >>

LEMMA VolumeFacts ==
  ASSUME NEW v, IsVolume(v), NEW n \in v.nodes
  PROVE  /\ v.sb.frag \in Nat \ {0} /\ v.sb.nindir \in Nat \ {0} /\ v.size \in Nat
         /\ HasContent(v, n)
         /\ Len(n.content) \in Nat /\ n.content = [i \in 1..Len(n.content) |-> n.content[i]]
         /\ Len(n.at) \in Nat /\ n.at = [k \in 1..Len(n.at) |-> n.at[k]]
         /\ \A k \in 1..Len(n.at) : n.at[k] \in Nat
         /\ n.kind # "device" /\ ~Inline(n) => BlocksOf(v, n) = Len(n.at)
  <1>1. /\ v.sb.frag \in Nat \ {0} /\ v.sb.nindir \in Nat \ {0} /\ v.size \in Nat
        /\ HasContent(v, n)
    BY DEF IsVolume, IsGeometry
  <1>2. /\ Len(n.content) \in Nat /\ n.content = [i \in 1..Len(n.content) |-> n.content[i]]
        /\ Len(n.at) \in Nat /\ n.at = [k \in 1..Len(n.at) |-> n.at[k]]
        /\ \A k \in 1..Len(n.at) : n.at[k] \in Nat
    BY <1>1 DEF HasContent, IsList
  <1>3. ASSUME n.kind # "device", ~Inline(n) PROVE BlocksOf(v, n) = Len(n.at)
    <2>1. (Len(n.at) - 1) * v.sb.frag < Len(n.content) /\ Len(n.content) <= Len(n.at) * v.sb.frag
      BY <1>1, <1>3 DEF HasContent, Inline
    <2> QED
      BY <1>1, <1>2, <2>1, BlocksOfSize DEF BlocksOf
  <1> QED
    BY <1>1, <1>2, <1>3

(* The blocks of a file that is not too long are found, and no others.     *)
LEMMA BlocksAreFound ==
  ASSUME NEW v, IsVolume(v), NEW n \in v.nodes, NEW i, IsInode(i, n), n.kind # "device", ~Inline(n)
  PROVE  /\ \A b \in block_addresses(v, i) : b = n.at
         /\ block_addresses(v, i) = {} => Hard(v, n)
  <1> DEFINE count == Len(n.at)  direct == SubSeq(i.direct, 1, Least(count, NDADDR))
             left == count - Len(direct)
  <1>1. /\ v.sb.frag \in Nat \ {0} /\ v.sb.nindir \in Nat \ {0} /\ v.size \in Nat
        /\ HasContent(v, n) /\ Len(n.content) \in Nat
        /\ count \in Nat /\ n.at = [k \in 1..count |-> n.at[k]]
        /\ \A k \in 1..count : n.at[k] \in Nat
        /\ BlocksOf(v, n) = count
    BY VolumeFacts
  <1>2. /\ i.size = Len(n.content) /\ i.indirect = n.table
        /\ Len(i.direct) = NDADDR /\ i.direct = [k \in 1..NDADDR |-> i.direct[k]]
    BY DEF IsInode, IsList
  <1>7. \A k \in 1..NDADDR : k <= count => i.direct[k] = n.at[k]
    BY DEF IsInode
  <1>8. count \in Nat /\ NDADDR \in Nat
    BY <1>1 DEF NDADDR
  <1>3. (i.size + v.sb.frag - 1) \div v.sb.frag = count
    BY <1>1, <1>2 DEF BlocksOf
  <1>4. block_addresses(v, i) =
          IF left = 0 THEN {direct}
          ELSE IF i.indirect = 0 \/ left > v.sb.nindir THEN {}
          ELSE {direct \o SubSeq(t[1], 1, left) : t \in _read_at(v, i.indirect, v.sb.frag)}
    BY <1>3 DEF block_addresses
  <1> HIDE DEF count
  <1>5. CASE count <= NDADDR
    <2>1. Least(count, NDADDR) = count
      BY <1>1, <1>5 DEF Least, NDADDR
    <2>2. direct = n.at
      <3>1. SubSeq(i.direct, 1, count) = [k \in 1..count |-> i.direct[k]]
        BY <1>1, <1>2, <1>5 DEF NDADDR
      <3>2. \A k \in 1..count : i.direct[k] = n.at[k]
        BY <1>5, <1>7, <1>8
      <3> QED
        BY <1>1, <2>1, <3>1, <3>2
    <2>3. left = 0
      <3> HIDE DEF direct
      <3>1. Len(direct) = count
        BY <2>2 DEF count
      <3> QED
        BY <1>8, <3>1
    <2> HIDE DEF direct, left
    <2> QED
      BY <1>4, <2>2, <2>3
  <1>6. CASE count > NDADDR
    <2>1. Least(count, NDADDR) = NDADDR
      BY <1>1, <1>6 DEF Least, NDADDR
    <2>2. direct = [k \in 1..NDADDR |-> n.at[k]]
      <3>1. SubSeq(i.direct, 1, NDADDR) = [k \in 1..NDADDR |-> i.direct[k]]
        BY <1>2 DEF NDADDR
      <3>2. \A k \in 1..NDADDR : i.direct[k] = n.at[k]
        BY <1>6, <1>7, <1>8
      <3> QED
        BY <2>1, <3>1, <3>2
    <2>3. left = count - NDADDR
      <3> HIDE DEF direct
      <3>1. Len(direct) = NDADDR
        BY <1>8, <2>2
      <3> QED
        BY <3>1
    <2> HIDE DEF direct, left
    <2>4. CASE n.table = 0 \/ left > v.sb.nindir
      <3>1. block_addresses(v, i) = {}
        BY <1>1, <1>2, <1>4, <1>6, <2>3, <2>4 DEF NDADDR
      <3>2. Hard(v, n)
        BY <1>1, <1>6, <2>3, <2>4 DEF Hard, NDADDR
      <3> QED
        BY <3>1, <3>2
    <2>5. CASE n.table # 0 /\ ~(left > v.sb.nindir)
      <3> DEFINE table == v.data[n.table]
      <3>1. /\ n.table \in Nat /\ n.table + v.sb.frag <= v.size
            /\ IsList(table) /\ Len(table) >= left
            /\ \A k \in (NDADDR + 1)..count : table[k - NDADDR] = n.at[k]
        BY <1>1, <1>6, <2>3, <2>5 DEF HasContent, count, NDADDR
      <3>2. _read_at(v, n.table, v.sb.frag) = {[k \in 1..v.sb.frag |-> v.data[n.table + k - 1]]}
        BY <3>1 DEF _read_at
      <3>3. \A t \in _read_at(v, n.table, v.sb.frag) : t[1] = table
        BY <1>1, <3>1, <3>2
      <3>4. /\ Len(table) \in Nat /\ table = [k \in 1..Len(table) |-> table[k]]
        BY <3>1 DEF IsList
      <3> HIDE DEF table
      <3>5. SubSeq(table, 1, left) = [k \in 1..left |-> table[k]]
        BY <1>1, <1>6, <2>3, <3>1, <3>4 DEF NDADDR
      <3>6. direct \o [k \in 1..left |-> table[k]] = n.at
        <4>1. /\ left \in Nat /\ NDADDR + left = count /\ NDADDR \in Nat
          BY <1>1, <1>6, <2>3 DEF NDADDR
        <4> DEFINE f == [k \in 1..NDADDR |-> n.at[k]]  g == [k \in 1..left |-> table[k]]
        <4>2. f \o g = [k \in 1..count |-> IF k <= NDADDR THEN f[k] ELSE g[k - NDADDR]]
          BY <4>1
        <4>3. \A k \in 1..count : (IF k <= NDADDR THEN f[k] ELSE g[k - NDADDR]) = n.at[k]
          BY <3>1, <4>1
        <4> QED
          BY <1>1, <2>2, <4>2, <4>3
      <3>7. block_addresses(v, i) = {direct \o SubSeq(t[1], 1, left) : t \in _read_at(v, n.table, v.sb.frag)}
        <4>1. left # 0
          BY <1>6, <1>8, <2>3
        <4>2. i.indirect = n.table
          BY <1>2
        <4> QED
          BY <1>4, <2>5, <4>1, <4>2
      <3>8. PICK t : _read_at(v, n.table, v.sb.frag) = {t}
        BY <3>2
      <3>9. direct \o SubSeq(t[1], 1, left) = n.at
        <4>1. t[1] = table
          BY <3>3, <3>8
        <4> QED
          BY <3>5, <3>6, <4>1
      <3>10. block_addresses(v, i) = {n.at}
        <4> DEFINE read == _read_at(v, n.table, v.sb.frag)  found(x) == direct \o SubSeq(x[1], 1, left)
        <4>1. block_addresses(v, i) = {found(x) : x \in read} /\ read = {t} /\ found(t) = n.at
          BY <3>7, <3>8, <3>9
        <4> HIDE DEF read, found
        <4> QED
          BY <4>1
      <3> QED
        BY <3>10
    <2> QED
      BY <2>4, <2>5
  <1> QED
    BY <1>1, <1>5, <1>6 DEF NDADDR

LEMMA BytesAreRight ==
  ASSUME NEW v, IsVolume(v), NEW n \in v.nodes, n.kind # "device", ~Inline(n),
         NEW j \in 1..Len(n.content)
  PROVE  LET k == ((j - 1) \div v.sb.frag) + 1
             d == (j - 1) % v.sb.frag
         IN n.content[j] = IF n.at[k] = 0 THEN Zeroes ELSE v.data[n.at[k] + d]
  <1> DEFINE count == Len(n.at)  frag == v.sb.frag  q == (j - 1) \div frag  d == (j - 1) % frag  k == q + 1
  <1>1. /\ frag \in Nat \ {0} /\ HasContent(v, n) /\ Len(n.content) \in Nat /\ count \in Nat
    BY VolumeFacts
  <1>2. /\ Len(n.content) <= count * frag
        /\ \A x \in 1..count, y \in 0..(frag - 1) :
             LET i == (x - 1) * frag + y + 1
             IN i <= Len(n.content) =>
                  n.content[i] = IF n.at[x] = 0 THEN Zeroes ELSE v.data[n.at[x] + y]
    BY <1>1 DEF HasContent, Inline
  <1>3. q \in Nat /\ d \in 0..(frag - 1) /\ j - 1 = q * frag + d
    <2> DEFINE a == j - 1
    <2>1. a \in Nat
      BY <1>1
    <2> HIDE DEF a, frag
    <2>2. a \div frag \in 0..a /\ a % frag \in 0..(frag - 1) /\ a = (a \div frag) * frag + (a % frag)
      BY <1>1, <2>1, Division
    <2> QED
      BY <2>1, <2>2 DEF a
  <1> HIDE DEF q, d, count, frag
  <1>4. q * frag < count * frag
    <2>1. q * frag \in Int /\ count * frag \in Int
      BY <1>1, <1>3
    <2>2. j <= Len(n.content) /\ j \in Int /\ Len(n.content) \in Int
      BY <1>1
    <2>3. Len(n.content) <= count * frag
      BY <1>2
    <2>4. d \in Int /\ d >= 0 /\ j - 1 = q * frag + d
      BY <1>1, <1>3
    <2> QED
      BY <2>1, <2>2, <2>3, <2>4
  <1>5. k \in 1..count
    BY <1>1, <1>3, <1>4, SmallerFactor
  <1>6. (k - 1) * frag + d + 1 = j
    <2>1. k - 1 = q /\ q * frag \in Int
      BY <1>1, <1>3
    <2> QED
      BY <1>1, <1>3, <2>1
  <1>7. n.content[j] = IF n.at[k] = 0 THEN Zeroes ELSE v.data[n.at[k] + d]
    <2> HIDE DEF k
    <2>1. LET i == (k - 1) * frag + d + 1
          IN i <= Len(n.content) => n.content[i] = IF n.at[k] = 0 THEN Zeroes ELSE v.data[n.at[k] + d]
      BY <1>2, <1>3, <1>5
    <2> QED
      BY <1>6, <2>1
  <1> QED
    BY <1>7 DEF q, d, frag

(* A file is read byte for byte, or it is one of those that are given up.  *)
LEMMA ContentIsRead ==
  ASSUME NEW v, IsVolume(v), NEW n \in v.nodes, NEW i, IsInode(i, n)
  PROVE  /\ \A d \in read_file(v, i) : d = n.content
         /\ read_file(v, i) = {} => Hard(v, n)
  <1> DEFINE byte(addresses, j) ==
               LET address == addresses[((j - 1) \div v.sb.frag) + 1]
               IN IF address = 0 THEN Zeroes ELSE v.data[address + ((j - 1) % v.sb.frag)]
             whole(b) == \A k \in DOMAIN b : b[k] = 0 \/ _read_at(v, b[k], v.sb.frag) # {}
  <1>1. i.kind = n.kind /\ i.size = Len(n.content) /\ i.blocks = Len(n.at)
        /\ (Inline(n) => i.inline = n.content)
    BY DEF IsInode, Inline
  <1>2. /\ v.sb.frag \in Nat \ {0} /\ v.size \in Nat
        /\ Len(n.at) \in Nat /\ n.at = [k \in 1..Len(n.at) |-> n.at[k]]
        /\ n.content = [j \in 1..Len(n.content) |-> n.content[j]]
        /\ \A k \in 1..Len(n.at) : n.at[k] \in Nat
    BY VolumeFacts
  <1>3. Inline(n) <=> i.kind = "symlink" /\ i.blocks = 0
    <2>1. n.at = << >> <=> Len(n.at) = 0
      <3>1. Len(n.at) = 0 => n.at = << >>
        BY <1>2
      <3> QED
        BY <3>1
    <2> QED
      BY <1>1, <2>1 DEF Inline
  <1>4. CASE Inline(n)
    BY <1>1, <1>3, <1>4 DEF read_file
  <1>5. CASE n.kind = "device"
    <2>1. ~Inline(n)
      BY <1>5 DEF Inline
    <2>2. read_file(v, i) = {}
      BY <1>1, <1>3, <1>5, <2>1 DEF read_file
    <2> QED
      BY <1>5, <2>2 DEF Hard
  <1>6. CASE n.kind # "device" /\ ~Inline(n)
    <2>1. read_file(v, i) =
            {[j \in 1..i.size |-> byte(a, j)] : a \in {b \in block_addresses(v, i) : whole(b)}}
      BY <1>1, <1>3, <1>6 DEF read_file
    <2>2. [j \in 1..i.size |-> byte(n.at, j)] = n.content
      <3>1. \A j \in 1..Len(n.content) : byte(n.at, j) = n.content[j]
        BY <1>6, BytesAreRight
      <3> HIDE DEF byte
      <3> QED
        BY <1>1, <1>2, <3>1
    <2>3. /\ \A b \in block_addresses(v, i) : b = n.at
          /\ block_addresses(v, i) = {} => Hard(v, n)
      BY <1>6, BlocksAreFound
    <2>4. whole(n.at) \/ Hard(v, n)
      <3>1. ASSUME NEW k \in DOMAIN n.at, ~(n.at[k] = 0 \/ _read_at(v, n.at[k], v.sb.frag) # {})
            PROVE  Hard(v, n)
        <4>1. n.at[k] \in Nat
          BY <1>2
        <4>2. ~(n.at[k] + v.sb.frag <= v.size)
          BY <3>1, Zenon DEF _read_at
        <4>3. n.at[k] + v.sb.frag > v.size
          BY <1>2, <4>1, <4>2
        <4> QED
          BY <4>3 DEF Hard
      <3> QED
        BY <3>1
    <2> HIDE DEF byte, whole
    <2>5. \A d \in read_file(v, i) : d = n.content
      BY <2>1, <2>2, <2>3
    <2>6. ASSUME read_file(v, i) = {} PROVE Hard(v, n)
      BY <2>1, <2>3, <2>4, <2>6
    <2> QED
      BY <2>5, <2>6
  <1> QED
    BY <1>4, <1>5, <1>6

RecordsOf(n) == parse_directory(n.content)

LEMMA ListIsRead ==
  ASSUME NEW v, IsVolume(v), NEW n \in v.nodes, NEW i, IsInode(i, n)
  PROVE  /\ \A d \in list_dir(v, i) : d = RecordsOf(n)
         /\ list_dir(v, i) = {} => Hard(v, n)
  <1>1. /\ \A d \in read_file(v, i) : d = n.content
        /\ read_file(v, i) = {} => Hard(v, n)
    BY ContentIsRead
  <1> QED
    BY <1>1 DEF list_dir, RecordsOf

(* The record that is found is for a file below the directory.             *)
LEMMA FoundIsBelow ==
  ASSUME NEW v, IsVolume(v), NEW n \in v.nodes, NEW i, IsInode(i, n),
         NEW name, name \notin OwnNames, NEW j \in Lookup(v, i, name)
  PROVE  \E m \in v.nodes : m.path = Append(n.path, name) /\ IsInode(j, m)
  <1>1. i.kind = "directory" /\ n.kind = "directory"
    BY DEF Lookup, IsInode
  <1>2. PICK records \in list_dir(v, i) : \E c \in Entry(records, name) : j \in read_inode(v, c)
    BY <1>1 DEF Lookup
  <1>3. PICK c \in Entry(records, name) : j \in read_inode(v, c)
    BY <1>2
  <1>4. PICK k \in 1..Len(records) : records[k].name = name /\ c = records[k].ino
    BY <1>3 DEF Entry
  <1>5. records = RecordsOf(n)
    BY ListIsRead
  <1>6. /\ IsList(records)
        /\ \A r \in Range(records) :
             r.name \notin OwnNames => \E m \in v.nodes : m.path = Append(n.path, r.name) /\ m.ino = r.ino
    BY <1>1, <1>5 DEF IsVolume, HasTree, RecordsOf
  <1>7. records[k] \in Range(records)
    BY <1>4, <1>6 DEF Range, IsList
  <1>8. PICK m \in v.nodes : m.path = Append(n.path, name) /\ m.ino = c
    BY <1>4, <1>6, <1>7
  <1>9. IsInode(j, m)
    <2>1. PICK x : read_inode(v, m.ino) = {x} /\ IsInode(x, m)
      BY InodeIsRead
    <2>2. j = x
      BY <1>3, <1>8, <2>1
    <2> QED
      BY <2>1, <2>2
  <1> QED
    BY <1>8, <1>9

(* What has a record is found, or the directory cannot be read.            *)
LEMMA RecordIsFound ==
  ASSUME NEW v, IsVolume(v), NEW n \in v.nodes, n.kind = "directory", NEW i, IsInode(i, n),
         NEW r \in Range(RecordsOf(n)), r.name \notin OwnNames
  PROVE  Lookup(v, i, r.name) # {} \/ Hard(v, n)
  <1> SUFFICES ASSUME ~Hard(v, n) PROVE Lookup(v, i, r.name) # {}
    OBVIOUS
  <1> DEFINE records == RecordsOf(n)  T == {k \in 1..Len(records) : records[k].name = r.name}
  <1>1. i.kind = "directory" /\ records \in list_dir(v, i)
    BY ListIsRead DEF IsInode
  <1>2. /\ IsList(records)
        /\ \A x \in Range(records) :
             x.name \notin OwnNames => \E m \in v.nodes : m.path = Append(n.path, x.name) /\ m.ino = x.ino
    BY DEF IsVolume, HasTree, RecordsOf
  <1> HIDE DEF records
  <1>3. Len(records) \in Nat /\ records = [k \in 1..Len(records) |-> records[k]]
    BY <1>2 DEF IsList
  <1>4. T \in SUBSET Nat /\ T # {}
    <2>1. PICK k \in DOMAIN records : records[k] = r
      BY DEF Range, records
    <2> QED
      BY <1>3, <2>1
  <1>5. PICK k \in T : \A l \in T : k <= l
    <2> HIDE DEF T
    <2> QED
      BY <1>4, LeastNatural
  <1>6. k \in 1..Len(records) /\ records[k].name = r.name
    BY <1>5
  <1>7. \A l \in 1..(k - 1) : records[l].name # r.name
    BY <1>3, <1>5
  <1>8. records[k].ino \in Entry(records, r.name)
    BY <1>6, <1>7 DEF Entry
  <1>9. records[k] \in Range(records)
    BY <1>3, <1>6 DEF Range
  <1>10. PICK m \in v.nodes : m.ino = records[k].ino
    BY <1>2, <1>6, <1>9
  <1>11. read_inode(v, records[k].ino) # {}
    BY <1>10, InodeIsRead
  <1> QED
    BY <1>1, <1>8, <1>11 DEF Lookup

(* A path is resolved name by name.                                        *)
Inodes(v) == {v.inodes[x] : x \in DOMAIN v.inodes}

Walks(v, path, f) ==
  f = [k \in 0..Len(path) |->
         IF k = 0 THEN read_inode(v, ROOT_INO) ELSE UNION {Lookup(v, i, path[k]) : i \in f[k - 1]}]

LEMMA LookupIsInode ==
  ASSUME NEW v, NEW i, NEW name
  PROVE  Lookup(v, i, name) \subseteq Inodes(v)
  BY DEF Lookup, read_inode, Inodes

LEMMA WalkExists ==
  ASSUME NEW v, NEW path, Len(path) \in Nat
  PROVE  \E f : Walks(v, path, f)
  <1> DEFINE n == Len(path)  S == SUBSET Inodes(v)  first == read_inode(v, ROOT_INO)
             next == [k \in 1..n |-> [I \in S |-> UNION {Lookup(v, i, path[k]) : i \in I}]]
  <1>1. first \in S
    BY DEF read_inode, Inodes
  <1>2. next \in [1..n -> [S -> S]]
    BY LookupIsInode
  <1> HIDE DEF next, first, S
  <1>3. PICK f \in [0..n -> S] : Follows(f, n, first, next)
    BY <1>1, <1>2, Recursion
  <1>4. \A k \in 1..n : f[k] = UNION {Lookup(v, i, path[k]) : i \in f[k - 1]}
    <2> SUFFICES ASSUME NEW k \in 1..n PROVE f[k] = UNION {Lookup(v, i, path[k]) : i \in f[k - 1]}
      OBVIOUS
    <2>1. f[k] = next[k][f[k - 1]]
      BY <1>3 DEF Follows
    <2>2. f[k - 1] \in S
      BY <1>3
    <2> QED
      BY <2>1, <2>2 DEF next
  <1>5. f[0] = first
    BY <1>3 DEF Follows
  <1> DEFINE next_(k) == IF k = 0 THEN first ELSE UNION {Lookup(v, i, path[k]) : i \in f[k - 1]}
  <1>6. \A k \in 0..n : f[k] = next_(k)
    BY <1>4, <1>5
  <1>7. f = [k \in 0..n |-> f[k]]
    BY <1>3
  <1>8. f = [k \in 0..n |-> next_(k)]
    <2> HIDE DEF next_
    <2> QED
      BY <1>6, <1>7
  <1>9. Walks(v, path, f)
    BY <1>8 DEF Walks, first
  <1> QED
    BY <1>9

(* What each prefix of a path is resolved to.                              *)
WalkOf(v, path, f) ==
  /\ resolve(v, path) = f[Len(path)]
  /\ f[0] = read_inode(v, ROOT_INO)
  /\ \A k \in 1..Len(path) : f[k] = UNION {Lookup(v, i, path[k]) : i \in f[k - 1]}

LEMMA ResolvedByWalk ==
  ASSUME NEW v, NEW path, Len(path) \in Nat
  PROVE  \E f : WalkOf(v, path, f)
  <1> DEFINE f == CHOOSE g : Walks(v, path, g)  n == Len(path)
             value(k) == IF k = 0 THEN read_inode(v, ROOT_INO)
                         ELSE UNION {Lookup(v, i, path[k]) : i \in f[k - 1]}
  <1>1. Walks(v, path, f)
    BY WalkExists
  <1>2. resolve(v, path) = f[n]
    BY DEF resolve, Walks
  <1>3. f = [k \in 0..n |-> value(k)]
    BY <1>1 DEF Walks
  <1>4. n \in Nat
    OBVIOUS
  <1> HIDE DEF f, n
  <1>5. \A k \in 0..n : f[k] = value(k)
    <2> HIDE DEF value
    <2> QED
      BY <1>3
  <1>6. f[0] = read_inode(v, ROOT_INO)
    <2>1. 0 \in 0..n
      BY <1>4
    <2> QED
      BY <1>5, <2>1
  <1>7. ASSUME NEW k \in 1..n PROVE f[k] = UNION {Lookup(v, i, path[k]) : i \in f[k - 1]}
    <2>1. k \in 0..n /\ k # 0
      BY <1>4
    <2>2. f[k] = value(k)
      BY <1>5, <2>1
    <2> QED
      BY <2>1, <2>2
  <1>8. WalkOf(v, path, f)
    BY <1>2, <1>6, <1>7 DEF WalkOf, n
  <1> QED
    BY <1>8

LEMMA RootIsResolved ==
  ASSUME NEW v
  PROVE  resolve(v, << >>) = read_inode(v, ROOT_INO)
  <1>1. Len(<< >>) = 0 /\ Len(<< >>) \in Nat
    OBVIOUS
  <1>2. PICK f : WalkOf(v, << >>, f)
    BY <1>1, ResolvedByWalk
  <1> QED
    BY <1>1, <1>2 DEF WalkOf

LEMMA NextIsResolved ==
  ASSUME NEW v, NEW path, IsList(path), NEW name
  PROVE  resolve(v, Append(path, name)) = UNION {Lookup(v, i, name) : i \in resolve(v, path)}
  <1> DEFINE n == Len(path)  longer == Append(path, name)
  <1>1. /\ n \in Nat /\ Len(longer) = n + 1 /\ longer[n + 1] = name
        /\ \A k \in 1..n : longer[k] = path[k]
    BY DEF IsList
  <1>2. PICK f : WalkOf(v, path, f)
    BY <1>1, ResolvedByWalk
  <1>3. PICK g : WalkOf(v, longer, g)
    <2>1. Len(longer) \in Nat
      BY <1>1
    <2> HIDE DEF longer
    <2> QED
      BY <2>1, ResolvedByWalk
  <1> HIDE DEF longer
  <1>a. /\ resolve(v, path) = f[n] /\ f[0] = read_inode(v, ROOT_INO)
        /\ \A k \in 1..n : f[k] = UNION {Lookup(v, i, path[k]) : i \in f[k - 1]}
    BY <1>2 DEF WalkOf
  <1>b. /\ resolve(v, longer) = g[n + 1] /\ g[0] = read_inode(v, ROOT_INO)
        /\ \A k \in 1..(n + 1) : g[k] = UNION {Lookup(v, i, longer[k]) : i \in g[k - 1]}
    <2>1. Len(longer) = n + 1
      BY <1>1
    <2> HIDE DEF n
    <2> QED
      BY <1>3, <2>1 DEF WalkOf
  <1> HIDE DEF n
  <1> DEFINE S == {k \in 0..n : f[k] = g[k]}
  <1>4. ASSUME NEW k \in 0..n, \A l \in 0..(k - 1) : l \in S PROVE k \in S
    <2>1. CASE k = 0
      BY <1>a, <1>b, <2>1
    <2>2. CASE k # 0
      <3>1. k \in 1..n /\ k \in 1..(n + 1) /\ k - 1 \in 0..(k - 1)
        BY <1>1, <2>2
      <3>2. f[k - 1] = g[k - 1]
        <4>1. k - 1 \in S
          BY <1>4, <3>1
        <4> QED
          BY <4>1
      <3>3. f[k] = UNION {Lookup(v, i, path[k]) : i \in f[k - 1]}
        BY <1>a, <3>1
      <3>4. g[k] = UNION {Lookup(v, i, longer[k]) : i \in g[k - 1]}
        BY <1>b, <3>1
      <3>5. longer[k] = path[k]
        BY <1>1, <3>1
      <3> QED
        BY <3>2, <3>3, <3>4, <3>5
    <2> QED
      BY <2>1, <2>2
  <1> HIDE DEF S
  <1>5. \A k \in 0..n : k \in S
    BY <1>1, <1>4, Induction
  <1>6. f[n] = g[n]
    BY <1>1, <1>5 DEF S
  <1>7. g[n + 1] = UNION {Lookup(v, i, name) : i \in g[n]}
    <2>1. n + 1 \in 1..(n + 1) /\ (n + 1) - 1 = n
      BY <1>1
    <2>2. g[n + 1] = UNION {Lookup(v, i, longer[n + 1]) : i \in g[(n + 1) - 1]}
      BY <1>b, <2>1
    <2> QED
      BY <1>1, <2>1, <2>2
  <1> QED
    BY <1>a, <1>b, <1>6, <1>7 DEF longer

(* A path is the path of where it leads to from, and a name.               *)
LEMMA LastOfPath ==
  ASSUME NEW path, IsPath(path), Len(path) # 0
  PROVE  LET q == SubSeq(path, 1, Len(path) - 1)
         IN /\ IsPath(q) /\ Len(q) = Len(path) - 1 /\ path = Append(q, path[Len(path)])
            /\ path[Len(path)] \notin OwnNames
  <1> DEFINE n == Len(path)  q == SubSeq(path, 1, n - 1)
  <1>1. n \in Nat \ {0} /\ path = [k \in 1..n |-> path[k]] /\ \A k \in 1..n : path[k] \notin OwnNames
    BY DEF IsPath, IsList
  <1>2. q = [k \in 1..(n - 1) |-> path[k]]
    <2> HIDE DEF n
    <2> QED
      BY <1>1
  <1>3. Len(q) = n - 1
    <2> HIDE DEF q, n
    <2> QED
      BY <1>1, <1>2
  <1> HIDE DEF q, n
  <1>4. IsPath(q)
    BY <1>1, <1>2, <1>3 DEF IsPath, IsList
  <1>5. path = Append(q, path[n])
    BY <1>1, <1>2, <1>3
  <1> QED
    BY <1>1, <1>3, <1>4, <1>5 DEF q, n

(* What a path is resolved to is the inode of a file that has it.          *)
LEMMA ResolvedIsThere ==
  ASSUME NEW v, IsVolume(v), NEW path, IsPath(path), NEW i \in resolve(v, path)
  PROVE  \E n \in v.nodes : n.path = path /\ IsInode(i, n)
  <1> DEFINE Good(p) == \A j \in resolve(v, p) : \E n \in v.nodes : n.path = p /\ IsInode(j, n)
             S == {k \in 0..Len(path) : \A p : IsPath(p) /\ Len(p) = k => Good(p)}
  <1>1. Len(path) \in Nat
    BY DEF IsPath, IsList
  <1>2. ASSUME NEW k \in 0..Len(path), \A l \in 0..(k - 1) : l \in S PROVE k \in S
    <2> SUFFICES ASSUME NEW p, IsPath(p), Len(p) = k, NEW j \in resolve(v, p)
                 PROVE  \E n \in v.nodes : n.path = p /\ IsInode(j, n)
      OBVIOUS
    <2>1. CASE k = 0
      <3>1. p = << >>
        BY <2>1 DEF IsPath, IsList
      <3>2. PICK n \in v.nodes : n.path = << >> /\ n.ino = ROOT_INO
        BY DEF IsVolume, HasTree
      <3>3. PICK x : read_inode(v, n.ino) = {x} /\ IsInode(x, n)
        BY InodeIsRead
      <3>4. j = x
        BY <3>1, <3>2, <3>3, RootIsResolved
      <3> QED
        BY <3>1, <3>2, <3>3, <3>4
    <2>2. CASE k # 0
      <3> DEFINE q == SubSeq(p, 1, Len(p) - 1)  name == p[Len(p)]
      <3>1. IsPath(q) /\ Len(q) = k - 1 /\ p = Append(q, name) /\ name \notin OwnNames
        BY <2>2, LastOfPath
      <3> HIDE DEF q, name
      <3>2. Good(q)
        <4>1. k - 1 \in S
          BY <1>1, <1>2, <2>2
        <4> QED
          BY <3>1, <4>1
      <3>3. resolve(v, p) = UNION {Lookup(v, x, name) : x \in resolve(v, q)}
        BY <3>1, NextIsResolved DEF IsPath
      <3>4. PICK x \in resolve(v, q) : j \in Lookup(v, x, name)
        BY <3>3
      <3>5. PICK d \in v.nodes : d.path = q /\ IsInode(x, d)
        BY <3>2
      <3>6. PICK m \in v.nodes : m.path = Append(q, name) /\ IsInode(j, m)
        BY <3>1, <3>4, <3>5, FoundIsBelow
      <3> QED
        BY <3>1, <3>6
    <2> QED
      BY <2>1, <2>2
  <1> HIDE DEF S
  <1>3. \A k \in 0..Len(path) : k \in S
    BY <1>1, <1>2, Induction
  <1> QED
    BY <1>1, <1>3 DEF S

(***************************************************************************)
(* The probe of a root: it counts the paths of one file system.            *)
(***************************************************************************)
LEMMA RequiredArePaths ==
  ASSUME NEW kind, NEW p \in REQUIRED_BOOT_PATHS(kind)
  PROVE  IsPath(p)
  <1>1. p \in {<<"mach_kernel">>, <<"private", "Drivers", "i386", "System.config">>,
               <<"System", "Library">>, <<"usr">>}
    BY DEF REQUIRED_BOOT_PATHS
  <1>2. IsPath(<<"mach_kernel">>)
    BY DEF IsPath, IsList, OwnNames
  <1>3. IsPath(<<"private", "Drivers", "i386", "System.config">>)
    BY DEF IsPath, IsList, OwnNames
  <1>4. IsPath(<<"System", "Library">>)
    BY DEF IsPath, IsList, OwnNames
  <1>5. IsPath(<<"usr">>)
    BY DEF IsPath, IsList, OwnNames
  <1> QED
    BY <1>1, <1>2, <1>3, <1>4, <1>5

LEMMA OneOffset ==
  ASSUME NEW img
  PROVE  \E o : default_root_offset(img) \subseteq {o}
  <1> DEFINE found == {c \in img.superblocks :
                         plausible(c) /\ c.offset >= SuperblockOffset /\ c.offset + 1376 <= Prefix}
             matching == {c \in found : img.label # Unset /\ c.fsize = img.label.fsize}
             one == img.label.offset
             two == First(matching).offset - SuperblockOffset
             three == First(found).offset - SuperblockOffset
             answer == default_root_offset(img)
  <1>1. answer = {one} \/ answer = {two} \/ answer = {three} \/ answer = {}
    <2>1. answer = IF img.label # Unset /\ _has_native_superblock(img, one) THEN {one}
                   ELSE IF matching # {} THEN {two}
                   ELSE IF found # {} THEN {three}
                   ELSE IF img.label # Unset THEN {one} ELSE {}
      BY DEF default_root_offset
    <2> HIDE DEF answer, one, two, three, matching, found
    <2> QED
      BY <2>1
  <1> HIDE DEF one, two, three, matching, found
  <1> QED
    BY <1>1

Needed(kind, volume) ==
  \/ REQUIRED_BOOT_PATHS(kind) \subseteq volume.next
  \/ \E o \in DOMAIN volume.at :
       REQUIRED_BOOT_PATHS(kind) \subseteq {n.path : n \in volume.at[o].nodes}

LEMMA NativeIsOneFileSystem ==
  ASSUME NEW name \in DOMAIN Volumes, NEW kind, NEW offsets, NEW o, offsets \subseteq {o},
         REQUIRED_BOOT_PATHS(kind)
           \subseteq UNION _native_ufs_paths(Volumes[name], REQUIRED_BOOT_PATHS(kind), offsets)
  PROVE  Needed(kind, Volumes[name])
  <1> DEFINE volume == Volumes[name]  need == REQUIRED_BOOT_PATHS(kind)
             native == _native_ufs_paths(volume, need, offsets)
  <1>1. <<"mach_kernel">> \in need
    BY DEF REQUIRED_BOOT_PATHS
  <1>2. PICK x \in open_image(volume, offsets) : TRUE
    BY <1>1 DEF _native_ufs_paths
  <1>3. x = o /\ x \in DOMAIN volume.at
    BY <1>2 DEF open_image, _has_native_superblock
  <1> DEFINE v == volume.at[o]
  <1>4. \A p \in need : resolve(v, p) # {}
    <2> HIDE DEF need, volume
    <2>1. \A y \in open_image(volume, offsets) : y = o
      BY DEF open_image
    <2> QED
      BY <2>1 DEF _native_ufs_paths, need, volume
  <1>5. IsVolume(v)
    BY <1>3, ReaderAssumption
  <1>6. ASSUME NEW p \in need PROVE \E n \in v.nodes : n.path = p
    <2>1. IsPath(p)
      BY RequiredArePaths
    <2>2. PICK i \in resolve(v, p) : TRUE
      BY <1>4
    <2> HIDE DEF v
    <2> QED
      BY <1>5, <2>1, <2>2, ResolvedIsThere
  <1>7. need \subseteq {n.path : n \in v.nodes}
    BY <1>6
  <1> QED
    BY <1>3, <1>7 DEF Needed

LEMMA InspectFinds ==
  ASSUME inspect_xnu_root, CandidateHasItsPaths
  PROVE  CandidateHasItsPaths'
  <1>1. PICK name \in DOMAIN Volumes, kind \in {"openstep", "rhapsody-dr2", "rhapsodios", "darwin"},
             given \in {Unset} \cup UNION {DOMAIN Volumes[n].at : n \in DOMAIN Volumes} :
          LET img == Volumes[name]
              paths == REQUIRED_BOOT_PATHS(kind)
              native == _native_ufs_paths(img, paths,
                          IF given = Unset THEN default_root_offset(img) ELSE {given})
              next == _ufs_paths(img, paths)
              found == IF path_probe(kind) = "nextufs" THEN next
                       ELSE IF path_probe(kind) = "rdrufs" \/ given # Unset THEN UNION native
                       ELSE Fallback(paths, next, native)
          IN report' = [image |-> name, kind |-> kind, bootable |-> paths \subseteq found]
    BY DEF inspect_xnu_root
  <1> DEFINE img == Volumes[name]  paths == REQUIRED_BOOT_PATHS(kind)
             offsets == IF given = Unset THEN default_root_offset(img) ELSE {given}
             native == _native_ufs_paths(img, paths, offsets)
             next == _ufs_paths(img, paths)
             found == IF path_probe(kind) = "nextufs" THEN next
                      ELSE IF path_probe(kind) = "rdrufs" \/ given # Unset THEN UNION native
                      ELSE Fallback(paths, next, native)
  <1>2. report' = [image |-> name, kind |-> kind, bootable |-> paths \subseteq found]
    BY <1>1
  <1>3. found = next \/ found = UNION native
    BY DEF Fallback
  <1>4. PICK o : offsets \subseteq {o}
    BY OneOffset
  <1>5. ASSUME paths \subseteq UNION native PROVE Needed(kind, img)
    <2> HIDE DEF offsets
    <2> QED
      BY <1>4, <1>5, NativeIsOneFileSystem
  <1>6. ASSUME paths \subseteq next PROVE Needed(kind, img)
    BY <1>6 DEF _ufs_paths, Needed
  <1>7. report'.bootable => Needed(kind, img)
    <2> HIDE DEF native, next, img, paths, found
    <2> QED
      BY <1>2, <1>3, <1>5, <1>6
  <1>8. report'.image = name /\ report'.kind = kind
    <2> HIDE DEF paths, found
    <2> QED
      BY <1>2
  <1> QED
    BY <1>7, <1>8 DEF CandidateHasItsPaths, Needed

(* What is reported as a root that can be booted has all the paths its     *)
(* kind needs in one file system: for any images, wherever their labels    *)
(* and superblocks lead, and whatever the reader of NeXT's finds in them.  *)
THEOREM CandidatesHavePaths == Spec => []CandidateHasItsPaths
  <1>1. Init => CandidateHasItsPaths
    BY DEF Init, ReaderInit, CandidateHasItsPaths
  <1>2. CandidateHasItsPaths /\ [Next]_hostVars => CandidateHasItsPaths'
    <2> SUFFICES ASSUME CandidateHasItsPaths, [Next]_hostVars PROVE CandidateHasItsPaths'
      OBVIOUS
    <2>1. ASSUME report' = report PROVE CandidateHasItsPaths'
      BY <2>1 DEF CandidateHasItsPaths
    <2>2. inspect_xnu_root \/ report' = report
      BY DEF Next, hostVars, readerVars, ReaderNext, ProbeNext, extract_tree, extract_one, finish,
             kill_extractor
    <2> QED
      BY <2>1, <2>2, InspectFinds
  <1> QED
    BY <1>1, <1>2, PTL DEF Spec

(***************************************************************************)
(* The walk of extract-tree.                                               *)
(***************************************************************************)
(* The names in a directory, but for its own and its parent's.             *)
Upto(records, f) ==
  f = [i \in 0..Len(records) |->
         IF i = 0 THEN << >>
         ELSE IF records[i].name \in OwnNames THEN f[i - 1] ELSE Append(f[i - 1], records[i].name)]

NamesUpto(records, i) == {records[k].name : k \in 1..i} \ OwnNames

LEMMA UptoExists ==
  ASSUME NEW records, Len(records) \in Nat
  PROVE  \E f : Upto(records, f) /\ \A i \in 0..Len(records) : f[i] \in Seq({records[k].name : k \in 1..Len(records)})
  <1> DEFINE n == Len(records)  N == {records[k].name : k \in 1..n}  S == Seq(N)
             next == [k \in 1..n |-> [s \in S |->
                        IF records[k].name \in OwnNames THEN s ELSE Append(s, records[k].name)]]
  <1>1. << >> \in S
    OBVIOUS
  <1>2. next \in [1..n -> [S -> S]]
    <2> SUFFICES ASSUME NEW k \in 1..n, NEW s \in S
                 PROVE  (IF records[k].name \in OwnNames THEN s ELSE Append(s, records[k].name)) \in S
      OBVIOUS
    <2>1. records[k].name \in N
      OBVIOUS
    <2> HIDE DEF N
    <2> QED
      BY <2>1
  <1> HIDE DEF next, S
  <1>3. PICK f \in [0..n -> S] : Follows(f, n, << >>, next)
    BY <1>1, <1>2, Recursion
  <1> DEFINE value(k) == IF k = 0 THEN << >>
                         ELSE IF records[k].name \in OwnNames THEN f[k - 1] ELSE Append(f[k - 1], records[k].name)
  <1>4. ASSUME NEW k \in 0..n PROVE f[k] = value(k)
    <2>1. CASE k = 0
      BY <1>3, <2>1 DEF Follows
    <2>2. CASE k # 0
      <3>1. k \in 1..n /\ k - 1 \in 0..n
        BY <2>2
      <3>2. f[k] = next[k][f[k - 1]]
        BY <1>3, <3>1 DEF Follows
      <3>3. f[k - 1] \in S
        BY <1>3, <3>1
      <3> QED
        BY <2>2, <3>1, <3>2, <3>3 DEF next
    <2> QED
      BY <2>1, <2>2
  <1>5. f = [k \in 0..n |-> f[k]]
    BY <1>3
  <1>6. f = [k \in 0..n |-> value(k)]
    <2> HIDE DEF value
    <2> QED
      BY <1>4, <1>5
  <1>7. Upto(records, f)
    BY <1>6 DEF Upto
  <1>8. \A i \in 0..n : f[i] \in S
    BY <1>3
  <1> QED
    BY <1>7, <1>8 DEF S

LEMMA OthersFacts ==
  ASSUME NEW records, IsList(records)
  PROVE  /\ IsList(Others(records))
         /\ \A name : (\E k \in 1..Len(Others(records)) : Others(records)[k] = name)
                        <=> (\E r \in Range(records) : r.name = name) /\ name \notin OwnNames
  <1> DEFINE n == Len(records)  f == CHOOSE g : Upto(records, g)
             N == {records[k].name : k \in 1..n}
  <1>1. n \in Nat
    BY DEF IsList
  <1>2. Upto(records, f)
    BY <1>1, UptoExists
  <1>3. Others(records) = f[n]
    BY DEF Others, Upto
  <1> HIDE DEF f
  <1> DEFINE value(k) == IF k = 0 THEN << >>
                         ELSE IF records[k].name \in OwnNames THEN f[k - 1] ELSE Append(f[k - 1], records[k].name)
             Has(s, i) == \A name : (\E k \in 1..Len(s) : s[k] = name) <=> name \in NamesUpto(records, i)
             S == {i \in 0..n : f[i] \in Seq(N) /\ Has(f[i], i)}
  <1>4. f = [k \in 0..n |-> value(k)]
    BY <1>2 DEF Upto
  <1> HIDE DEF n
  <1>5. \A k \in 0..n : f[k] = value(k)
    <2> HIDE DEF value
    <2> QED
      BY <1>4
  <1>6. ASSUME NEW i \in 0..n, \A k \in 0..(i - 1) : k \in S PROVE i \in S
    <2>1. CASE i = 0
      <3>1. f[i] = << >>
        BY <1>5, <2>1
      <3>2. NamesUpto(records, i) = {}
        BY <2>1 DEF NamesUpto
      <3>3. f[i] \in Seq(N) /\ Len(f[i]) = 0
        BY <3>1
      <3>4. Has(f[i], i)
        BY <3>2, <3>3
      <3> QED
        BY <3>3, <3>4
    <2>2. CASE i # 0
      <3>1. i \in 1..n /\ i - 1 \in 0..(i - 1) /\ i \in Nat
        BY <1>1, <2>2
      <3> DEFINE s == f[i - 1]  name0 == records[i].name
      <3>2. s \in Seq(N) /\ Has(s, i - 1)
        <4>1. i - 1 \in S
          BY <1>6, <3>1
        <4> QED
          BY <4>1
      <3>3. f[i] = IF name0 \in OwnNames THEN s ELSE Append(s, name0)
        BY <1>5, <3>1
      <3>4. name0 \in N
        BY <3>1
      <3>5. NamesUpto(records, i) = NamesUpto(records, i - 1) \cup ({name0} \ OwnNames)
        <4>1. 1..i = 1..(i - 1) \cup {i}
          BY <3>1
        <4> QED
          BY <4>1 DEF NamesUpto
      <3> HIDE DEF s, name0, N
      <3>6. CASE name0 \in OwnNames
        <4>1. f[i] = s /\ NamesUpto(records, i) = NamesUpto(records, i - 1)
          BY <3>3, <3>5, <3>6
        <4> QED
          BY <3>2, <4>1
      <3>7. CASE name0 \notin OwnNames
        <4>1. f[i] = Append(s, name0)
          BY <3>3, <3>7
        <4>2. f[i] \in Seq(N)
          BY <3>2, <3>4, <4>1
        <4>3. /\ Len(s) \in Nat /\ Len(f[i]) = Len(s) + 1 /\ f[i][Len(s) + 1] = name0
              /\ \A k \in 1..Len(s) : f[i][k] = s[k]
          BY <3>2, <3>4, <4>1
        <4>4. ASSUME NEW name
              PROVE  (\E k \in 1..Len(f[i]) : f[i][k] = name)
                       <=> ((\E k \in 1..Len(s) : s[k] = name) \/ name = name0)
          BY <4>3
        <4>5. ASSUME NEW name
              PROVE  name \in NamesUpto(records, i) <=> (name \in NamesUpto(records, i - 1) \/ name = name0)
          BY <3>5, <3>7
        <4>6. Has(f[i], i)
          BY <3>2, <4>4, <4>5
        <4> QED
          BY <4>2, <4>6
      <3> QED
        BY <3>6, <3>7
    <2> QED
      BY <2>1, <2>2
  <1> HIDE DEF S
  <1>7. \A i \in 0..n : i \in S
    BY <1>1, <1>6, Induction
  <1>8. f[n] \in Seq(N) /\ Has(f[n], n)
    <2>1. n \in S
      BY <1>1, <1>7
    <2> QED
      BY <2>1 DEF S
  <1>9. IsList(f[n])
    <2> DEFINE s == f[n]
    <2>1. s \in Seq(N)
      BY <1>8
    <2> HIDE DEF s, N
    <2>2. Len(s) \in Nat /\ s = [k \in 1..Len(s) |-> s[k]]
      BY <2>1
    <2> QED
      BY <2>2 DEF IsList, s
  <1>10. ASSUME NEW name
         PROVE  name \in NamesUpto(records, n) <=> ((\E r \in Range(records) : r.name = name) /\ name \notin OwnNames)
    <2>1. records = [k \in 1..n |-> records[k]]
      BY DEF n, IsList
    <2> QED
      BY <2>1 DEF NamesUpto, Range
  <1> QED
    BY <1>3, <1>8, <1>9, <1>10

(* What is below a directory, as extract-tree goes on with it.             *)
ChildrenOf(c, path, n) ==
  /\ IsList(c)
  /\ \A k \in 1..Len(c) : \E r \in Range(RecordsOf(n)) : r.name \notin OwnNames /\ c[k] = Append(path, r.name)
  /\ \A r \in Range(RecordsOf(n)) : r.name \notin OwnNames => \E k \in 1..Len(c) : c[k] = Append(path, r.name)

LEMMA ChildrenAreBelow ==
  ASSUME NEW v, IsVolume(v), NEW n \in v.nodes, n.kind = "directory", NEW i, IsInode(i, n),
         NEW path, NEW c \in Children(v, path, i)
  PROVE  ChildrenOf(c, path, n)
  <1> DEFINE records == RecordsOf(n)  names == Others(records)
  <1>1. c = [k \in DOMAIN names |-> Append(path, names[k])]
    BY ListIsRead DEF Children
  <1>2. IsList(records)
    BY DEF IsVolume, HasTree, RecordsOf
  <1>3. /\ IsList(names)
        /\ \A name : (\E k \in 1..Len(names) : names[k] = name)
                       <=> (\E r \in Range(records) : r.name = name) /\ name \notin OwnNames
    <2> HIDE DEF records
    <2> QED
      BY <1>2, OthersFacts
  <1> HIDE DEF names, records
  <1>4. Len(names) \in Nat /\ names = [k \in 1..Len(names) |-> names[k]]
    BY <1>3 DEF IsList
  <1> DEFINE m == Len(names)
  <1>5. c = [k \in 1..m |-> Append(path, names[k])]
    BY <1>1, <1>4
  <1>6. Len(c) = m
    <2>1. m \in Nat
      BY <1>4
    <2> HIDE DEF m
    <2> QED
      BY <1>5, <2>1
  <1>7. IsList(c)
    BY <1>4, <1>5, <1>6 DEF IsList
  <1>8. \A k \in 1..m : \E r \in Range(records) : r.name \notin OwnNames /\ c[k] = Append(path, r.name)
    BY <1>3, <1>5
  <1>9. \A r \in Range(records) : r.name \notin OwnNames => \E k \in 1..m : c[k] = Append(path, r.name)
    BY <1>3, <1>5
  <1> QED
    BY <1>6, <1>7, <1>8, <1>9 DEF ChildrenOf, records

(* s is p and then q.                                                      *)
IsJoined(s, p, q) ==
  /\ IsList(s) /\ Len(s) = Len(p) + Len(q)
  /\ \A k \in 1..Len(p) : s[k] = p[k]
  /\ \A k \in 1..Len(q) : s[Len(p) + k] = q[k]

(* s is p and then x.                                                      *)
IsLonger(s, p, x) ==
  /\ IsList(s) /\ Len(s) = Len(p) + 1 /\ s[Len(p) + 1] = x
  /\ \A k \in 1..Len(p) : s[k] = p[k]

(* A name that hides the concatenation from the provers.                   *)
Join(p, q) == p \o q

LEMMA JoinedLists ==
  ASSUME NEW p, NEW q, IsList(p), IsList(q)
  PROVE  IsJoined(Join(p, q), p, q)
  <1> DEFINE a == Len(p)  b == Len(q)  s == p \o q
             N == {p[k] : k \in 1..a} \cup {q[k] : k \in 1..b}
  <1>1. a \in Nat /\ b \in Nat /\ p \in Seq(N) /\ q \in Seq(N)
    BY DEF IsList
  <1> HIDE DEF N
  <1>2. /\ s \in Seq(N) /\ Len(s) = a + b
        /\ \A i \in 1..a : s[i] = p[i]
        /\ \A i \in (a + 1)..(a + b) : s[i] = q[i - a]
        /\ s = [i \in 1..(a + b) |-> s[i]]
    BY <1>1, Joined
  <1> HIDE DEF s, a, b
  <1>3. IsList(s)
    BY <1>1, <1>2 DEF IsList
  <1>4. ASSUME NEW k \in 1..b PROVE s[a + k] = q[k]
    <2>1. a + k \in (a + 1)..(a + b) /\ (a + k) - a = k
      BY <1>1
    <2> QED
      BY <1>2, <2>1
  <1> QED
    BY <1>2, <1>3, <1>4 DEF IsJoined, Join, s, a, b

LEMMA SameLists ==
  ASSUME NEW p, NEW q, IsList(p), IsList(q), Len(p) = Len(q), \A k \in 1..Len(p) : p[k] = q[k]
  PROVE  p = q
  BY DEF IsList

LEMMA Appended ==
  ASSUME NEW p, NEW x, IsList(p)
  PROVE  IsLonger(Append(p, x), p, x)
  <1> DEFINE a == Len(p)  s == Append(p, x)
  <1>1. a \in Nat
    BY DEF IsList
  <1>2. Len(s) = a + 1 /\ s[a + 1] = x /\ \A k \in 1..a : s[k] = p[k]
    BY DEF IsList
  <1> DEFINE N == {p[k] : k \in 1..a} \cup {x}
  <1>3. p \in Seq(N) /\ x \in N
    BY <1>1 DEF IsList
  <1>4. s = [k \in 1..Len(s) |-> s[k]]
    <2> HIDE DEF N
    <2>1. s \in Seq(N)
      BY <1>3
    <2> HIDE DEF s
    <2> QED
      BY <2>1
  <1> HIDE DEF s, a, N
  <1>5. IsList(s)
    BY <1>1, <1>2, <1>4 DEF IsList
  <1> QED
    BY <1>2, <1>5 DEF IsLonger, s, a

LEMMA JoinedTogether ==
  ASSUME NEW p, NEW q, IsPath(p), IsPath(q)
  PROVE  IsPath(Join(p, q))
  <1> DEFINE s == Join(p, q)  a == Len(p)  b == Len(q)
  <1>1. /\ IsList(s) /\ Len(s) = a + b
        /\ \A k \in 1..a : s[k] = p[k]
        /\ \A k \in 1..b : s[a + k] = q[k]
    <2>1. IsList(p) /\ IsList(q)
      BY DEF IsPath
    <2>2. IsJoined(s, p, q)
      BY <2>1, JoinedLists
    <2> HIDE DEF s
    <2> QED
      BY <2>2 DEF IsJoined
  <1>2. a \in Nat /\ b \in Nat /\ (\A k \in 1..a : p[k] \notin OwnNames) /\ \A k \in 1..b : q[k] \notin OwnNames
    BY DEF IsPath, IsList
  <1> HIDE DEF s, a, b
  <1>3. ASSUME NEW k \in 1..Len(s) PROVE s[k] \notin OwnNames
    <2>1. CASE k <= a
      BY <1>1, <1>2, <2>1
    <2>2. CASE ~(k <= a)
      <3>1. k - a \in 1..b /\ a + (k - a) = k
        BY <1>1, <1>2, <2>2
      <3> QED
        BY <1>1, <1>2, <3>1
    <2> QED
      BY <2>1, <2>2
  <1> QED
    BY <1>1, <1>3 DEF IsPath, s

LEMMA AppendedPath ==
  ASSUME NEW p, NEW x, IsPath(p), x \notin OwnNames
  PROVE  IsPath(Append(p, x))
  <1>1. IsList(p) /\ Len(p) \in Nat /\ \A k \in 1..Len(p) : p[k] \notin OwnNames
    BY DEF IsPath, IsList
  <1> DEFINE s == Append(p, x)
  <1>2. IsList(s) /\ Len(s) = Len(p) + 1 /\ (\A k \in 1..Len(p) : s[k] = p[k]) /\ s[Len(p) + 1] = x
    <2>1. IsLonger(s, p, x)
      BY <1>1, Appended
    <2> HIDE DEF s
    <2> QED
      BY <2>1 DEF IsLonger
  <1> HIDE DEF s
  <1> QED
    BY <1>1, <1>2 DEF IsPath, s

LEMMA JoinedByOne ==
  ASSUME NEW p, NEW q, NEW x, IsList(p), IsList(q)
  PROVE  Join(p, Append(q, x)) = Append(Join(p, q), x)
  <1> DEFINE s == Join(p, q)  t == Append(q, x)  l == Join(p, t)  r == Append(s, x)
             a == Len(p)  b == Len(q)
  <1>0. a \in Nat /\ b \in Nat
    BY DEF IsList
  <1>a. IsJoined(s, p, q) /\ IsLonger(t, q, x)
    BY JoinedLists, Appended
  <1> HIDE DEF t, s
  <1>1. IsList(s) /\ Len(s) = a + b /\ (\A k \in 1..a : s[k] = p[k]) /\ \A k \in 1..b : s[a + k] = q[k]
    BY <1>a DEF IsJoined
  <1>2. IsList(t) /\ Len(t) = b + 1 /\ (\A k \in 1..b : t[k] = q[k]) /\ t[b + 1] = x
    BY <1>a DEF IsLonger
  <1>b. IsJoined(l, p, t) /\ IsLonger(r, s, x)
    BY <1>1, <1>2, JoinedLists, Appended
  <1> HIDE DEF l, r
  <1>3. IsList(l) /\ Len(l) = a + Len(t) /\ (\A k \in 1..a : l[k] = p[k]) /\ \A k \in 1..Len(t) : l[a + k] = t[k]
    BY <1>b DEF IsJoined
  <1>4. IsList(r) /\ Len(r) = Len(s) + 1 /\ (\A k \in 1..Len(s) : r[k] = s[k]) /\ r[Len(s) + 1] = x
    BY <1>b DEF IsLonger
  <1> HIDE DEF a, b
  <1>5. Len(l) = Len(r) /\ Len(l) = a + b + 1
    BY <1>0, <1>1, <1>2, <1>3, <1>4
  <1>6. ASSUME NEW k \in 1..Len(l) PROVE l[k] = r[k]
    <2>1. CASE k <= a
      <3>1. k \in 1..a /\ k \in 1..Len(s)
        BY <1>0, <1>1, <1>5, <2>1
      <3> QED
        BY <1>1, <1>3, <1>4, <3>1
    <2>2. CASE ~(k <= a) /\ k <= a + b
      <3>1. k - a \in 1..b /\ a + (k - a) = k /\ k \in 1..Len(s) /\ k - a \in 1..Len(t)
        BY <1>0, <1>1, <1>2, <1>5, <2>2
      <3>2. l[k] = t[k - a] /\ s[k] = q[k - a]
        BY <1>1, <1>3, <3>1
      <3> QED
        BY <1>2, <1>4, <3>1, <3>2
    <2>3. CASE ~(k <= a + b)
      <3>1. k = a + (b + 1) /\ b + 1 \in 1..Len(t) /\ k = Len(s) + 1
        BY <1>0, <1>1, <1>2, <1>5, <2>3
      <3>2. l[k] = t[b + 1]
        BY <1>3, <3>1
      <3> QED
        BY <1>2, <1>4, <3>1, <3>2
    <2> QED
      BY <2>1, <2>2, <2>3
  <1>7. l = r
    BY <1>3, <1>4, <1>5, <1>6, SameLists
  <1> QED
    BY <1>7 DEF l, r, s, t

LEMMA JoinedApart ==
  ASSUME NEW p, NEW q, NEW r, IsList(p), IsList(q), IsList(r), Join(p, q) = Join(p, r)
  PROVE  q = r
  <1> DEFINE s == Join(p, q)
  <1>a. IsJoined(s, p, q)
    BY JoinedLists
  <1>b. IsJoined(s, p, r)
    BY JoinedLists
  <1> HIDE DEF s
  <1>1. Len(s) = Len(p) + Len(q) /\ \A k \in 1..Len(q) : s[Len(p) + k] = q[k]
    BY <1>a DEF IsJoined
  <1>2. Len(s) = Len(p) + Len(r) /\ \A k \in 1..Len(r) : s[Len(p) + k] = r[k]
    BY <1>b DEF IsJoined
  <1> HIDE DEF s
  <1>3. Len(p) \in Nat /\ Len(q) \in Nat /\ Len(r) \in Nat
    BY DEF IsList
  <1>4. Len(q) = Len(r)
    BY <1>1, <1>2, <1>3
  <1>5. \A k \in 1..Len(q) : q[k] = r[k]
    BY <1>1, <1>2, <1>4
  <1> QED
    BY <1>4, <1>5, SameLists

LEMMA PrefixFacts ==
  ASSUME NEW p, NEW q, IsList(p), IsList(q)
  PROVE  IsPrefix(p, q) <=> Len(p) <= Len(q) /\ \A k \in 1..Len(p) : p[k] = q[k]
  <1> DEFINE a == Len(p)  b == Len(q)  s == SubSeq(p, 1, a)  t == SubSeq(q, 1, a)
  <1>1. a \in Nat /\ b \in Nat
    BY DEF IsList
  <1>2. s = [k \in 1..a |-> p[k]]
    BY <1>1
  <1>3. a <= b => t = [k \in 1..a |-> q[k]]
    BY <1>1
  <1> HIDE DEF s, t, a, b
  <1>4. a <= b => (s = t <=> \A k \in 1..a : p[k] = q[k])
    <2>1. ASSUME a <= b, s = t, NEW k \in 1..a PROVE p[k] = q[k]
      <3>1. s[k] = p[k] /\ t[k] = q[k]
        BY <1>2, <1>3, <2>1
      <3> QED
        BY <2>1, <3>1
    <2>2. ASSUME a <= b, \A k \in 1..a : p[k] = q[k] PROVE s = t
      BY <1>2, <1>3, <2>2
    <2> QED
      BY <2>1, <2>2
  <1> QED
    BY <1>4 DEF IsPrefix, s, t, a, b

(* A list that goes on has its prefix one name further.                    *)
LEMMA LongerPrefix ==
  ASSUME NEW p, NEW q, IsList(p), IsList(q), IsPrefix(p, q), p # q
  PROVE  /\ Len(p) < Len(q)
         /\ IsPrefix(Append(p, q[Len(p) + 1]), q)
  <1> DEFINE a == Len(p)  b == Len(q)  s == Append(p, q[a + 1])
  <1>1. a \in Nat /\ b \in Nat
    BY DEF IsList
  <1>2. a <= b /\ \A k \in 1..a : p[k] = q[k]
    BY PrefixFacts
  <1>3. a # b
    BY <1>2, SameLists
  <1>c. IsLonger(s, p, q[a + 1])
    BY Appended
  <1>4. IsList(s) /\ Len(s) = a + 1 /\ (\A k \in 1..a : s[k] = p[k]) /\ s[a + 1] = q[a + 1]
    <2> HIDE DEF s
    <2> QED
      BY <1>c DEF IsLonger
  <1> HIDE DEF s, a, b
  <1>5. a + 1 <= b /\ \A k \in 1..(a + 1) : s[k] = q[k]
    BY <1>1, <1>2, <1>3, <1>4
  <1>6. IsPrefix(s, q)
    BY <1>4, <1>5, PrefixFacts DEF b
  <1> QED
    BY <1>1, <1>5, <1>6 DEF s, a, b

(* What is not at the top is in a directory, and that one in another.      *)
Above(v, path, k) ==
  \E d \in v.nodes :
    /\ d.kind = "directory" /\ IsList(d.path) /\ Len(d.path) = k
    /\ \A l \in 1..k : d.path[l] = path[l]
    /\ \E r \in Range(RecordsOf(d)) : r.name = path[k + 1] /\ r.name \notin OwnNames

LEMMA Ancestors ==
  ASSUME NEW v, IsVolume(v), NEW node \in v.nodes
  PROVE  \A k \in 0..(Len(node.path) - 1) : Above(v, node.path, k)
  <1> DEFINE N == Len(node.path)
             Good(m) == \A k \in 0..(Len(m.path) - 1) : Above(v, m.path, k)
             S == {j \in 0..N : \A m \in v.nodes : Len(m.path) = j => Good(m)}
  <1>1. \A m \in v.nodes : IsList(m.path) /\ (m.path # << >> => \E d \in v.nodes : IsIn(m, d))
    BY DEF IsVolume, HasTree
  <1>2. N \in Nat
    BY <1>1 DEF IsList
  <1> HIDE DEF N
  <1>3. ASSUME NEW j \in 0..N, \A l \in 0..(j - 1) : l \in S PROVE j \in S
    <2> SUFFICES ASSUME NEW m \in v.nodes, Len(m.path) = j, NEW k \in 0..(j - 1)
                 PROVE  Above(v, m.path, k)
      OBVIOUS
    <2>1. j # 0 /\ m.path # << >>
      BY <1>2
    <2>2. PICK d \in v.nodes : IsIn(m, d)
      BY <1>1, <2>1
    <2>3. PICK r \in Range(RecordsOf(d)) : r.name \notin OwnNames /\ m.path = Append(d.path, r.name)
      BY <2>2 DEF IsIn, RecordsOf
    <2>4. d.kind = "directory"
      BY <2>2 DEF IsIn
    <2> DEFINE p == m.path  q == d.path
    <2>5. IsList(q)
      BY <1>1
    <2>6. IsLonger(p, q, r.name)
      BY <2>3, <2>5, Appended
    <2> HIDE DEF p, q
    <2>7. /\ Len(q) \in Nat /\ Len(p) = Len(q) + 1 /\ p[Len(q) + 1] = r.name
          /\ \A l \in 1..Len(q) : p[l] = q[l]
      BY <2>5, <2>6 DEF IsLonger, IsList
    <2>8. Len(p) = j
      BY DEF p
    <2>9. CASE k = j - 1
      <3>1. Len(q) = k
        BY <1>2, <2>7, <2>8, <2>9
      <3> QED
        BY <2>3, <2>4, <2>5, <2>7, <3>1 DEF Above, p, q
    <2>10. CASE k # j - 1
      <3>1. Len(q) = j - 1 /\ Len(q) \in 0..(j - 1) /\ k \in 0..(Len(q) - 1)
        BY <1>2, <2>7, <2>8, <2>10
      <3>2. Good(d)
        <4>1. Len(q) \in S
          BY <1>3, <3>1
        <4> QED
          BY <4>1 DEF q
      <3>3. Above(v, q, k)
        BY <3>1, <3>2 DEF q
      <3>4. k + 1 \in 1..Len(q) /\ \A l \in 1..k : l \in 1..Len(q)
        BY <3>1
      <3>5. p[k + 1] = q[k + 1] /\ \A l \in 1..k : p[l] = q[l]
        BY <2>7, <3>4
      <3> QED
        BY <3>3, <3>5 DEF Above, p
    <2> QED
      BY <2>9, <2>10
  <1> HIDE DEF S
  <1>4. \A j \in 0..N : j \in S
    BY <1>2, <1>3, Induction
  <1>5. N \in S
    BY <1>2, <1>4
  <1> QED
    BY <1>5 DEF S, N

LEMMA NodesHavePaths ==
  ASSUME NEW v, IsVolume(v), NEW node \in v.nodes
  PROVE  IsPath(node.path)
  <1>1. IsList(node.path) /\ Len(node.path) \in Nat
    BY DEF IsVolume, HasTree, IsList
  <1>2. ASSUME NEW k \in 1..Len(node.path) PROVE node.path[k] \notin OwnNames
    <2>1. k - 1 \in 0..(Len(node.path) - 1) /\ (k - 1) + 1 = k
      BY <1>1
    <2>2. Above(v, node.path, k - 1)
      BY <2>1, Ancestors
    <2> QED
      BY <2>1, <2>2 DEF Above
  <1> QED
    BY <1>1, <1>2 DEF IsPath

(* A file on the way to another one is a directory with a record.          *)
OnTheWay(n, path) ==
  /\ n.kind = "directory"
  /\ \E r \in Range(RecordsOf(n)) : r.name = path[Len(n.path) + 1] /\ r.name \notin OwnNames

LEMMA WayDown ==
  ASSUME NEW v, IsVolume(v), NEW n \in v.nodes, NEW m \in v.nodes,
         IsPrefix(n.path, m.path), n.path # m.path,
         \A d \in v.nodes : d.path = n.path => d = n
  PROVE  OnTheWay(n, m.path)
  <1> DEFINE p == n.path  q == m.path  k == Len(p)
  <1>1. IsList(p) /\ IsList(q)
    BY DEF IsVolume, HasTree
  <1>2. k \in Nat /\ Len(q) \in Nat /\ k < Len(q)
    BY <1>1, LongerPrefix DEF IsList
  <1>3. \A l \in 1..k : p[l] = q[l]
    BY <1>1, PrefixFacts
  <1>4. Above(v, q, k)
    BY <1>2, Ancestors
  <1> HIDE DEF k, q
  <1>5. PICK d \in v.nodes :
          /\ d.kind = "directory" /\ IsList(d.path) /\ Len(d.path) = k
          /\ \A l \in 1..k : d.path[l] = q[l]
          /\ \E r \in Range(RecordsOf(d)) : r.name = q[k + 1] /\ r.name \notin OwnNames
    BY <1>4 DEF Above
  <1>6. d.path = p
    <2>1. Len(d.path) = Len(p) /\ \A l \in 1..Len(d.path) : d.path[l] = p[l]
      BY <1>3, <1>5 DEF k
    <2> HIDE DEF p
    <2> QED
      BY <1>1, <1>5, <2>1, SameLists
  <1>7. d = n
    BY <1>6
  <1> QED
    BY <1>5, <1>7 DEF OnTheWay, k, q

(* A tree that can be read all the way is found: its top ...               *)
LEMMA TopIsFound ==
  ASSUME NEW v, IsVolume(v), NEW node \in v.nodes,
         \A m, n \in v.nodes : m.path = n.path /\ IsPrefix(m.path, node.path) => m = n,
         \A n \in v.nodes : ~Hard(v, n)
  PROVE  resolve(v, node.path) # {}
  <1> DEFINE R == node.path
             S == {k \in 0..Len(R) : \A p : IsPath(p) /\ Len(p) = k /\ IsPrefix(p, R) => resolve(v, p) # {}}
  <1>1. IsPath(R) /\ IsList(R) /\ Len(R) \in Nat
    BY NodesHavePaths DEF IsPath, IsList
  <1> HIDE DEF R
  <1>2. ASSUME NEW k \in 0..Len(R), \A l \in 0..(k - 1) : l \in S PROVE k \in S
    <2> SUFFICES ASSUME NEW p, IsPath(p), Len(p) = k, IsPrefix(p, R)
                 PROVE  resolve(v, p) # {}
      OBVIOUS
    <2>1. CASE k = 0
      <3>1. p = << >>
        BY <2>1 DEF IsPath, IsList
      <3>2. PICK n \in v.nodes : n.path = << >> /\ n.ino = ROOT_INO
        BY DEF IsVolume, HasTree
      <3>3. PICK x : read_inode(v, n.ino) = {x} /\ IsInode(x, n)
        BY InodeIsRead
      <3> QED
        BY <3>1, <3>2, <3>3, RootIsResolved
    <2>2. CASE k # 0
      <3> DEFINE q == SubSeq(p, 1, Len(p) - 1)  name == p[Len(p)]
      <3>1. IsPath(q) /\ Len(q) = k - 1 /\ p = Append(q, name) /\ name \notin OwnNames
        BY <2>2, LastOfPath
      <3> HIDE DEF q, name
      <3>2. IsList(p) /\ IsList(q)
        BY <3>1 DEF IsPath
      <3>3. IsLonger(p, q, name)
        BY <3>1, <3>2, Appended
      <3>4. Len(p) <= Len(R) /\ \A l \in 1..Len(p) : p[l] = R[l]
        BY <1>1, <3>2, PrefixFacts
      <3>5. Len(q) \in Nat /\ Len(p) = Len(q) + 1 /\ p[Len(q) + 1] = name /\ \A l \in 1..Len(q) : p[l] = q[l]
        BY <3>2, <3>3 DEF IsLonger, IsList
      <3>6. /\ Len(q) <= Len(R) /\ Len(q) # Len(R) /\ R[Len(q) + 1] = name
            /\ \A l \in 1..Len(q) : q[l] = R[l]
        BY <1>1, <3>4, <3>5
      <3>7. IsPrefix(q, R) /\ q # R
        BY <1>1, <3>2, <3>6, PrefixFacts
      <3>8. resolve(v, q) # {}
        <4>1. k - 1 \in S
          BY <1>1, <1>2, <2>2
        <4> QED
          BY <3>1, <3>7, <4>1
      <3>9. PICK i \in resolve(v, q) : TRUE
        BY <3>8
      <3>10. PICK d \in v.nodes : d.path = q /\ IsInode(i, d)
        BY <3>1, ResolvedIsThere
      <3>11. OnTheWay(d, R)
        <4>1. \A e \in v.nodes : e.path = d.path => e = d
          BY <3>7, <3>10 DEF R
        <4>2. IsPrefix(d.path, node.path) /\ d.path # node.path
          BY <3>7, <3>10 DEF R
        <4> QED
          BY <4>1, <4>2, WayDown DEF R
      <3>12. PICK r \in Range(RecordsOf(d)) : r.name = name /\ r.name \notin OwnNames
        BY <3>6, <3>10, <3>11 DEF OnTheWay
      <3>13. d.kind = "directory"
        BY <3>11 DEF OnTheWay
      <3>14. Lookup(v, i, name) # {}
        <4>1. Lookup(v, i, r.name) # {} \/ Hard(v, d)
          BY <3>10, <3>12, <3>13, RecordIsFound
        <4> QED
          BY <3>12, <4>1
      <3>15. resolve(v, p) = UNION {Lookup(v, x, name) : x \in resolve(v, q)}
        BY <3>1, <3>2, NextIsResolved
      <3> QED
        BY <3>9, <3>14, <3>15
    <2> QED
      BY <2>1, <2>2
  <1> HIDE DEF S
  <1>3. \A k \in 0..Len(R) : k \in S
    BY <1>1, <1>2, Induction
  <1>4. IsPrefix(R, R)
    BY <1>1, PrefixFacts
  <1>5. Len(R) \in S
    BY <1>1, <1>3
  <1>6. resolve(v, R) # {}
    BY <1>1, <1>4, <1>5 DEF S
  <1> QED
    BY <1>6 DEF R

(* ... and what is in it.                                                  *)
LEMMA RestIsFound ==
  ASSUME NEW v, IsVolume(v), NEW n \in v.nodes, n.kind = "directory", ~Hard(v, n),
         NEW top, IsPath(top), NEW path, IsPath(path),
         NEW i \in resolve(v, Join(top, path)), IsInode(i, n),
         NEW c, ChildrenOf(c, path, n)
  PROVE  \A k \in 1..Len(c) : IsPath(c[k]) /\ resolve(v, Join(top, c[k])) # {}
  <1> SUFFICES ASSUME NEW k \in 1..Len(c) PROVE IsPath(c[k]) /\ resolve(v, Join(top, c[k])) # {}
    OBVIOUS
  <1>1. PICK r \in Range(RecordsOf(n)) : r.name \notin OwnNames /\ c[k] = Append(path, r.name)
    BY DEF ChildrenOf
  <1> DEFINE here == Join(top, path)  name == r.name
  <1>2. IsPath(c[k])
    BY <1>1, AppendedPath
  <1>3. Join(top, c[k]) = Append(here, name)
    <2>1. IsList(top) /\ IsList(path)
      BY DEF IsPath
    <2> QED
      BY <1>1, <2>1, JoinedByOne
  <1>4. IsList(here)
    BY JoinedTogether DEF IsPath
  <1> HIDE DEF here
  <1>5. resolve(v, Append(here, name)) = UNION {Lookup(v, x, name) : x \in resolve(v, here)}
    BY <1>4, NextIsResolved
  <1>6. Lookup(v, i, r.name) # {} \/ Hard(v, n)
    BY <1>1, RecordIsFound
  <1>7. i \in resolve(v, here)
    BY DEF here
  <1> QED
    BY <1>2, <1>3, <1>5, <1>6, <1>7

(* What is on the host is in the tree, and as it is there.                 *)
Copied(n) == [kind |-> n.kind, data |-> IF n.kind = "directory" THEN << >> ELSE n.content]

OnlyThere(v, top, x) ==
  \A p \in DOMAIN x : IsPath(p) /\ \E n \in v.nodes : n.path = Join(top, p) /\ x[p] = Copied(n)

(* What is in the tree is on the host, or below what is still to be done.  *)
NothingMissed(v, top, x, todo) ==
  \A n \in v.nodes : \A q : IsPath(q) /\ n.path = Join(top, q) =>
    q \in DOMAIN x \/ \E k \in 1..Len(todo) : IsPrefix(todo[k], q)

Distinct(v) == \A m, n \in v.nodes : m.path = n.path => m = n

With(x, path, node) == [p \in DOMAIN x \cup {path} |-> IF p = path THEN node ELSE x[p]]

LEMMA StillOnlyThere ==
  ASSUME NEW v, NEW top, NEW x, OnlyThere(v, top, x), NEW n \in v.nodes,
         NEW path, IsPath(path), n.path = Join(top, path)
  PROVE  OnlyThere(v, top, With(x, path, Copied(n)))
  <1> DEFINE node == Copied(n)  y == With(x, path, node)
  <1>1. DOMAIN y = DOMAIN x \cup {path} /\ \A p \in DOMAIN y : y[p] = IF p = path THEN node ELSE x[p]
    BY DEF With
  <1> HIDE DEF y
  <1>2. ASSUME NEW p \in DOMAIN y
        PROVE  IsPath(p) /\ \E m \in v.nodes : m.path = Join(top, p) /\ y[p] = Copied(m)
    <2>1. CASE p = path
      BY <1>1, <2>1
    <2>2. CASE p # path
      BY <1>1, <2>2 DEF OnlyThere
    <2> QED
      BY <2>1, <2>2
  <1>3. OnlyThere(v, top, y)
    BY <1>2 DEF OnlyThere
  <1> QED
    BY <1>3 DEF y

IsTodo(todo) == IsList(todo) /\ \A k \in 1..Len(todo) : IsPath(todo[k])

LEMMA TailOfTodo ==
  ASSUME NEW todo, IsTodo(todo), todo # << >>
  PROVE  /\ Len(todo) \in Nat \ {0} /\ Head(todo) = todo[1] /\ IsPath(todo[1])
         /\ IsTodo(Tail(todo)) /\ Len(Tail(todo)) = Len(todo) - 1
         /\ \A k \in 1..Len(Tail(todo)) : Tail(todo)[k] = todo[k + 1]
  <1> DEFINE n == Len(todo)  N == {todo[k] : k \in 1..n}
  <1>1. n \in Nat /\ todo \in Seq(N) /\ \A k \in 1..n : IsPath(todo[k])
    BY DEF IsTodo, IsList
  <1> HIDE DEF N
  <1>2. n # 0
    BY <1>1
  <1> DEFINE rest == Tail(todo)
  <1>3. Head(todo) = todo[1] /\ rest \in Seq(N) /\ Len(rest) = n - 1
    BY <1>1
  <1>4. \A k \in 1..Len(rest) : rest[k] = todo[k + 1]
    BY <1>1
  <1> HIDE DEF rest, n
  <1>5. IsList(rest)
    BY <1>3 DEF IsList
  <1>6. \A k \in 1..Len(rest) : k + 1 \in 1..n
    BY <1>1, <1>2, <1>3
  <1>7. IsTodo(rest)
    BY <1>1, <1>4, <1>5, <1>6 DEF IsTodo
  <1> QED
    BY <1>1, <1>2, <1>3, <1>4, <1>7 DEF rest, n

LEMMA MoreTodo ==
  ASSUME NEW c, NEW rest, IsTodo(c), IsTodo(rest)
  PROVE  IsTodo(Join(c, rest))
  <1> DEFINE s == Join(c, rest)  a == Len(c)  b == Len(rest)
  <1>1. IsJoined(s, c, rest)
    BY JoinedLists DEF IsTodo
  <1>2. a \in Nat /\ b \in Nat /\ (\A k \in 1..a : IsPath(c[k])) /\ \A k \in 1..b : IsPath(rest[k])
    BY DEF IsTodo, IsList
  <1> HIDE DEF s
  <1>3. IsList(s) /\ Len(s) = a + b /\ (\A k \in 1..a : s[k] = c[k]) /\ \A k \in 1..b : s[a + k] = rest[k]
    BY <1>1 DEF IsJoined
  <1> HIDE DEF a, b
  <1>4. ASSUME NEW k \in 1..Len(s) PROVE IsPath(s[k])
    <2>1. CASE k <= a
      BY <1>2, <1>3, <2>1
    <2>2. CASE ~(k <= a)
      <3>1. k - a \in 1..b /\ a + (k - a) = k
        BY <1>2, <1>3, <2>2
      <3> QED
        BY <1>2, <1>3, <3>1
    <2> QED
      BY <2>1, <2>2
  <1> QED
    BY <1>3, <1>4 DEF IsTodo, s

(* After one path nothing is missed if what is below it comes next.        *)
Next_(c, path, n) ==
  IF n.kind = "directory" THEN ChildrenOf(c, path, n) ELSE c = << >>

LEMMA NextIsTodo ==
  ASSUME NEW c, NEW path, IsPath(path), NEW n, Next_(c, path, n)
  PROVE  IsTodo(c)
  <1>1. CASE n.kind = "directory"
    <2>1. IsList(c) /\ \A k \in 1..Len(c) : \E r \in Range(RecordsOf(n)) : r.name \notin OwnNames /\ c[k] = Append(path, r.name)
      BY <1>1 DEF Next_, ChildrenOf
    <2>2. ASSUME NEW k \in 1..Len(c) PROVE IsPath(c[k])
      BY <2>1, AppendedPath
    <2> QED
      BY <2>1, <2>2 DEF IsTodo
  <1>2. CASE n.kind # "directory"
    <2>1. c = << >> /\ Len(c) = 0
      BY <1>2 DEF Next_
    <2> QED
      BY <2>1 DEF IsTodo, IsList
  <1> QED
    BY <1>1, <1>2

LEMMA StillNothingMissed ==
  ASSUME NEW v, IsVolume(v), Distinct(v), NEW top, IsPath(top),
         NEW x, NEW todo, IsTodo(todo), todo # << >>, NothingMissed(v, top, x, todo),
         NEW n \in v.nodes, n.path = Join(top, todo[1]),
         NEW c, Next_(c, todo[1], n), NEW y, DOMAIN y = DOMAIN x \cup {todo[1]}
  PROVE  NothingMissed(v, top, y, Join(c, Tail(todo)))
  <1> DEFINE path == todo[1]  rest == Tail(todo)  u == Join(c, rest)  a == Len(c)
  <1>1. /\ Len(todo) \in Nat \ {0} /\ IsPath(path)
        /\ IsTodo(rest) /\ Len(rest) = Len(todo) - 1
        /\ \A k \in 1..Len(rest) : rest[k] = todo[k + 1]
    BY TailOfTodo
  <1>2. IsTodo(c)
    BY <1>1, NextIsTodo
  <1>3. IsJoined(u, c, rest)
    BY <1>1, <1>2, JoinedLists DEF IsTodo
  <1> HIDE DEF u, rest
  <1>4. Len(u) = a + Len(rest) /\ (\A k \in 1..a : u[k] = c[k]) /\ \A k \in 1..Len(rest) : u[a + k] = rest[k]
    BY <1>3 DEF IsJoined
  <1>5. a \in Nat
    BY <1>2 DEF IsTodo, IsList
  <1> HIDE DEF a
  <1>6. ASSUME NEW m \in v.nodes, NEW q, IsPath(q), m.path = Join(top, q)
        PROVE  q \in DOMAIN y \/ \E k \in 1..Len(u) : IsPrefix(u[k], q)
    <2>1. CASE q \in DOMAIN x
      BY <2>1
    <2>2. ASSUME NEW k \in 1..Len(todo), IsPrefix(todo[k], q), k # 1
          PROVE  q \in DOMAIN y \/ \E l \in 1..Len(u) : IsPrefix(u[l], q)
      <3>1. k - 1 \in 1..Len(rest) /\ (k - 1) + 1 = k /\ a + (k - 1) \in 1..Len(u)
        BY <1>1, <1>4, <1>5, <2>2
      <3>2. u[a + (k - 1)] = todo[k]
        BY <1>1, <1>4, <3>1
      <3> QED
        BY <2>2, <3>1, <3>2
    <2>3. ASSUME IsPrefix(path, q), path # q
          PROVE  q \in DOMAIN y \/ \E l \in 1..Len(u) : IsPrefix(u[l], q)
      <3>1. IsList(path) /\ IsList(q) /\ IsList(top)
        BY <1>1, <1>6 DEF IsPath
      <3> DEFINE name == q[Len(path) + 1]  p == n.path  r == m.path
      <3>2. Len(path) < Len(q) /\ IsPrefix(Append(path, name), q)
        BY <2>3, <3>1, LongerPrefix
      <3>3. IsJoined(p, top, path) /\ IsJoined(r, top, q)
        BY <1>6, <3>1, JoinedLists
      <3>4. p # r
        BY <1>6, <2>3, <3>1, JoinedApart
      <3>5. \A k \in 1..Len(path) : path[k] = q[k]
        BY <2>3, <3>1, PrefixFacts
      <3>6. Len(path) \in Nat /\ Len(q) \in Nat /\ Len(top) \in Nat
        BY <3>1 DEF IsList
      <3> HIDE DEF p, r, name, path
      <3>7. /\ IsList(p) /\ Len(p) = Len(top) + Len(path)
            /\ (\A k \in 1..Len(top) : p[k] = top[k]) /\ \A k \in 1..Len(path) : p[Len(top) + k] = path[k]
        BY <3>3 DEF IsJoined
      <3>8. /\ IsList(r) /\ Len(r) = Len(top) + Len(q)
            /\ (\A k \in 1..Len(top) : r[k] = top[k]) /\ \A k \in 1..Len(q) : r[Len(top) + k] = q[k]
        BY <3>3 DEF IsJoined
      <3>9. ASSUME NEW k \in 1..Len(p) PROVE p[k] = r[k]
        <4>1. CASE k <= Len(top)
          BY <3>6, <3>7, <3>8, <4>1
        <4>2. CASE ~(k <= Len(top))
          <5>1. k - Len(top) \in 1..Len(path) /\ k - Len(top) \in 1..Len(q) /\ Len(top) + (k - Len(top)) = k
            BY <3>2, <3>6, <3>7, <4>2
          <5>2. p[Len(top) + (k - Len(top))] = path[k - Len(top)]
            BY <3>7, <5>1
          <5>3. r[Len(top) + (k - Len(top))] = q[k - Len(top)]
            BY <3>8, <5>1
          <5>4. path[k - Len(top)] = q[k - Len(top)]
            BY <3>5, <5>1
          <5> QED
            BY <5>1, <5>2, <5>3, <5>4
        <4> QED
          BY <4>1, <4>2
      <3>10. IsPrefix(p, r)
        <4>1. Len(p) <= Len(r)
          BY <3>2, <3>6, <3>7, <3>8
        <4>2. IsList(p) /\ IsList(r)
          BY <3>7, <3>8
        <4> QED
          BY <3>9, <4>1, <4>2, PrefixFacts
      <3>11. OnTheWay(n, r)
        <4>1. \A d \in v.nodes : d.path = n.path => d = n
          BY DEF Distinct
        <4> QED
          BY <3>4, <3>10, <4>1, WayDown DEF p, r
      <3>12. r[Len(p) + 1] = name
        <4>1. Len(path) + 1 \in 1..Len(q) /\ Len(p) + 1 = Len(top) + (Len(path) + 1)
          BY <3>2, <3>6, <3>7
        <4> QED
          BY <3>8, <4>1 DEF name
      <3>13. PICK e \in Range(RecordsOf(n)) : e.name = name /\ e.name \notin OwnNames
        BY <3>11, <3>12 DEF OnTheWay, p
      <3>14. ChildrenOf(c, path, n)
        BY <3>11 DEF OnTheWay, Next_, path
      <3>15. PICK l \in 1..a : c[l] = Append(path, name)
        BY <3>13, <3>14 DEF ChildrenOf, a
      <3>16. l \in 1..Len(u) /\ u[l] = c[l]
        BY <1>1, <1>4, <1>5, <3>15
      <3> QED
        BY <3>2, <3>15, <3>16
    <2>4. q \in DOMAIN x \/ \E k \in 1..Len(todo) : IsPrefix(todo[k], q)
      BY <1>6 DEF NothingMissed
    <2>5. CASE path = q
      BY <2>5
    <2> QED
      BY <2>1, <2>2, <2>3, <2>4, <2>5
  <1> QED
    BY <1>6 DEF NothingMissed, u, rest

(* The invariant of an extraction: its request can be met, what is there   *)
(* is right and the rest is below what is still to be done, which can be   *)
(* found if nothing in the file system is hard to read.                    *)
NoneHard(v) == \A n \in v.nodes : ~Hard(v, n)

ClearTo(v, top) ==
  /\ \E n \in v.nodes : n.path = top
  /\ \A m, n \in v.nodes : m.path = n.path /\ IsPrefix(m.path, top) => m = n

LeadsOn(v, top, todo) == \A k \in 1..Len(todo) : resolve(v, Join(top, todo[k])) # {}

Top == extractor.request.root

Underway ==
  /\ DOMAIN extractor = {"pc", "request", "offset", "todo", "why"}
  /\ extractor.request \in Requests
  /\ extractor.offset \in DOMAIN Volumes[extractor.request.volume].at
  /\ IsTodo(extractor.todo)

Copying ==
  /\ extracted = [p \in DOMAIN extracted |-> extracted[p]]
  /\ Distinct(Root) => /\ OnlyThere(Root, Top, extracted)
                       /\ NothingMissed(Root, Top, extracted, extractor.todo)

Findable == ClearTo(Root, Top) /\ NoneHard(Root) => LeadsOn(Root, Top, extractor.todo)

GivingUp == ClearTo(Root, Top) => ~NoneHard(Root)

ReadInv ==
  /\ extractor.pc # "idle" => Underway
  /\ extractor.pc \in {"walk", "done"} => Copying
  /\ extractor.pc = "walk" => Findable
  /\ extractor.pc = "done" => extractor.todo = << >>
  /\ extractor.pc = "failed" /\ extractor.why = "unreadable" => GivingUp

ReaderSpec == ReaderInit /\ [][ReaderNext \/ ProbeNext]_readerVars

LEMMA VolumeIsRead ==
  ASSUME Underway
  PROVE  IsVolume(Root) /\ IsPath(Top)
  BY ReaderAssumption DEF Underway, Root, Top

LEMMA JoinedToNothing ==
  ASSUME NEW p, IsList(p)
  PROVE  Join(p, << >>) = p
  <1> DEFINE s == Join(p, << >>)
  <1>1. IsList(<< >>) /\ Len(<< >>) = 0
    BY DEF IsList
  <1>2. IsJoined(s, p, << >>)
    BY <1>1, JoinedLists
  <1> HIDE DEF s
  <1>3. IsList(s) /\ Len(s) = Len(p) + 0 /\ Len(p) \in Nat /\ \A k \in 1..Len(p) : s[k] = p[k]
    BY <1>1, <1>2 DEF IsJoined, IsList
  <1>4. s = p
    BY <1>3, SameLists
  <1> QED
    BY <1>4 DEF s

LEMMA AskingReads ==
  ASSUME ReadInv, extract_tree
  PROVE  ReadInv'
  <1>1. PICK r \in Requests :
          \E o \in open_image(Volumes[r.volume], default_root_offset(Volumes[r.volume])) :
            extractor' = [pc |-> IF extracted = << >> THEN "walk" ELSE "failed", request |-> r,
                          offset |-> o, todo |-> << << >> >>, why |-> "exists"]
    BY DEF extract_tree
  <1>2. PICK o \in open_image(Volumes[r.volume], default_root_offset(Volumes[r.volume])) :
          extractor' = [pc |-> IF extracted = << >> THEN "walk" ELSE "failed", request |-> r,
                        offset |-> o, todo |-> << << >> >>, why |-> "exists"]
    BY <1>1
  <1>3. o \in DOMAIN Volumes[r.volume].at
    BY DEF open_image, _has_native_superblock
  <1>4. extracted' = extracted
    BY DEF extract_tree
  <1> DEFINE todo == << << >> >>
  <1>5. /\ extractor'.pc = (IF extracted = << >> THEN "walk" ELSE "failed") /\ extractor'.request = r
        /\ extractor'.offset = o /\ extractor'.todo = todo /\ extractor'.why = "exists"
        /\ DOMAIN extractor' = {"pc", "request", "offset", "todo", "why"}
    BY <1>2
  <1>6. IsTodo(todo) /\ Len(todo) = 1 /\ todo[1] = << >>
    BY DEF IsTodo, IsPath, IsList
  <1> HIDE DEF todo
  <1>7. Underway'
    BY <1>3, <1>5, <1>6 DEF Underway
  <1>8. IsVolume(Root') /\ IsPath(Top')
    BY <1>3, <1>5, ReaderAssumption DEF Root, Top
  <1> DEFINE v == Root'  top == Top'
  <1> HIDE DEF v, top
  <1>9. IsVolume(v) /\ IsPath(top)
    BY <1>8 DEF v, top
  <1>10. ASSUME extracted = << >> PROVE Copying'
    <2>1. DOMAIN extracted = {} /\ extracted = [p \in DOMAIN extracted |-> extracted[p]]
      BY <1>10
    <2>2. OnlyThere(v, top, extracted)
      BY <2>1 DEF OnlyThere
    <2>3. ASSUME NEW q, IsPath(q) PROVE IsPrefix(todo[1], q)
      <3>1. IsList(q) /\ Len(q) \in Nat /\ IsList(<< >>) /\ Len(<< >>) = 0
        BY <2>3 DEF IsPath, IsList
      <3>2. IsPrefix(<< >>, q)
        BY <3>1, PrefixFacts
      <3> QED
        BY <1>6, <3>2
    <2>4. NothingMissed(v, top, extracted, todo)
      BY <1>6, <2>3 DEF NothingMissed
    <2> QED
      BY <1>4, <1>5, <2>1, <2>2, <2>4 DEF Copying, v, top
  <1>11. Findable'
    <2>1. ASSUME ClearTo(v, top), NoneHard(v) PROVE LeadsOn(v, top, todo)
      <3>1. PICK n \in v.nodes : n.path = top
        BY <2>1 DEF ClearTo
      <3>2. \A m, l \in v.nodes : m.path = l.path /\ IsPrefix(m.path, n.path) => m = l
        BY <2>1, <3>1 DEF ClearTo
      <3>3. \A m \in v.nodes : ~Hard(v, m)
        BY <2>1 DEF NoneHard
      <3>4. resolve(v, n.path) # {}
        BY <1>9, <3>2, <3>3, TopIsFound
      <3>5. Join(top, << >>) = top
        BY <1>9, JoinedToNothing DEF IsPath
      <3>6. ASSUME NEW k \in 1..Len(todo) PROVE resolve(v, Join(top, todo[k])) # {}
        <4>1. k = 1
          BY <1>6
        <4> QED
          BY <1>6, <3>1, <3>4, <3>5, <4>1
      <3> QED
        BY <3>6 DEF LeadsOn
    <2> QED
      BY <1>5, <2>1 DEF Findable, v, top
  <1> QED
    BY <1>5, <1>7, <1>10, <1>11 DEF ReadInv

(* A file that is read, and how the walk goes on from it.                  *)
GoesOn(v, i, path, node, c) ==
  \/ /\ i.kind = "directory" /\ c \in Children(v, path, i)
     /\ node = [kind |-> "directory", data |-> << >>]
  \/ /\ i.kind # "directory" /\ c = << >>
     /\ \E d \in read_file(v, i) : node = [kind |-> i.kind, data |-> d]

Stuck(v, i, path) == (i.kind = "directory" /\ Children(v, path, i) = {}) \/ read_file(v, i) = {}

(* What may come of one path of those that are to be done.                 *)
Outcome(path) ==
  LET found == resolve(Root, Join(Top, path))
  IN \/ fail("unsafe") \/ fail("exists")
     \/ fail("unreadable") /\ (found = {} \/ \E i \in found : Stuck(Root, i, path))
     \/ \E i \in found : \E node, c :
          /\ GoesOn(Root, i, path, node, c)
          /\ extracted' = With(extracted, path, node)
          /\ extractor' = [extractor EXCEPT !.todo = Join(c, Tail(extractor.todo))]

LEMMA OneOutcome ==
  ASSUME Underway, extract_one
  PROVE  Outcome(extractor.todo[1])
  <1> DEFINE path == Head(extractor.todo)
             found == resolve(Root, Join(Top, path))
             puts(node) == extracted' = With(extracted, path, node)
             goes(more) == extractor' = [extractor EXCEPT !.todo = Join(more, Tail(extractor.todo))]
             Goal == \/ fail("unsafe") \/ fail("exists")
                     \/ fail("unreadable") /\ (found = {} \/ \E i \in found : Stuck(Root, i, path))
                     \/ \E i \in found : \E node, c : GoesOn(Root, i, path, node, c) /\ puts(node) /\ goes(c)
  <1>1. extractor.todo # << >> /\ path = extractor.todo[1]
    BY TailOfTodo DEF extract_one, Underway
  <1>2. IF Unsafe(path) THEN fail("unsafe") /\ UNCHANGED extracted
        ELSE IF found = {} THEN fail("unreadable") /\ UNCHANGED extracted
        ELSE \E i \in found :
             IF i.kind # "file" /\ path \in DOMAIN extracted THEN fail("exists") /\ UNCHANGED extracted
             ELSE IF i.kind = "directory"
             THEN /\ puts([kind |-> "directory", data |-> << >>])
                  /\ IF Children(Root, path, i) = {} THEN fail("unreadable")
                     ELSE \E c \in Children(Root, path, i) : goes(c)
             ELSE IF read_file(Root, i) = {} THEN fail("unreadable") /\ UNCHANGED extracted
             ELSE \E d \in read_file(Root, i) : puts([kind |-> i.kind, data |-> d]) /\ goes(<< >>)
    BY DEF extract_one, Join, Top, With
  <1> SUFFICES Goal
    BY <1>1 DEF Outcome
  <1> HIDE DEF path, puts, goes, found
  <1>3. CASE Unsafe(path)
    BY <1>2, <1>3
  <1>4. CASE ~Unsafe(path) /\ found = {}
    BY <1>2, <1>4
  <1>5. CASE ~Unsafe(path) /\ found # {}
    <2>1. PICK i \in found :
             IF i.kind # "file" /\ path \in DOMAIN extracted THEN fail("exists") /\ UNCHANGED extracted
             ELSE IF i.kind = "directory"
             THEN /\ puts([kind |-> "directory", data |-> << >>])
                  /\ IF Children(Root, path, i) = {} THEN fail("unreadable")
                     ELSE \E c \in Children(Root, path, i) : goes(c)
             ELSE IF read_file(Root, i) = {} THEN fail("unreadable") /\ UNCHANGED extracted
             ELSE \E d \in read_file(Root, i) : puts([kind |-> i.kind, data |-> d]) /\ goes(<< >>)
      BY <1>2, <1>5
    <2>2. CASE i.kind # "file" /\ path \in DOMAIN extracted
      BY <2>1, <2>2
    <2>3. CASE ~(i.kind # "file" /\ path \in DOMAIN extracted) /\ i.kind = "directory"
      <3>1. CASE Children(Root, path, i) = {}
        BY <2>1, <2>3, <3>1 DEF Stuck
      <3>2. CASE Children(Root, path, i) # {}
        <4>1. PICK c \in Children(Root, path, i) : goes(c)
          BY <2>1, <2>3, <3>2
        <4>2. puts([kind |-> "directory", data |-> << >>])
          BY <2>1, <2>3
        <4>3. GoesOn(Root, i, path, [kind |-> "directory", data |-> << >>], c)
          BY <2>3 DEF GoesOn
        <4> QED
          BY <4>1, <4>2, <4>3
      <3> QED
        BY <3>1, <3>2
    <2>4. CASE ~(i.kind # "file" /\ path \in DOMAIN extracted) /\ i.kind # "directory"
      <3>1. CASE read_file(Root, i) = {}
        BY <2>1, <2>4, <3>1 DEF Stuck
      <3>2. CASE read_file(Root, i) # {}
        <4>1. PICK d \in read_file(Root, i) : puts([kind |-> i.kind, data |-> d]) /\ goes(<< >>)
          BY <2>1, <2>4, <3>2
        <4>2. GoesOn(Root, i, path, [kind |-> i.kind, data |-> d], << >>)
          BY <2>4 DEF GoesOn
        <4> QED
          BY <4>1, <4>2
      <3> QED
        BY <3>1, <3>2
    <2> QED
      BY <2>2, <2>3, <2>4
  <1> QED
    BY <1>3, <1>4, <1>5

LEMMA FailedFacts ==
  ASSUME Underway, NEW why, fail(why)
  PROVE  /\ extractor'.pc = "failed" /\ extractor'.why = why
         /\ Underway' /\ Root' = Root /\ Top' = Top
  <1>1. /\ DOMAIN extractor' = DOMAIN extractor /\ extractor'.pc = "failed" /\ extractor'.why = why
        /\ extractor'.request = extractor.request /\ extractor'.offset = extractor.offset
        /\ extractor'.todo = extractor.todo
    BY DEF fail, Underway
  <1> QED
    BY <1>1 DEF Underway, Root, Top

LEMMA FailingReads ==
  ASSUME Underway, NEW why, fail(why), why = "unreadable" => GivingUp
  PROVE  ReadInv'
  <1>1. /\ extractor'.pc = "failed" /\ extractor'.why = why
        /\ Underway' /\ Root' = Root /\ Top' = Top
    BY FailedFacts
  <1>2. GivingUp' <=> GivingUp
    BY <1>1 DEF GivingUp
  <1> QED
    BY <1>1, <1>2 DEF ReadInv

(* What is resolved is a file of the tree, and what is stuck is hard.      *)
LEMMA FoundIsFile ==
  ASSUME Underway, NEW path, IsPath(path), NEW i \in resolve(Root, Join(Top, path))
  PROVE  \E n \in Root.nodes : n.path = Join(Top, path) /\ IsInode(i, n)
  <1>1. IsVolume(Root) /\ IsPath(Join(Top, path))
    BY VolumeIsRead, JoinedTogether
  <1> QED
    BY <1>1, ResolvedIsThere

LEMMA StuckIsHard ==
  ASSUME NEW v, IsVolume(v), NEW n \in v.nodes, NEW i, IsInode(i, n), NEW path, Stuck(v, i, path)
  PROVE  Hard(v, n)
  <1>1. read_file(v, i) = {} => Hard(v, n)
    BY ContentIsRead
  <1>2. Children(v, path, i) = {} => list_dir(v, i) = {}
    BY DEF Children
  <1>3. list_dir(v, i) = {} => Hard(v, n)
    BY ListIsRead
  <1> QED
    BY <1>1, <1>2, <1>3 DEF Stuck

LEMMA GoingOnIsRight ==
  ASSUME NEW v, IsVolume(v), NEW n \in v.nodes, NEW i, IsInode(i, n),
         NEW path, NEW node, NEW c, GoesOn(v, i, path, node, c)
  PROVE  node = Copied(n) /\ Next_(c, path, n)
  <1>1. i.kind = n.kind
    BY DEF IsInode
  <1>2. CASE n.kind = "directory"
    <2>1. c \in Children(v, path, i) /\ node = [kind |-> "directory", data |-> << >>]
      BY <1>1, <1>2 DEF GoesOn
    <2>2. ChildrenOf(c, path, n)
      BY <1>2, <2>1, ChildrenAreBelow
    <2> QED
      BY <1>2, <2>1, <2>2 DEF Copied, Next_
  <1>3. CASE n.kind # "directory"
    <2>1. c = << >> /\ \E d \in read_file(v, i) : node = [kind |-> i.kind, data |-> d]
      BY <1>1, <1>3 DEF GoesOn
    <2>2. \A d \in read_file(v, i) : d = n.content
      BY ContentIsRead
    <2>3. node = [kind |-> n.kind, data |-> n.content]
      BY <1>1, <2>1, <2>2
    <2> QED
      BY <1>3, <2>1, <2>3 DEF Copied, Next_
  <1> QED
    BY <1>2, <1>3

LEMMA StillLeadsOn ==
  ASSUME NEW v, IsVolume(v), NoneHard(v), NEW top, IsPath(top), NEW todo, IsTodo(todo), todo # << >>,
         LeadsOn(v, top, todo), NEW n \in v.nodes, NEW i \in resolve(v, Join(top, todo[1])), IsInode(i, n),
         NEW c, Next_(c, todo[1], n)
  PROVE  LeadsOn(v, top, Join(c, Tail(todo)))
  <1> DEFINE path == todo[1]  rest == Tail(todo)  u == Join(c, rest)  a == Len(c)
  <1>1. /\ Len(todo) \in Nat \ {0} /\ IsPath(path)
        /\ IsTodo(rest) /\ Len(rest) = Len(todo) - 1
        /\ \A k \in 1..Len(rest) : rest[k] = todo[k + 1]
    BY TailOfTodo
  <1>2. IsTodo(c)
    BY <1>1, NextIsTodo
  <1>3. IsJoined(u, c, rest)
    BY <1>1, <1>2, JoinedLists DEF IsTodo
  <1> HIDE DEF u, rest
  <1>4. Len(u) = a + Len(rest) /\ (\A k \in 1..a : u[k] = c[k]) /\ \A k \in 1..Len(rest) : u[a + k] = rest[k]
    BY <1>3 DEF IsJoined
  <1>5. a \in Nat
    BY <1>2 DEF IsTodo, IsList
  <1>6. \A k \in 1..a : resolve(v, Join(top, c[k])) # {}
    <2>1. CASE n.kind = "directory"
      <3>1. ChildrenOf(c, path, n) /\ ~Hard(v, n)
        BY <2>1 DEF Next_, NoneHard
      <3> HIDE DEF path
      <3>2. i \in resolve(v, Join(top, path))
        BY DEF path
      <3> QED
        BY <1>1, <2>1, <3>1, <3>2, RestIsFound
    <2>2. CASE n.kind # "directory"
      <3>1. a = 0
        BY <2>2 DEF Next_
      <3> QED
        BY <3>1
    <2> QED
      BY <2>1, <2>2
  <1> HIDE DEF a
  <1>7. ASSUME NEW k \in 1..Len(u) PROVE resolve(v, Join(top, u[k])) # {}
    <2>1. CASE k <= a
      <3>1. k \in 1..a
        BY <1>5, <2>1
      <3> QED
        BY <1>4, <1>6, <3>1
    <2>2. CASE ~(k <= a)
      <3> DEFINE l == k - a
      <3>1. l \in 1..Len(rest) /\ a + l = k /\ l + 1 \in 1..Len(todo)
        BY <1>1, <1>4, <1>5, <2>2
      <3> HIDE DEF l
      <3>2. u[k] = todo[l + 1]
        BY <1>1, <1>4, <3>1
      <3> QED
        BY <3>1, <3>2 DEF LeadsOn
    <2> QED
      BY <2>1, <2>2
  <1> QED
    BY <1>7 DEF LeadsOn, u, rest

LEMMA OneReads ==
  ASSUME ReadInv, extract_one
  PROVE  ReadInv'
  <1> DEFINE todo == extractor.todo  path == todo[1]  v == Root  top == Top  found == resolve(v, Join(top, path))
  <1>1. extractor.pc = "walk" /\ todo # << >>
    BY DEF extract_one
  <1>2. Underway /\ Copying /\ Findable
    BY <1>1 DEF ReadInv
  <1>3. IsVolume(v) /\ IsPath(top) /\ IsTodo(todo)
    BY <1>2, VolumeIsRead DEF Underway
  <1>4. IsPath(path) /\ 1 \in 1..Len(todo)
    BY <1>1, <1>3, TailOfTodo
  <1>5. \A i \in found : \E n \in v.nodes : n.path = Join(top, path) /\ IsInode(i, n)
    BY <1>2, <1>4, FoundIsFile
  <1>6. Outcome(path)
    BY <1>2, OneOutcome
  <1>7. CASE fail("unsafe") \/ fail("exists")
    BY <1>2, <1>7, FailingReads
  <1>8. CASE fail("unreadable") /\ (found = {} \/ \E i \in found : Stuck(v, i, path))
    <2>1. ASSUME ClearTo(v, top), NoneHard(v) PROVE FALSE
      <3>1. found # {}
        BY <1>2, <1>4, <2>1 DEF Findable, LeadsOn
      <3>2. PICK i \in found : Stuck(v, i, path)
        BY <1>8, <3>1
      <3>3. PICK n \in v.nodes : IsInode(i, n)
        BY <1>5
      <3> QED
        BY <1>3, <2>1, <3>2, <3>3, StuckIsHard DEF NoneHard
    <2>2. GivingUp
      BY <2>1 DEF GivingUp
    <2> QED
      BY <1>2, <1>8, <2>2, FailingReads
  <1>9. ASSUME NEW i \in found, NEW node, NEW c,
               GoesOn(v, i, path, node, c), extracted' = With(extracted, path, node),
               extractor' = [extractor EXCEPT !.todo = Join(c, Tail(todo))]
        PROVE  ReadInv'
    <2> DEFINE after == Join(c, Tail(todo))
    <2>1. PICK n \in v.nodes : n.path = Join(top, path) /\ IsInode(i, n)
      BY <1>5
    <2>2. node = Copied(n) /\ Next_(c, path, n)
      BY <1>3, <1>9, <2>1, GoingOnIsRight
    <2>3. IsTodo(after)
      <3>1. IsTodo(c)
        BY <1>4, <2>2, NextIsTodo
      <3> QED
        BY <1>1, <1>3, <3>1, TailOfTodo, MoreTodo
    <2>4. ASSUME Distinct(v), NothingMissed(v, top, extracted, todo)
          PROVE  NothingMissed(v, top, extracted', after)
      <3>1. DOMAIN (extracted') = DOMAIN extracted \cup {path}
        BY <1>9 DEF With
      <3>2. Next_(c, todo[1], n) /\ n.path = Join(top, todo[1])
        BY <2>1, <2>2
      <3> HIDE DEF v, top, path
      <3>3. DOMAIN (extracted') = DOMAIN extracted \cup {todo[1]}
        BY <3>1 DEF path
      <3> HIDE DEF todo
      <3> QED
        BY <1>1, <1>3, <2>1, <2>4, <3>2, <3>3, StillNothingMissed
    <2>5. ASSUME OnlyThere(v, top, extracted)
          PROVE  OnlyThere(v, top, extracted')
      BY <1>4, <1>9, <2>1, <2>2, <2>5, StillOnlyThere
    <2>6. ASSUME NoneHard(v), LeadsOn(v, top, todo) PROVE LeadsOn(v, top, after)
      <3>1. i \in resolve(v, Join(top, todo[1])) /\ Next_(c, todo[1], n)
        BY <2>2
      <3> HIDE DEF v, top, path, todo
      <3> QED
        BY <1>1, <1>3, <2>1, <2>6, <3>1, StillLeadsOn
    <2> HIDE DEF after
    <2>7. /\ DOMAIN extractor' = DOMAIN extractor /\ extractor'.pc = extractor.pc
          /\ extractor'.request = extractor.request /\ extractor'.offset = extractor.offset
          /\ extractor'.todo = after /\ extractor'.why = extractor.why
      BY <1>2, <1>9 DEF Underway, after
    <2>8. Underway' /\ Root' = Root /\ Top' = Top
      BY <1>2, <2>3, <2>7 DEF Underway, Root, Top
    <2>9. Copying'
      <3>1. extracted' = [p \in DOMAIN extracted' |-> extracted'[p]]
        BY <1>9 DEF With
      <3>2. Distinct(v) => OnlyThere(v, top, extracted') /\ NothingMissed(v, top, extracted', after)
        BY <1>2, <2>4, <2>5 DEF Copying
      <3> QED
        BY <2>7, <2>8, <3>1, <3>2 DEF Copying
    <2>10. Findable'
      <3>1. ClearTo(v, top) /\ NoneHard(v) => LeadsOn(v, top, after)
        BY <1>2, <2>6 DEF Findable
      <3> QED
        BY <2>7, <2>8, <3>1 DEF Findable
    <2>11. extractor'.pc = "walk"
      BY <1>1, <2>7
    <2> QED
      BY <2>8, <2>9, <2>10, <2>11 DEF ReadInv
  <1> QED
    BY <1>6, <1>7, <1>8, <1>9 DEF Outcome

LEMMA ReadingHolds == ReaderSpec => []ReadInv
  <1>1. ReaderInit => ReadInv
    BY DEF ReaderInit, ReadInv
  <1>2. ReadInv /\ [ReaderNext \/ ProbeNext]_readerVars => ReadInv'
    <2> SUFFICES ASSUME ReadInv, [ReaderNext \/ ProbeNext]_readerVars PROVE ReadInv'
      OBVIOUS
    <2>1. CASE extract_tree
      BY <2>1, AskingReads
    <2>2. CASE extract_one
      BY <2>2, OneReads
    <2>3. CASE finish
      <3>1. Underway /\ Copying /\ extractor.todo = << >> /\ extracted' = extracted
            /\ extractor' = [extractor EXCEPT !.pc = "done"]
        BY <2>3 DEF ReadInv, finish
      <3>2. /\ DOMAIN extractor' = DOMAIN extractor /\ extractor'.pc = "done"
            /\ extractor'.request = extractor.request /\ extractor'.offset = extractor.offset
            /\ extractor'.todo = extractor.todo
        BY <3>1 DEF Underway
      <3>3. Underway' /\ Root' = Root /\ Top' = Top
        BY <3>1, <3>2 DEF Underway, Root, Top
      <3>4. Copying'
        BY <3>1, <3>2, <3>3 DEF Copying
      <3> QED
        BY <3>1, <3>2, <3>3, <3>4 DEF ReadInv
    <2>4. CASE kill_extractor
      <3>1. Underway /\ fail("killed")
        BY <2>4 DEF ReadInv, kill_extractor
      <3> QED
        BY <3>1, FailingReads
    <2>5. CASE UNCHANGED <<extracted, extractor>>
      BY <2>5 DEF ReadInv, Underway, Copying, Findable, GivingUp, Root, Top
    <2> QED
      BY <2>1, <2>2, <2>3, <2>4, <2>5 DEF ReaderNext, ProbeNext, inspect_xnu_root, readerVars
  <1> QED
    BY <1>1, <1>2, PTL DEF ReaderSpec

(* The path of a file below a directory, from there.                       *)
PathFrom(top, path) == SubSeq(path, Len(top) + 1, Len(path))

LEMMA WayBack ==
  ASSUME NEW top, NEW path, IsPath(top), IsPath(path), IsPrefix(top, path)
  PROVE  IsPath(PathFrom(top, path)) /\ path = Join(top, PathFrom(top, path))
  <1> DEFINE a == Len(top)  b == Len(path)  q == PathFrom(top, path)
  <1>1. /\ a \in Nat /\ b \in Nat /\ IsList(top) /\ IsList(path)
        /\ \A k \in 1..b : path[k] \notin OwnNames
    BY DEF IsPath, IsList
  <1>2. a <= b /\ \A k \in 1..a : top[k] = path[k]
    BY <1>1, PrefixFacts
  <1>3. q = [k \in 1..(b - a) |-> path[a + k]]
    BY <1>1, <1>2 DEF PathFrom
  <1>4. Len(q) = b - a
    <2> HIDE DEF q, a, b
    <2> QED
      BY <1>1, <1>2, <1>3
  <1> HIDE DEF q, a, b
  <1>5. IsList(q) /\ \A k \in 1..Len(q) : q[k] = path[a + k] /\ a + k \in 1..b
    BY <1>1, <1>2, <1>3, <1>4 DEF IsList
  <1>6. IsPath(q)
    BY <1>1, <1>5 DEF IsPath
  <1> DEFINE s == Join(top, q)
  <1>7. IsJoined(s, top, q)
    BY <1>1, <1>5, JoinedLists
  <1> HIDE DEF s
  <1>8. IsList(s) /\ Len(s) = a + Len(q) /\ (\A k \in 1..a : s[k] = top[k]) /\ \A k \in 1..Len(q) : s[a + k] = q[k]
    BY <1>7 DEF IsJoined, a
  <1>9. ASSUME NEW k \in 1..Len(path) PROVE path[k] = s[k]
    <2>1. CASE k <= a
      BY <1>1, <1>2, <1>8, <2>1
    <2>2. CASE ~(k <= a)
      <3>1. k - a \in 1..Len(q) /\ a + (k - a) = k
        BY <1>1, <1>4, <2>2 DEF b
      <3>2. q[k - a] = path[k] /\ s[k] = q[k - a]
        BY <1>5, <1>8, <3>1
      <3> QED
        BY <3>2
    <2> QED
      BY <2>1, <2>2
  <1>10. Len(path) = Len(s)
    BY <1>1, <1>4, <1>8 DEF b
  <1>11. path = s
    BY <1>1, <1>8, <1>9, <1>10, SameLists
  <1> QED
    BY <1>6, <1>11 DEF q, s

LEMMA WayThere ==
  ASSUME NEW top, NEW q, IsPath(top), IsPath(q)
  PROVE  IsPrefix(top, Join(top, q)) /\ PathFrom(top, Join(top, q)) = q
  <1> DEFINE s == Join(top, q)
  <1>1. IsList(top) /\ IsList(q) /\ Len(top) \in Nat /\ Len(q) \in Nat
    BY DEF IsPath, IsList
  <1>2. IsJoined(s, top, q) /\ IsPath(s)
    BY <1>1, JoinedLists, JoinedTogether
  <1> HIDE DEF s
  <1>3. IsList(s) /\ Len(s) = Len(top) + Len(q) /\ \A k \in 1..Len(top) : s[k] = top[k]
    BY <1>2 DEF IsJoined
  <1>4. IsPrefix(top, s)
    <2>1. Len(top) <= Len(s) /\ \A k \in 1..Len(top) : top[k] = s[k]
      BY <1>1, <1>3
    <2> QED
      BY <1>1, <1>3, <2>1, PrefixFacts
  <1>5. IsPath(PathFrom(top, s)) /\ s = Join(top, PathFrom(top, s))
    BY <1>2, <1>4, WayBack
  <1>6. PathFrom(top, s) = q
    <2> DEFINE r == PathFrom(top, s)
    <2>1. IsList(r) /\ Join(top, q) = Join(top, r)
      BY <1>5 DEF IsPath, s
    <2> HIDE DEF r
    <2>2. q = r
      BY <1>1, <2>1, JoinedApart
    <2> QED
      BY <2>2 DEF r
  <1> QED
    BY <1>4, <1>6 DEF s

LEMMA ReadIsWanted ==
  ASSUME NEW v, IsVolume(v), Distinct(v), NEW top, IsPath(top), NEW x,
         x = [p \in DOMAIN x |-> x[p]], OnlyThere(v, top, x), NothingMissed(v, top, x, << >>)
  PROVE  x = Wanted(v, top)
  <1> DEFINE below == {n \in v.nodes : IsPrefix(top, n.path)}
             rest(n) == PathFrom(top, n.path)
             whose(p) == CHOOSE m \in below : rest(m) = p
             D == {rest(n) : n \in below}
  <1>1. Wanted(v, top) = [p \in D |-> Copied(whose(p))]
    BY DEF Wanted, PathFrom, Copied
  <1>2. ASSUME NEW n \in below PROVE IsPath(rest(n)) /\ n.path = Join(top, rest(n)) /\ rest(n) \in DOMAIN x
    <2>1. IsPath(n.path) /\ IsPrefix(top, n.path)
      BY NodesHavePaths
    <2>2. IsPath(rest(n)) /\ n.path = Join(top, rest(n))
      BY <2>1, WayBack
    <2> HIDE DEF rest
    <2>3. Len(<< >>) = 0
      OBVIOUS
    <2>4. rest(n) \in DOMAIN x
      BY <2>2, <2>3 DEF NothingMissed
    <2> QED
      BY <2>2, <2>4
  <1>3. ASSUME NEW p \in DOMAIN x PROVE p \in D /\ x[p] = Copied(whose(p))
    <2>1. PICK n \in v.nodes : IsPath(p) /\ n.path = Join(top, p) /\ x[p] = Copied(n)
      BY DEF OnlyThere
    <2>2. IsPrefix(top, n.path) /\ rest(n) = p
      BY <2>1, WayThere
    <2>3. n \in below /\ p \in D
      BY <2>2
    <2>4. whose(p) \in below /\ rest(whose(p)) = p
      <3> HIDE DEF below, rest
      <3>1. \E m \in below : rest(m) = p
        BY <2>2, <2>3
      <3> QED
        BY <3>1
    <2> HIDE DEF whose, rest
    <2>5. whose(p) \in v.nodes /\ whose(p).path = Join(top, p)
      BY <1>2, <2>4
    <2>6. whose(p) = n
      BY <2>1, <2>5 DEF Distinct
    <2> QED
      BY <2>1, <2>3, <2>6
  <1>4. D \subseteq DOMAIN x
    BY <1>2
  <1> HIDE DEF D, whose
  <1>5. DOMAIN x = D
    BY <1>3, <1>4
  <1>6. x = [p \in D |-> Copied(whose(p))]
    BY <1>3, <1>5
  <1> QED
    BY <1>1, <1>6

LEMMA ReadInvShows ==
  ASSUME ReadInv
  PROVE  TreeIsExtracted /\ OnlyHardTreesFail
  <1>1. TreeIsExtracted
    <2> SUFFICES ASSUME extractor.pc = "done", ~\E m, n \in Root.nodes : m # n /\ m.path = n.path
                 PROVE  extracted = Wanted(Root, extractor.request.root)
      BY DEF TreeIsExtracted
    <2>1. Underway /\ Copying /\ extractor.todo = << >>
      BY DEF ReadInv
    <2>2. Distinct(Root)
      BY DEF Distinct
    <2>3. IsVolume(Root) /\ IsPath(Top)
      BY <2>1, VolumeIsRead
    <2>4. /\ extracted = [p \in DOMAIN extracted |-> extracted[p]]
          /\ OnlyThere(Root, Top, extracted) /\ NothingMissed(Root, Top, extracted, << >>)
      BY <2>1, <2>2 DEF Copying
    <2>5. extracted = Wanted(Root, Top)
      BY <2>2, <2>3, <2>4, ReadIsWanted
    <2> QED
      BY <2>5 DEF Top
  <1>2. OnlyHardTreesFail
    <2>1. extractor.pc = "failed" /\ extractor.why = "unreadable" /\ ClearTo(Root, Top)
            => \E n \in Root.nodes : Hard(Root, n)
      BY DEF ReadInv, GivingUp, NoneHard
    <2> QED
      BY <2>1 DEF OnlyHardTreesFail, ClearTo, Top, Hard, BlocksOf
  <1> QED
    BY <1>1, <1>2

LEMMA ReadersAlone == Spec => []ReadInv
  <1>1. Init => ReaderInit
    BY DEF Init
  <1>2. [Next]_hostVars => [ReaderNext \/ ProbeNext]_readerVars
    BY DEF Next, hostVars, readerVars
  <1>3. Spec => ReaderSpec
    BY <1>1, <1>2, PTL DEF Spec, ReaderSpec
  <1> QED
    BY <1>3, ReadingHolds, PTL

(* A tree that is reported as extracted is the directory that was asked    *)
(* for, every file byte for byte and nothing of another one: in any file   *)
(* system that is laid out as newfs and the kernel do it, of any geometry, *)
(* and however often an extraction was killed and started again.           *)
THEOREM TreesAreExtracted == Spec => []TreeIsExtracted
  <1>1. ReadInv => TreeIsExtracted
    BY ReadInvShows
  <1> QED
    BY <1>1, ReadersAlone, PTL

(* The reader gives up on a tree that is there only if there is a file in  *)
(* the file system that it says it cannot read: it finds its way to        *)
(* everything else, whatever group an inode is in and wherever the blocks  *)
(* of the directories are.                                                 *)
THEOREM OnlyHardOnesFail == Spec => []OnlyHardTreesFail
  <1>1. ReadInv => OnlyHardTreesFail
    BY ReadInvShows
  <1> QED
    BY <1>1, ReadersAlone, PTL
=============================================================================
