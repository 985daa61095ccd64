----------------------------- MODULE Publishers -----------------------------
(***************************************************************************)
(* The commands that make a directory from other files: `package build`    *)
(* (composer.py) makes a package from a payload and a reviewed recipe, the *)
(* glide commands (glide.py) make a reference from an archive or an image, *)
(* and a driver from build products.  Each checks its sources, fills a     *)
(* temporary directory beside its output, one source after the other, and  *)
(* renames it.                                                             *)
(*                                                                         *)
(* Meanwhile the sources may be edited, and commands run beside each other,*)
(* fail and are killed.  A source is a record [kind, data, safe, arch],    *)
(* Nothing if it is not there.                                             *)
(***************************************************************************)
EXTENDS Integers, Sequences, TLC

CONSTANTS
  Makers,     \* processes that run such a command
  Tasks,      \* what each may be asked: [op, output, items, named, valid]
  Sources,    \* what the sources may hold at first
  Edits,      \* what they may become: a set of records [item, to]
  MaxEdits,   \* how often they are edited
  Mishaps,    \* what goes wrong: "tool", "kill"
  Nothing

(* A driver is made of at least the two programs.                          *)
ASSUME PublisherAssumption ==
  \A m \in Makers : \A t \in Tasks[m] :
    /\ t.op \in {"package", "reference", "dr2", "driver"}
    /\ t.op = "driver" => \E k, l \in DOMAIN t.items : t.items[k] = "kernel" /\ t.items[l] = "server"

VARIABLES
  sources,   \* what each source holds
  edits,     \* how often they were edited
  recipe,    \* the reviewed recipe: the inventory its digest stands for
  made,      \* what is under each output's name
  maker      \* each command: where it is (pc), its task, what its sources
             \* held when it checked them, its bill of materials, the items in
             \* its temporary directory; and, history, the edits and the
             \* recipe there were when it checked

publisherVars == <<sources, edits, recipe, made, maker>>

OutputNames == UNION {{t.output : t \in Tasks[m]} : m \in Makers}

Idle == [pc |-> "idle"]

PublisherInit ==
  /\ sources \in Sources /\ edits = 0 /\ recipe = Nothing
  /\ made = [o \in OutputNames |-> Nothing]
  /\ maker = [m \in Makers |-> Idle]

ItemsOf(t) == {t.items[k] : k \in DOMAIN t.items}

(* payload_inventory: what the payload holds, if it can be packed at all.  *)
payload_inventory(items) ==
  LET there == {i \in items : sources[i] # Nothing}
  IN IF /\ \A i \in there : sources[i].safe /\ sources[i].kind \in {"directory", "file", "symlink"}
        /\ \E i \in there : sources[i].kind # "directory"
     THEN {[i \in there |-> sources[i]]} ELSE {}

Material(inventory) == {i \in DOMAIN inventory : inventory[i].kind # "directory"}

(* `package plan` writes the recipe by renaming a finished file.           *)
package_recipe(m) ==
  /\ maker[m] = Idle
  /\ \E t \in {u \in Tasks[m] : u.op = "package" /\ u.valid} :
       \E inventory \in payload_inventory(ItemsOf(t)) : recipe' = inventory
  /\ UNCHANGED <<sources, edits, made, maker>>

-----------------------------------------------------------------------------
(* Mutant: a payload with the same paths will do.                          *)
SamePayloadPaths(inventory) == DOMAIN inventory = DOMAIN recipe

SamePayload(inventory) == inventory = recipe

(* What each command checks before it makes anything.                      *)
IsMachO(i) == sources[i].arch = "i386"

Checks(t) ==
  /\ made[t.output] = Nothing
  /\ CASE t.op = "package" ->
            /\ recipe # Nothing /\ t.valid /\ t.named
            /\ \E inventory \in payload_inventory(ItemsOf(t)) : SamePayload(inventory)
       [] t.op = "driver" ->
            (\A i \in ItemsOf(t) : sources[i] # Nothing) /\ IsMachO("kernel") /\ IsMachO("server")
       [] t.op \in {"reference", "dr2"} -> sources["archive"] # Nothing

FromArchive(t) == t.op \in {"reference", "dr2"}

Inventory(t) ==
  IF t.op = "package" THEN CHOOSE i \in payload_inventory(ItemsOf(t)) : TRUE
  ELSE [i \in ItemsOf(t) |-> sources[IF FromArchive(t) THEN "archive" ELSE i]]

becomes(m, k) == maker' = [maker EXCEPT ![m] = k]

check(m) ==
  /\ maker[m] = Idle
  /\ \E t \in Tasks[m] :
       /\ Checks(t)
       /\ becomes(m, [pc |-> IF t.op = "package" THEN "bom" ELSE "take", task |-> t,
                      checked |-> Inventory(t), bom |-> << >>, taken |-> << >>,
                      edits |-> edits, recipe |-> recipe])
  /\ UNCHANGED <<sources, edits, recipe, made>>

(* Whatever raises takes the temporary directory away.                     *)
abandon(m) == becomes(m, Idle)

(* The bill of materials comes from an inventory of its own.               *)
write_openstep_bom(m) ==
  /\ maker[m].pc = "bom"
  /\ LET now == payload_inventory(ItemsOf(maker[m].task))
     IN \/ \E i \in now :
             becomes(m, [maker[m] EXCEPT !.bom = [p \in Material(i) |-> i[p]], !.pc = "take"])
        \/ now = {} /\ abandon(m)
  /\ UNCHANGED <<sources, edits, recipe, made>>

(* The places in the command's list whose items are still to be taken.     *)
Left(m) ==
  LET k == maker[m]
  IN {n \in DOMAIN k.task.items : k.task.items[n] \in DOMAIN k.checked \ DOMAIN k.taken}

(* An entry of the payload or a build product is read as it is now, and a  *)
(* member from the archive or image that was opened, or from the one that  *)
(* has been written over it.                                               *)
Readable(m, i) ==
  IF FromArchive(maker[m].task)
  THEN {v \in {maker[m].checked[i], sources["archive"]} \ {Nothing} : i \in v.data}
  ELSE {sources[i]} \ {Nothing}

Added(files, i, v) == [p \in DOMAIN files \cup {i} |-> IF p = i THEN v ELSE files[p]]

(* In the order of the list.                                               *)
take(m) ==
  /\ maker[m].pc = "take"
  /\ \E n \in Left(m) :
       LET i == maker[m].task.items[n]
       IN /\ \A k \in Left(m) : n <= k
          /\ \/ \E v \in Readable(m, i) : becomes(m, [maker[m] EXCEPT !.taken = Added(@, i, v)])
             \/ Readable(m, i) = {} /\ abandon(m)
  /\ UNCHANGED <<sources, edits, recipe, made>>

(* compress may be missing, fail, or leave no archive.                     *)
_compress_tar(m) ==
  /\ maker[m].pc = "take" /\ Left(m) = {}
  /\ \/ becomes(m, [maker[m] EXCEPT !.pc = "describe"])
     \/ maker[m].task.op = "package" /\ "tool" \in Mishaps /\ abandon(m)
  /\ UNCHANGED <<sources, edits, recipe, made>>

(* A package's sizes come from the inventory that was checked; a manifest  *)
(* from the files in the temporary directory, and its source from the      *)
(* archive or image as it is by then.                                      *)
Described(m) ==
  LET k == maker[m]
      package == k.task.op = "package"
  IN [op |-> k.task.op, files |-> k.taken, edited |-> edits # k.edits, recipe |-> k.recipe,
      bom |-> IF package THEN k.bom ELSE k.taken,
      sizes |-> IF package THEN Material(k.checked) ELSE DOMAIN k.taken,
      source |-> IF FromArchive(k.task) THEN sources["archive"] ELSE Nothing]

(* Mutant: a rename that replaces whatever is there.                       *)
RenameOver(o) == TRUE

(* A directory that is not empty cannot be renamed over.                   *)
Rename(o) == made[o] = Nothing

Gone(m) == FromArchive(maker[m].task) /\ sources["archive"] = Nothing

rename(m) ==
  /\ maker[m].pc = "describe"
  /\ LET o == maker[m].task.output
     IN made' = IF Rename(o) /\ ~Gone(m) THEN [made EXCEPT ![o] = Described(m)] ELSE made
  /\ abandon(m)
  /\ UNCHANGED <<sources, edits, recipe>>

(* A killed command leaves its temporary directory, which none looks at.   *)
kill_maker(m) ==
  /\ "kill" \in Mishaps /\ maker[m] # Idle
  /\ abandon(m)
  /\ UNCHANGED <<sources, edits, recipe, made>>

(* Somebody edits a source.                                                *)
edit_source ==
  /\ edits < MaxEdits
  /\ \E e \in Edits : sources[e.item] # e.to /\ sources' = [sources EXCEPT ![e.item] = e.to]
  /\ edits' = edits + 1
  /\ UNCHANGED <<recipe, made, maker>>

PublisherNext ==
  \/ edit_source
  \/ \E m \in Makers :
       \/ package_recipe(m) \/ check(m) \/ write_openstep_bom(m) \/ take(m) \/ _compress_tar(m)
       \/ rename(m) \/ kill_maker(m)
=============================================================================
