---------------------------- MODULE ImageWriter ----------------------------
(***************************************************************************)
(* The programs that edit an installation image (reopenstep_tool/ufs.py):  *)
(* overlay_bigtar, replace_file, insert_tree and replace_tree.  Each works *)
(* on a copy in a temporary directory beside its output, verifies the      *)
(* copy, and renames it over the output.                                   *)
(*                                                                         *)
(* A step is the helper's calls for one member or node.  Between any two   *)
(* steps another writer may publish, the helper may fail, and the writer   *)
(* may be killed; it can always be started again.                          *)
(***************************************************************************)
EXTENDS NextUFS

CONSTANTS
  Writers,   \* runs of the tool
  Jobs,      \* what each may be asked to do
  Images,    \* what the files may hold at first
  Verified,  \* the paths overlay_bigtar reads back
  Absent

VARIABLES
  files,    \* what each image file holds
  at,       \* where each writer is
  job,      \* what it was asked
  todo,     \* its members or nodes still to do
  working,  \* its working copy
  read      \* history: the images it was asked to edit and to copy from

vars == <<files, at, job, todo, working, read>>

Init ==
  /\ files \in Images
  /\ at = [w \in Writers |-> "idle"]
  /\ job = [w \in Writers |-> Absent]
  /\ todo = [w \in Writers |-> << >>]
  /\ working = [w \in Writers |-> Absent]
  /\ read = [w \in Writers |-> Absent]

-----------------------------------------------------------------------------
(* The paths below root, found by a walk of directories before entries.    *)
Below(root) ==
  LET under[i \in 0..Len(Order)] ==
        IF i = 0 THEN {}
        ELSE LET before == under[i - 1]
             IN IF Parent[Order[i]] \in {root} \cup before THEN before \cup {Order[i]} ELSE before
  IN under[Len(Order)]

Listed(set) ==
  LET upto[i \in 0..Len(Order)] ==
        IF i = 0 THEN << >>
        ELSE IF Order[i] \in set THEN Append(upto[i - 1], Order[i]) ELSE upto[i - 1]
  IN upto[Len(Order)]

(* The tree below root, directories before their entries.                  *)
tree_inventory(image, root) == Listed({p \in Below(root) : Exists(image, p)})

Removal(image, p) == [do |-> IF IsDirectory(image, p) THEN "rmdir" ELSE "unlink", name |-> p]

(* Mutant: the old tree goes in the order in which it is listed.           *)
RemovalsInOrder(image, root) ==
  [i \in 1..Len(tree_inventory(image, root)) |-> Removal(image, tree_inventory(image, root)[i])]

(* The old tree goes from its leaves up, as what it was when listed.       *)
Removals(image, root) ==
  LET nodes == tree_inventory(image, root)
  IN [i \in 1..Len(nodes) |-> Removal(image, nodes[Len(nodes) + 1 - i])]

Insertions(image, root, target) ==
  LET nodes == tree_inventory(image, root)
  IN [i \in 1..Len(nodes) |-> [do |-> "insert", name |-> target[nodes[i]], from |-> nodes[i]]]

(* What a job consists of on the images it finds, and when it is refused   *)
(* at once.                                                                *)
Accepts(j) ==
  /\ files[j.image] # Absent
  /\ j.op = "overlay" => j.image # j.output
  /\ j.op = "replace_file" => Exists(files[j.image], j.path)
  /\ j.op \in {"insert_tree", "replace_tree"} =>
       files[j.source] # Absent /\ IsDirectory(files[j.source], j.from)
  /\ j.op = "replace_tree" => IsDirectory(files[j.image], j.root)

Todo(j) ==
  CASE j.op = "overlay" -> j.members
    [] j.op = "replace_file" -> <<[do |-> "swap", name |-> j.path, data |-> j.data, attr |-> "0444"]>>
    [] j.op = "insert_tree" ->
         <<[do |-> "root", name |-> j.root]>> \o Insertions(files[j.source], j.from, j.target)
    [] j.op = "replace_tree" ->
         Removals(files[j.image], j.root) \o Insertions(files[j.source], j.from, j.target)

(* What a member, a job and the files are.  A hard link names a path; the  *)
(* place of a node is below the root what its own is below the source's.   *)
IsMember(m) ==
  /\ m.do \in {"directory", "file", "symlink", "hardlink"} /\ m.name \in Paths
  /\ m.do = "hardlink" => m.data \in Paths
  /\ m.do = "directory" => m.data = "none"
  /\ m.data # "corrupt"

IsTarget(j) ==
  \A p \in Below(j.from) :
    /\ j.target[p] \in Paths
    /\ Parent[j.target[p]] = IF Parent[p] = j.from THEN j.root ELSE j.target[Parent[p]]
    /\ \A q \in Below(j.from) : j.target[p] = j.target[q] => p = q

IsJob(j) ==
  /\ j.op \in {"overlay", "replace_file", "insert_tree", "replace_tree"}
  /\ j.op = "overlay" =>
       /\ j.members \in Seq({j.members[i] : i \in DOMAIN j.members})
       /\ \A i \in 1..Len(j.members) : IsMember(j.members[i])
  /\ j.op = "replace_file" => j.path \in Paths /\ j.data # "corrupt"
  /\ j.op \in {"insert_tree", "replace_tree"} =>
       j.root \in Paths /\ j.from \in Paths /\ IsTarget(j)

(* Trees are taken from images that nobody writes meanwhile.               *)
ASSUME ImageAssumption ==
  /\ \A fs \in Images :
       /\ fs = [f \in DOMAIN fs |-> fs[f]]
       /\ \A f \in DOMAIN fs : fs[f] = Absent \/ IsUFS(fs[f])
       /\ \A w \in Writers : \A j \in Jobs[w] : j.image \in DOMAIN fs /\ j.output \in DOMAIN fs
  /\ \A w \in Writers : \A j \in Jobs[w] : IsJob(j)
  /\ \A fs \in Images, w \in Writers : \A j \in Jobs[w] :
       j.op \in {"insert_tree", "replace_tree"} => j.source \in DOMAIN fs
  /\ \A v, w \in Writers : \A j \in Jobs[v], k \in Jobs[w] :
       j.op \in {"insert_tree", "replace_tree"} => j.source # k.output

Source(j) == IF j.op \in {"insert_tree", "replace_tree"} THEN files[j.source] ELSE Absent

start(w) ==
  /\ at[w] \in {"idle", "killed", "failed"}
  /\ \E j \in Jobs[w] :
       /\ Accepts(j)
       /\ job' = [job EXCEPT ![w] = j]
       /\ todo' = [todo EXCEPT ![w] = Todo(j)]
  /\ at' = [at EXCEPT ![w] = "copy"]
  /\ UNCHANGED <<files, working, read>>

copy(w) ==
  /\ at[w] = "copy"
  /\ at' = [at EXCEPT ![w] = "edit"]
  /\ working' = [working EXCEPT ![w] = files[job[w].image]]
  /\ read' = [read EXCEPT ![w] = [image |-> files[job[w].image], source |-> Source(job[w])]]
  /\ UNCHANGED <<files, job, todo>>

-----------------------------------------------------------------------------
Cleared(image, p) == IF Exists(image, p) THEN unlink(image, p) ELSE {image}

(* Mutant: a file that is there is written, not replaced.                  *)
AppliedInPlace(image, m) ==
  LET p == m.name
      made == CASE m.do = "directory" -> IF Exists(image, p) THEN {image} ELSE mkdir(image, p)
                [] m.do = "file" ->
                     IF Exists(image, p)
                     THEN {[image EXCEPT !.inode[image.name[p]].data = m.data]}
                     ELSE from_file(image, p, m.data)
                [] m.do = "symlink" -> UNION {symlink(i, m.data, p) : i \in Cleared(image, p)}
                [] m.do = "hardlink" -> UNION {link(i, m.data, p) : i \in Cleared(image, p)}
  IN UNION {chmod(i, p, m.attr) : i \in made}

(* One member of an archive: what is there is removed first, except for a  *)
(* directory, and mode, owner and times follow.                            *)
Applied(image, m) ==
  LET p == m.name
      made == CASE m.do = "directory" -> IF Exists(image, p) THEN {image} ELSE mkdir(image, p)
                [] m.do = "file" -> UNION {from_file(i, p, m.data) : i \in Cleared(image, p)}
                [] m.do = "symlink" -> UNION {symlink(i, m.data, p) : i \in Cleared(image, p)}
                [] m.do = "hardlink" -> UNION {link(i, m.data, p) : i \in Cleared(image, p)}
  IN UNION {chmod(i, p, m.attr) : i \in made}

(* A node of the source tree; a symlink cannot be extracted.               *)
inserted(image, source, p, from) ==
  LET n == node(source, from)
      made == CASE n.kind = "directory" -> mkdir(image, p)
                [] n.kind = "file" -> from_file(image, p, n.data)
                [] n.kind = "symlink" -> {}
  IN UNION {chmod(i, p, n.attr) : i \in made}

swapped(image, t) ==
  LET made == UNION {from_file(i, t.name, t.data) : i \in unlink(image, t.name)}
  IN UNION {chmod(i, t.name, t.attr) : i \in made}

Edited(w, t) ==
  CASE t.do \in {"directory", "file", "symlink", "hardlink"} -> Applied(working[w], t)
    [] t.do = "rmdir" -> rmdir(working[w], t.name)
    [] t.do = "unlink" -> unlink(working[w], t.name)
    [] t.do = "insert" -> inserted(working[w], files[job[w].source], t.name, t.from)
    [] t.do = "root" -> mkdir(working[w], t.name)
    [] t.do = "swap" -> swapped(working[w], t)

(* The helper refuses what cannot be done, and may fail for a reason of    *)
(* its own, a full file system say: either ends the writer.                *)
edit(w) ==
  /\ at[w] = "edit" /\ todo[w] # << >>
  /\ LET after == Edited(w, Head(todo[w]))
     IN \/ \E image \in after :
             /\ working' = [working EXCEPT ![w] = image]
             /\ todo' = [todo EXCEPT ![w] = Tail(@)]
             /\ UNCHANGED at
        \/ /\ after = {} \/ "break" \in Faults
           /\ at' = [at EXCEPT ![w] = IF after = {} THEN "refused" ELSE "failed"]
           /\ UNCHANGED <<todo, working>>
  /\ UNCHANGED <<files, job, read>>

-----------------------------------------------------------------------------
(* The archive's first member for a path is what is expected there.        *)
Expected(members, p) ==
  {members[i].data : i \in {k \in 1..Len(members) :
                              /\ members[k].name = p /\ members[k].do = "file"
                              /\ \A l \in 1..(k - 1) : members[l].name # p}}

(* Mutants: a file must only be there, as a tree's nodes; a file is        *)
(* compared with the image that was copied.                                *)
PassesByName(w) ==
  job[w].op = "overlay" =>
    \A p \in Verified : Expected(job[w].members, p) # {} => Exists(working[w], p)

PassesSource(w) ==
  \A p \in Verified : job[w].op = "overlay" => node(working[w], p).data = node(read[w].image, p).data

Passes(w) ==
  LET j == job[w]
      image == working[w]
  IN CASE j.op = "overlay" ->
            \A p \in Verified : \A d \in Expected(j.members, p) : node(image, p).data = d
       [] j.op = "replace_file" -> node(image, j.path).data = j.data
       [] j.op = "insert_tree" ->
            Len(tree_inventory(image, j.root)) = Len(tree_inventory(read[w].source, j.from))
       [] j.op = "replace_tree" ->
            LET nodes == tree_inventory(read[w].source, j.from)
                there == tree_inventory(image, j.root)
            IN /\ Exists(image, j.root)
               /\ {j.target[nodes[i]] : i \in 1..Len(nodes)} = {there[i] : i \in 1..Len(there)}

verify(w) ==
  /\ at[w] = "edit" /\ todo[w] = << >>
  /\ at' = [at EXCEPT ![w] = IF Passes(w) THEN "publish" ELSE "unverified"]
  /\ UNCHANGED <<files, job, todo, working, read>>

publish(w) ==
  /\ at[w] = "publish"
  /\ at' = [at EXCEPT ![w] = "done"]
  /\ files' = [files EXCEPT ![job[w].output] = working[w]]
  /\ UNCHANGED <<job, todo, working, read>>

kill(w) ==
  /\ "kill" \in Faults /\ at[w] \in {"copy", "edit", "publish"}
  /\ at' = [at EXCEPT ![w] = "killed"]
  /\ UNCHANGED <<files, job, todo, working, read>>

-----------------------------------------------------------------------------
Next == \E w \in Writers : start(w) \/ copy(w) \/ edit(w) \/ verify(w) \/ publish(w) \/ kill(w)

Spec == Init /\ [][Next]_vars
=============================================================================
