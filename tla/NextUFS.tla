------------------------------ MODULE NextUFS ------------------------------
(***************************************************************************)
(* A NeXT UFS image as the nextufs helper edits it: names that point to    *)
(* inodes, several of which may be one inode.  nextufs is not part of this *)
(* repository; each operator is one of its subcommands, as the image       *)
(* writers call it, and yields the images it may leave: none if it refuses.*)
(***************************************************************************)
EXTENDS Integers, Sequences

CONSTANTS
  Order,   \* the paths there may be, each directory before what is in it
  Parent,  \* the directory each of them is in, "/" at the top
  Faults   \* what goes wrong: "break", "corrupt", "kill"

Paths == {Order[i] : i \in 1..Len(Order)}

ASSUME PathAssumption ==
  /\ Order \in Seq(Paths) /\ "/" \notin Paths
  /\ \A i, k \in 1..Len(Order) : Order[i] = Order[k] => i = k
  /\ Parent \in [Paths -> Paths \cup {"/"}]
  /\ \A i \in 1..Len(Order) :
       Parent[Order[i]] = "/" \/ \E k \in 1..(i - 1) : Order[k] = Parent[Order[i]]

Image(name, inode) == [name |-> name, inode |-> inode]

Exists(image, p) == p \in DOMAIN image.name

node(image, p) == image.inode[image.name[p]]

IsDirectory(image, p) == Exists(image, p) /\ node(image, p).kind = "directory"

(* What an image is made of: every name is a path and points to an inode.  *)
Kinds == {"directory", "file", "symlink"}

IsKind(kind, data) == kind \in Kinds /\ (kind = "directory" => data = "none")

IsNode(n) == /\ n = [kind |-> n.kind, data |-> n.data, attr |-> n.attr]
             /\ IsKind(n.kind, n.data)

IsImage(image) ==
  /\ image = Image(image.name, image.inode)
  /\ image.inode \in Seq({image.inode[k] : k \in DOMAIN image.inode})
  /\ \A k \in DOMAIN image.inode : IsNode(image.inode[k])
  /\ image.name = [p \in DOMAIN image.name |-> image.name[p]]
  /\ DOMAIN image.name \subseteq Paths
  /\ \A p \in DOMAIN image.name : image.name[p] \in DOMAIN image.inode

(* Whatever has a name is in a directory that has one.                     *)
IsTree(image) ==
  \A p \in DOMAIN image.name : Parent[p] = "/" \/ IsDirectory(image, Parent[p])

IsUFS(image) == IsImage(image) /\ IsTree(image)

Free(image, p) == ~Exists(image, p) /\ (Parent[p] = "/" \/ IsDirectory(image, Parent[p]))

Named(image, p, n) ==
  Image([q \in DOMAIN image.name \cup {p} |-> IF q = p THEN n ELSE image.name[q]], image.inode)

Unnamed(image, p) == Image([q \in DOMAIN image.name \ {p} |-> image.name[q]], image.inode)

New(image, p, kind, data) ==
  Named(Image(image.name, Append(image.inode, [kind |-> kind, data |-> data, attr |-> "new"])),
        p, Len(image.inode) + 1)

mkdir(image, p) == IF Free(image, p) THEN {New(image, p, "directory", "none")} ELSE {}

(* What is written may differ from what was asked without an error.        *)
from_file(image, p, data) ==
  IF Free(image, p)
  THEN {New(image, p, "file", d) : d \in {data} \cup ({"corrupt"} \cap Faults)}
  ELSE {}

symlink(image, target, p) == IF Free(image, p) THEN {New(image, p, "symlink", target)} ELSE {}

link(image, source, p) ==
  IF Exists(image, source) /\ ~IsDirectory(image, source) /\ Free(image, p)
  THEN {Named(image, p, image.name[source])} ELSE {}

unlink(image, p) ==
  IF Exists(image, p) /\ ~IsDirectory(image, p) THEN {Unnamed(image, p)} ELSE {}

rmdir(image, p) ==
  IF IsDirectory(image, p) /\ \A q \in DOMAIN image.name : Parent[q] # p
  THEN {Unnamed(image, p)} ELSE {}

(* Mode, owner and times belong to the inode.                              *)
chmod(image, p, attr) ==
  IF Exists(image, p)
  THEN {Image(image.name, [image.inode EXCEPT ![image.name[p]] = [@ EXCEPT !.attr = attr]])}
  ELSE {}
=============================================================================
