--------------------------- MODULE MCImageWriter ---------------------------
(* Instances of the image writers for TLC: an archive over a base image    *)
(* with and without hard links, and the image jobs that take the result.   *)
EXTENDS ImageProperties, TLC

MCOrder == <<"drv", "drv/table", "drv/sub", "drv/sub/reloc", "kernel", "twin", "beta",
             "beta/table", "beta/sub", "beta/sub/reloc", "new", "new/table", "new/sub",
             "new/sub/reloc">>

MCParent ==
  [p \in {MCOrder[i] : i \in 1..Len(MCOrder)} |->
     CASE p \in {"drv/table", "drv/sub"} -> "drv"
       [] p = "drv/sub/reloc" -> "drv/sub"
       [] p \in {"beta/table", "beta/sub"} -> "beta"
       [] p = "beta/sub/reloc" -> "beta/sub"
       [] p \in {"new/table", "new/sub"} -> "new"
       [] p = "new/sub/reloc" -> "new/sub"
       [] OTHER -> "/"]

InDrv == "beta/table" :> "drv/table" @@ "beta/sub" :> "drv/sub" @@ "beta/sub/reloc" :> "drv/sub/reloc"
InNew == "beta/table" :> "new/table" @@ "beta/sub" :> "new/sub" @@ "beta/sub/reloc" :> "new/sub/reloc"

Node(kind, data) == [kind |-> kind, data |-> data, attr |-> "old"]

(* A base image; in the second one the kernel has another name.            *)
Plain ==
  [name |-> "drv" :> 1 @@ "drv/table" :> 2 @@ "kernel" :> 3,
   inode |-> <<Node("directory", "none"), Node("file", "t0"), Node("file", "k0")>>]

Twinned ==
  [name |-> "drv" :> 1 @@ "drv/table" :> 2 @@ "drv/sub" :> 4 @@ "drv/sub/reloc" :> 3
            @@ "kernel" :> 3 @@ "twin" :> 3,
   inode |-> <<Node("directory", "none"), Node("file", "t0"), Node("file", "k0"),
               Node("directory", "none")>>]

(* The image that holds the beta drivers, two of them one file.            *)
Beta ==
  [name |-> "beta" :> 1 @@ "beta/table" :> 2 @@ "beta/sub" :> 3 @@ "beta/sub/reloc" :> 2,
   inode |-> <<Node("directory", "none"), Node("file", "b0"), Node("directory", "none")>>]

MCImages == {[base |-> b, beta |-> Beta, mid |-> Absent, out |-> Absent] : b \in {Plain, Twinned}}

Member(do, name, data) == [do |-> do, name |-> name, data |-> data, attr |-> name]

MCArchives ==
  {<<Member("directory", "drv", "none"), Member("file", "kernel", "k1"),
     Member("hardlink", "twin", "kernel"), Member("file", "drv/table", "t1")>>,
   <<Member("file", "twin", "w1"), Member("file", "kernel", "k1"),
     Member("directory", "drv/sub", "none"), Member("hardlink", "drv/sub/reloc", "twin"),
     Member("symlink", "twin", "kernel")>>,
   <<Member("hardlink", "twin", "kernel"), Member("file", "drv/table", "t1"),
     Member("hardlink", "kernel", "drv/table"), Member("file", "drv/table", "t2")>>}

Overlay(members) == [op |-> "overlay", image |-> "base", output |-> "mid", members |-> members]

MCJobs ==
  "first" :> {Overlay(m) : m \in MCArchives} @@
  "second" :> {[op |-> "replace_file", image |-> "mid", output |-> "mid", path |-> "kernel", data |-> "k9"],
               [op |-> "replace_tree", image |-> "mid", output |-> "out", root |-> "drv",
                source |-> "beta", from |-> "beta", target |-> InDrv],
               [op |-> "insert_tree", image |-> "mid", output |-> "out", root |-> "new",
                source |-> "beta", from |-> "beta", target |-> InNew]}
=============================================================================
