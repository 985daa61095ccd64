----------------------------- MODULE MCVolumes ------------------------------
(* File systems for the reader, laid out as newfs and the kernel do it: the *)
(* inodes of a cylinder group in one run behind its start, full blocks for *)
(* all of a file but its end, one table for the blocks after the twelfth.  *)
EXTENDS UfsReader

Geometry == [ipg |-> 8, inopb |-> 4, frag |-> 2, fsize |-> 2, iblkno |-> 2, fpg |-> 40,
             cgoffset |-> 3, cgcycle |-> 2, nindir |-> 3]

Node(path, ino, kind, content, at, table) ==
  [path |-> path, ino |-> ino, kind |-> kind, content |-> content, at |-> at, table |-> table]

Record(name, ino) == [name |-> name, ino |-> ino]

Text(name, fragments) == [i \in 1..fragments |-> <<name, i>>]

(* A file of n fragments from block b on, with holes in the given blocks.  *)
Blocks(n, b, holes) == [k \in 1..((n + 1) \div 2) |-> IF k \in holes THEN 0 ELSE b + 2 * (k - 1)]

Sparse(name, n, holes) ==
  [i \in 1..n |-> IF (i + 1) \div 2 \in holes THEN Zeroes ELSE <<name, i>>]

Padded(s, n) == SubSeq(s \o [i \in 1..n |-> 0], 1, n)

Inode(n) ==
  [kind |-> n.kind, size |-> Len(n.content), direct |-> Padded(n.at, NDADDR), indirect |-> n.table,
   blocks |-> Len(n.at), inline |-> n.content]

Volume(nodes, size) ==
  LET g == Geometry
      place(ino) == LET c == ino \div g.ipg
                    IN (g.fpg * c + g.cgoffset * (IF c = 1 THEN 1 ELSE 0) + g.iblkno) * g.fsize
                       + ino - c * g.ipg
      held == {<<n, k>> \in nodes \X (1..20) : k <= Len(n.at) /\ n.at[k] # 0}
      datum(a) ==
        IF \E n \in nodes : n.table = a
        THEN LET n == CHOOSE m \in nodes : m.table = a IN Padded(SubSeq(n.at, NDADDR + 1, Len(n.at)), 3)
        ELSE IF \E h \in held : a - h[1].at[h[2]] \in {0, 1} /\ 2 * h[2] - 1 + a - h[1].at[h[2]] <= Len(h[1].content)
        THEN LET h == CHOOSE x \in held : a - x[1].at[x[2]] \in {0, 1} /\ 2 * x[2] - 1 + a - x[1].at[x[2]] <= Len(x[1].content)
             IN h[1].content[2 * h[2] - 1 + a - h[1].at[h[2]]]
        ELSE <<"junk", a>>
  IN [sb |-> g, size |-> size, nodes |-> nodes,
      inodes |-> [p \in {place(n.ino) : n \in nodes} |-> Inode(CHOOSE n \in nodes : place(n.ino) = p)] @@ << >>,
      data |-> [a \in 0..(size - 1) |-> datum(a)] @@ << >>]

Dots == <<Record(".", 2), Record("..", 2)>>

(* A root with /usr, whose inode is in the second group and whose second   *)
(* fragment of records begins with a free one; the files are the last one. *)
Top(entries) == Node(<< >>, 2, "directory", << Dots \o entries >>, <<10>>, 0)
Usr(entries) == Node(<<"usr">>, 9, "directory", << Dots \o <<Record("lost", 0)>>, <<Record("", 0)>> \o entries >>, <<12>>, 0)

With(entries, nodes, size) == Volume({Top(<<Record("usr", 9)>>), Usr(entries)} \cup nodes, size)

Kernel == Node(<<"usr", "mach_kernel">>, 17, "file", Sparse("big", 27, {3, 14}), Blocks(27, 50, {3, 14}), 90)
Link == Node(<<"usr", "link">>, 10, "symlink", Text("target", 1), << >>, 0)
Long == Node(<<"usr", "long">>, 11, "symlink", Text("path", 1), <<92>>, 0)
Odd == Node(<<"usr", "tail">>, 6, "file", Text("tail", 3), <<94, 99>>, 0)
Empty == Node(<<"usr", "empty">>, 7, "file", << >>, << >>, 0)
Dev == Node(<<"usr", "dev">>, 12, "device", << >>, << >>, 0)
Huge == Node(<<"usr", "huge">>, 13, "file", Text("huge", 31), Blocks(31, 50, {}), 90)
Holey == Node(<<"usr", "holey">>, 14, "file", Sparse("holey", 26, {13}), Blocks(26, 50, {13}), 0)
Latin == Node(<<"usr", "\\ufffd">>, 6, "file", Text("one", 1), <<94>>, 0)
Latin2 == Node(<<"usr", "\\ufffd">>, 7, "file", Text("two", 1), <<96>>, 0)

Whole == With(<<Record("mach_kernel", 17), Record("link", 10), Record("long", 11), Record("empty", 7)>>,
              {Kernel, Link, Long, Empty}, 100)
Other == With(<<Record("tail", 6), Record("link", 10)>>, {Odd, Link}, 101)
Hard ==
  <<With(<<Record("link", 10), Record("tail", 6)>>, {Odd, Link}, 100),
    With(<<Record("dev", 12), Record("link", 10)>>, {Dev, Link}, 100),
    With(<<Record("huge", 13)>>, {Huge}, 100), With(<<Record("holey", 14)>>, {Holey}, 100),
    With(<<Record("\\ufffd", 6), Record("\\ufffd", 7)>>, {Latin, Latin2}, 100),
    With(<<Record("link", 10), Record("", 7)>>, {Link, [Empty EXCEPT !.path = <<"usr", "">>]}, 100)>>

(* The root file system of a Rhapsody disc.                                *)
RootNode(path, ino, kind, entries, at) == Node(path, ino, kind, << Dots \o entries >>, <<at>>, 0)
Bootable(with) ==
  Volume({RootNode(<< >>, 2, "directory",
                   <<Record("mach_kernel", 6), Record("System", 3)>>
                   \o (IF with THEN <<Record("usr", 5)>> ELSE << >>), 10),
          RootNode(<<"System">>, 3, "directory", <<Record("Library", 4)>>, 12),
          RootNode(<<"System", "Library">>, 4, "directory", << >>, 14),
          Node(<<"mach_kernel">>, 6, "file", Text("kernel", 2), <<16>>, 0)}
         \cup (IF with THEN {RootNode(<<"usr">>, 5, "directory", << >>, 18)} ELSE {}), 40)

Super(offset, fsize) == [offset |-> offset, bsize |-> 8192, fsize |-> fsize, frag |-> 8192 \div fsize]
Constant_(offset) == [offset |-> offset, bsize |-> 5, fsize |-> 0, frag |-> 7]

Labelled(v) ==
  [label |-> [offset |-> 163840, fsize |-> 1024], superblocks |-> {Constant_(20480), Super(172032, 1024)},
   at |-> 163840 :> v, next |-> {}]

(* A label that leads nowhere, two file systems, and one that only the     *)
(* reader of NeXT file systems can read.                                   *)
VolumesOf ==
  "labelled" :> Labelled(Whole) @@
  "scanned" :> [label |-> [offset |-> 4096, fsize |-> 1024],
                superblocks |-> {Constant_(9000), Super(73728, 2048), Super(172032, 1024)},
                at |-> 65536 :> Other @@ 163840 :> Whole, next |-> {}] @@
  "unlabelled" :> [label |-> Unset, superblocks |-> {Super(73728, 1024)}, at |-> 65536 :> Other,
                   next |-> {<<"mach_kernel">>}] @@
  "empty" :> [label |-> Unset, superblocks |-> {Constant_(9000)}, at |-> << >>, next |-> {}] @@
  "darwin" :> [label |-> Unset, superblocks |-> {Super(8192, 1024)}, at |-> 0 :> Bootable(TRUE),
               next |-> {<<"mach_kernel">>}] @@
  "part" :> [label |-> Unset, superblocks |-> {Super(8192, 1024)}, at |-> 0 :> Bootable(FALSE),
             next |-> {<<"usr">>, <<"mach_kernel">>}] @@
  "next" :> [label |-> [offset |-> 163840, fsize |-> 1024], superblocks |-> {}, at |-> << >>,
             next |-> {<<"mach_kernel">>, <<"System", "Library">>, <<"usr">>,
                       <<"private", "Drivers", "i386", "System.config">>}] @@
  [n \in {"hard" \o ToString(i) : i \in 1..6} |->
     Labelled(Hard[CHOOSE i \in 1..6 : n = "hard" \o ToString(i)])] @@ << >>

MCVolumesOf == VolumesOf

MCRequests ==
  {[volume |-> n, root |-> <<"usr">>] : n \in DOMAIN MCVolumesOf \ {"darwin", "part", "next"}}
  \cup {[volume |-> "labelled", root |-> <<"usr", "mach_kernel">>]}
=============================================================================
