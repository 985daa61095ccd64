---------------------------- MODULE MCHostTools -----------------------------
(* Instances of the host tools for TLC.                                    *)
EXTENDS HostTools, MCVolumes, MCDiscs, MCSources

Free_(of) == [kind |-> "file", of |-> of, locked |-> FALSE]
Locked(of) == [Free_(of) EXCEPT !.locked = TRUE]
A(kind) == [Free_("link") EXCEPT !.kind = kind]

(* A tree with the directories that are on the way to its nodes.           *)
Tree(nodes) ==
  [p \in UNION {{SubSeq(q, 1, n) : n \in 1..Len(q)} : q \in DOMAIN nodes} |->
     IF p \in DOMAIN nodes THEN nodes[p] ELSE Directory]

K == <<"kernel">>
D == <<"docs">>
U == <<"CD.UFS">>

MCLayouts ==
  {[n \in {"kernel", "docs", "lib", "usr", "tools", "boot", "drivers", "user", "short", "CD.UFS", "LONGNAME.UFS",
           "README.TXT", Manifest_} |-> IF n = "CD.UFS" THEN at ELSE at - 65500] : at \in {65535, 65536}}

MCY2K == Tree(K :> Free_("y2k") @@ D :> Free_("y2k") @@ <<"tools", "x">> :> Free_("y2k"))
Base ==
  Tree(K :> Free_("base") @@ <<"boot", "cat">> :> Locked("base") @@ <<"usr", "lib">> :> Free_("base")
       @@ <<"lib">> :> A("link"))
Overlay1 == Tree(K :> Free_("over1") @@ D :> Free_("over1") @@ <<"tools">> :> Free_("over1"))
Overlay2 == Tree(K :> Free_("over2") @@ <<"usr">> :> Free_("over2"))
PatchTree == Tree(D :> Free_("patch4") @@ <<"drivers", "floppies", "d1">> :> Free_("patch4"))

Host(extract, build) == [extract |-> extract, build |-> build, superuser |-> FALSE]

Asked ==
  [host |-> Host({"bsdtar"}, {"mkisofs"}),
   base |-> None, raw |-> None, test |-> FALSE, boot |-> Free_("boot"), floppy |-> None,
   name |-> "F288", ufs |-> "CD.UFS", porch |-> 80, skip |-> FALSE, url |-> TRUE,
   patches |-> << >>, drivers |-> << >>, user |-> None, patch |-> None, driver |-> None,
   overlays |-> << >>, label |-> None]

Disc == [size |-> 200000, behind |-> 80 :> "payload" @@ 79 :> "shifted"]

Label(format, offset, size) == [size |-> size, offset |-> offset, format |-> format, porch |-> 80]

Floppy(n) ==
  [zip |-> TRUE, file |-> Free_("zip"),
   members |-> {[directory |-> FALSE, fork |-> FALSE, file |-> Free_("boot")],
                [directory |-> FALSE, fork |-> TRUE, file |-> Free_("fork")],
                [directory |-> n = 1, fork |-> FALSE, file |-> Free_("other")]}]

Full ==
  [Asked EXCEPT !.base = Base, !.patches = <<Overlay2>>, !.drivers = <<"d1">> :> Free_("floppy"),
     !.user = [root |-> FALSE, tree |-> K :> Free_("user")],
     !.patch = [root |-> TRUE, tree |-> PatchTree],
     !.driver = [root |-> TRUE, tree |-> D :> Free_("drivers")],
     !.overlays = <<Overlay1, Overlay2>>]

Wrap == [Asked EXCEPT !.raw = Disc, !.label = Label("u16be", 4, 7680)]

MCCommandLines ==
  {Full, [Full EXCEPT !.driver.root = FALSE, !.skip = TRUE],
   [Full EXCEPT !.name = "cat", !.skip = TRUE],
   Wrap, [Wrap EXCEPT !.label = Label("u32be", 7677, 7680)], [Wrap EXCEPT !.label.size = 512],
   [Wrap EXCEPT !.label.offset = None, !.skip = TRUE], [Wrap EXCEPT !.porch = 98, !.skip = TRUE],
   [Wrap EXCEPT !.ufs = "LONGNAME.UFS", !.skip = TRUE],
   [Wrap EXCEPT !.ufs = "LONGNAME.UFS", !.host = Host({"xorriso"}, {"xorriso", "mkisofs"}), !.skip = TRUE],
   [Full EXCEPT !.skip = TRUE, !.host = Host({}, {"mkisofs"})],
   [Wrap EXCEPT !.host = Host({}, {"mkisofs"})],
   [Wrap EXCEPT !.skip = TRUE, !.host = Host({"7z"}, {})],
   [Full EXCEPT !.name = "cat", !.skip = TRUE, !.host.superuser = TRUE],
   [Wrap EXCEPT !.patches = <<Tree(U :> Free_("stray"))>>, !.skip = TRUE],
   [Asked EXCEPT !.test = TRUE, !.boot = None, !.floppy = Floppy(1)],
   [Asked EXCEPT !.test = TRUE, !.boot = None, !.floppy = Floppy(2), !.url = FALSE],
   [Asked EXCEPT !.base = Base, !.raw = Disc], [Asked EXCEPT !.skip = TRUE],
   (* A directory over a file; a file over a directory that has one of its name; a link that dangles. *)
   [Full EXCEPT !.base = Base @@ <<"user">> :> Free_("base"), !.skip = TRUE],
   [Full EXCEPT !.overlays = <<<<"user">> :> Free_("over1")>>, !.skip = TRUE],
   [Full EXCEPT !.overlays = <<<<"lib">> :> A("dangling")>>, !.skip = TRUE],
   (* Directories where the boot image and the manifest go; a payload in the way of the boot image. *)
   [Full EXCEPT !.base = Tree(Base @@ <<"boot", "F288", "old">> :> Free_("base")), !.skip = TRUE],
   [Full EXCEPT !.base = Tree(Base @@ <<Manifest_, "old">> :> Free_("base")), !.skip = TRUE],
   [Wrap EXCEPT !.ufs = "boot", !.skip = TRUE]}

-----------------------------------------------------------------------------
Piece(kind, data) == [kind |-> kind, data |-> data, safe |-> TRUE, arch |-> "none"]
Product(arch, data) == [kind |-> "file", data |-> data, safe |-> TRUE, arch |-> arch]
Archive(members) == [kind |-> "file", data |-> members, safe |-> TRUE, arch |-> "none"]

MCSources ==
  {[dir |-> Piece("directory", 0), app |-> Piece("file", 0), ln |-> Piece("symlink", 0),
    kernel |-> Product("i386", 0), server |-> Product(arch, 0), table |-> Product("none", 0),
    archive |-> Archive({"glide", "prefs"})] : arch \in {"i386"}}

MCEdits ==
  {[item |-> "app", to |-> Piece("file", 1)], [item |-> "app", to |-> Nothing],
   [item |-> "ln", to |-> Nothing], [item |-> "dir", to |-> [Piece("directory", 0) EXCEPT !.safe = FALSE]],
   [item |-> "server", to |-> Product("ppc", 0)], [item |-> "kernel", to |-> Nothing],
   [item |-> "archive", to |-> Archive({"glide"})], [item |-> "archive", to |-> Nothing],
   [item |-> "archive", to |-> Archive({"glide", "prefs", "readme"})]}

Task(op, out, items) == [op |-> op, output |-> out, items |-> items, named |-> TRUE, valid |-> TRUE]

MCTasks ==
  "one" :> {Task("package", "out", <<"app", "dir", "ln">>),
            Task("reference", "out", <<"glide", "prefs">>)} @@
  "two" :> {Task("package", "out", <<"app", "dir", "ln">>),
            Task("driver", "out", <<"kernel", "server", "table">>),
            Task("dr2", "other", <<"glide">>)}

MCManifest == [i \in {"user", "dev", "table"} |-> IF i = "table" THEN "table" ELSE "zeroes"]

MCPathNames == {"", "../Farm"}

MCProfile(media, archs) ==
  [media |-> media, default |-> {"Fonts"}, optional |-> {"Games"}, native |-> <<"Farm">>, archs |-> archs]

MCProfiles ==
  {MCProfile(<<"user", "table">>, {"i386"}), MCProfile(<<"dev", "dev">>, {"i386"}),
   MCProfile(<<"dev">>, {"vax"}), MCProfile(<<"none">>, {"i386"}),
   [MCProfile(<<"dev">>, {"i386"}) EXCEPT !.native = <<"Farm", "../Farm">>]}
=============================================================================
