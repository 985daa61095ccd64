----------------------------- MODULE HostTools ------------------------------
(***************************************************************************)
(* The commands a user types on the host, and what must be true of the     *)
(* files they leave.  The tools share no file, so a behaviour is one       *)
(* of one tool.                                                            *)
(***************************************************************************)
EXTENDS RebuildImage, PublisherProperties, VaultProperties, UfsReader, DiscAssembly, SourcePatches

VARIABLE tool

hostVars ==
  <<tool, rebuildVars, publisherVars, vaultVars, readerVars, assemblyVars, sourceVars>>

Init ==
  /\ tool \in {"rebuild", "publish", "vault", "read", "probe", "assemble", "prepare"}
  /\ RebuildInit /\ PublisherInit /\ VaultInit /\ ReaderInit /\ AssemblyInit /\ SourceInit

Next ==
  /\ UNCHANGED tool
  /\ \/ /\ tool = "rebuild" /\ RebuildNext
        /\ UNCHANGED <<publisherVars, vaultVars, readerVars, assemblyVars, sourceVars>>
     \/ /\ tool = "publish" /\ PublisherNext
        /\ UNCHANGED <<rebuildVars, vaultVars, readerVars, assemblyVars, sourceVars>>
     \/ /\ tool = "vault" /\ VaultNext
        /\ UNCHANGED <<rebuildVars, publisherVars, readerVars, assemblyVars, sourceVars>>
     \/ /\ tool = "read" /\ ReaderNext
        /\ UNCHANGED <<rebuildVars, publisherVars, vaultVars, assemblyVars, sourceVars>>
     \/ /\ tool = "probe" /\ ProbeNext
        /\ UNCHANGED <<rebuildVars, publisherVars, vaultVars, assemblyVars, sourceVars>>
     \/ /\ tool = "assemble" /\ AssemblyNext
        /\ UNCHANGED <<rebuildVars, publisherVars, vaultVars, readerVars, sourceVars>>
     \/ /\ tool = "prepare" /\ SourceNext
        /\ UNCHANGED <<rebuildVars, publisherVars, vaultVars, readerVars, assemblyVars>>

Spec == Init /\ [][Next]_hostVars

-----------------------------------------------------------------------------
(* The trees a rebuilt image is made of, each with its rank in main's      *)
(* order, with what could be had of the Y2K image.                         *)
Brought(a, y2k) ==
  LET one(rank, tree) == [rank |-> rank, nth |-> 0, tree |-> tree]
      each(rank, trees) == {[rank |-> rank, nth |-> i, tree |-> trees[i]] : i \in DOMAIN trees}
      folder(rank, p) == IF p = None THEN {} ELSE {one(rank, p.tree)}
      isos == each(3, a.patches) \cup (IF a.skip THEN {} ELSE {one(4, y2k)})
      manifest == one(10, File(Manifest_, Written("manifest")))
  IN CASE a.test -> {one(1, Boot), one(2, File("README.TXT", Written("readme")))}
       [] ~a.test /\ a.raw # None ->
            {one(1, Boot), manifest, one(2, File(a.ufs, Written(a.raw.behind[a.porch])))} \cup isos
       [] OTHER ->
            {one(0, a.base), one(1, Boot), manifest} \cup isos
            \cup (IF a.drivers = << >> THEN {} ELSE {one(5, Placed(a.drivers, "drivers", "floppies"))})
            \cup (IF a.user # None /\ ~a.user.root
                  THEN {one(6, Placed(a.user.tree, "user", "user"))} ELSE folder(6, a.user))
            \cup folder(7, a.patch) \cup folder(8, a.driver) \cup each(9, a.overlays)

Over(s, t) == s.rank > t.rank \/ (s.rank = t.rank /\ s.nth > t.nth)

(* Where the file p of a source is in the image: at its path, or, if a     *)
(* source before it has a directory there, inside of that.                 *)
Lands(s, p, given) ==
  IF \E t \in given : Over(s, t) /\ p \in Folders(t.tree) THEN Append(p, p[Len(p)]) ELSE p

(* A tree that has all directories and files of the sources and nothing    *)
(* else, each file from the last source that puts one in its place.        *)
MadeOf(tree, given) ==
  /\ DOMAIN tree = Files(tree) \cup Folders(tree)
  /\ Folders(tree) = UNION {Folders(s.tree) : s \in given}
  /\ \A s \in given : \A p \in Files(s.tree) : Lands(s, p, given) \in Files(tree)
  /\ \A x \in Files(tree) : \E s \in given : \E p \in Files(s.tree) :
       /\ Lands(s, p, given) = x /\ tree[x] = s.tree[p]
       /\ \A t \in given : Over(t, s) => \A q \in Files(t.tree) : Lands(t, q, given) # x

(* What an image is made of when rebuild.py says it is complete: of every  *)
(* source the command line names, in main's order of merges.  Only a Y2K   *)
(* image whose download broke off may be short of some of its files.       *)
RebuiltAsAsked ==
  status = "ok" =>
    \E part \in SUBSET DOMAIN Y2K :
      /\ cache = "whole" => part = DOMAIN Y2K
      /\ MadeOf(output.tree, Brought(args, [p \in part |-> Y2K[p]]))

(* When rebuild.py says an image is complete, its descriptors are in their *)
(* places, and a label that was given with the place of its front porch    *)
(* leads to what has the wrapped payload's name in this image, whatever    *)
(* was under the output's name before.                                     *)
SuccessIsUsable ==
  status = "ok" =>
    /\ \E i, j \in DOMAIN output.descriptors :
         output.descriptors[i] = "pvd" /\ output.descriptors[j] = "boot"
    /\ output.catalog = 0
    /\ args.label # None /\ ~args.test /\ args.raw # None /\ args.label.offset # None =>
         output.label.porch = output.root[args.ufs]

-----------------------------------------------------------------------------
(* A tree that the reader reports as extracted is the directory it was     *)
(* asked for, every file byte for byte, and nothing of another one --      *)
(* provided that no two names in it read alike (rdrufs.py: inodes found by *)
(* group, blocks direct and indirect, holes, free records, symlinks).      *)
Wanted(v, root) ==
  LET below == {n \in v.nodes : IsPrefix(root, n.path)}
      rest(n) == SubSeq(n.path, Len(root) + 1, Len(n.path))
  IN [p \in {rest(n) : n \in below} |->
       LET n == CHOOSE m \in below : rest(m) = p
       IN [kind |-> n.kind, data |-> IF n.kind = "directory" THEN << >> ELSE n.content]]

TreeIsExtracted ==
  LET alike == \E m, n \in Root.nodes : m # n /\ m.path = n.path
  IN extractor.pc = "done" /\ ~alike => extracted = Wanted(Root, extractor.request.root)

(* The reader gives up on nothing but what it names as not implemented,    *)
(* and on what lies in the image's last block: a device, blocks beyond the *)
(* one table, a hole where the table would be.  A tree that was asked for  *)
(* must be there, and no two names on the way to it may read alike.        *)
OnlyHardTreesFail ==
  LET blocks(n) == (Len(n.content) + Root.sb.frag - 1) \div Root.sb.frag
      root == extractor.request.root
      clear == /\ \E n \in Root.nodes : n.path = root
               /\ \A m, n \in Root.nodes : m.path = n.path /\ IsPrefix(m.path, root) => m = n
      hard(n) == \/ n.kind = "device" \/ blocks(n) > NDADDR + Root.sb.nindir
                 \/ blocks(n) > NDADDR /\ n.table = 0
                 \/ \E k \in DOMAIN n.at : n.at[k] + Root.sb.frag > Root.size
  IN extractor.pc = "failed" /\ extractor.why = "unreadable" /\ clear => \E n \in Root.nodes : hard(n)

(* What is reported as a root that can be booted has all the paths it      *)
(* needs in one file system, as one reader sees it (inspect_xnu_root).     *)
CandidateHasItsPaths ==
  report # Unset /\ report.bootable =>
    LET volume == Volumes[report.image]
        need == REQUIRED_BOOT_PATHS(report.kind)
    IN \/ need \subseteq volume.next
       \/ \E o \in DOMAIN volume.at : need \subseteq {n.path : n \in volume.at[o].nodes}

-----------------------------------------------------------------------------
(* The sizes of sectors with which BootE takes a label.                    *)
SectorSizes == {512 * k : k \in 1..127}

(* The label of a finished disc leads the tools to the file system that    *)
(* was put behind it, with a template whose partition a is the root and    *)
(* begins at the porch; and BootE, which checks it with a sum of its own,  *)
(* is led there just when the disc has a copy in sector 0: every copy says *)
(* that it is block 0, wherever it is, and BootE takes one in the sector   *)
(* that it names only, and with no other size of sectors than those.  The  *)
(* second partition leads to the developer's file system, and a floppy     *)
(* image is loaded (hybrid.py, disk.py, nextlabel.py, nextlabel.c and the  *)
(* constructor of volumes in patch_source.py).  When hdiutil named its     *)
(* image otherwise, an older one got the label and the new developer's     *)
(* size.                                                                   *)
LeadsTo(l, copies, block) ==
  /\ ufs_byte_offset(l) = {block * 2048}
  /\ l[CHECKSUM_OFFSET] = checksum_v3(l)
  /\ l[PARTITION_A_OFFSET + TYPE] = 43 /\ l[SECTOR_SIZE_OFFSET] \in SectorSizes =>
       newNeXTBVRef([s \in copies |-> l]) = IF 0 \in copies THEN {block * 4} ELSE {}

WrappedLabelLeads ==
  assembly.pc = "wrapped" /\ has_magic(disc.label) =>
    LET r == assembly.request
        l == disc.label
        file == disc.tree[<<"OPENSTEP42CD">>]
    IN (/\ r.offset = FRONT_OFFSET /\ r.format = "u16be"
        /\ l[SECTOR_SIZE_OFFSET] = 2048 /\ base_of(l, PARTITION_A_OFFSET) = 0) =>
         /\ l[ROOT_OFFSET] \div 256 = 97 => LeadsTo(l, {0}, file.lba)
         /\ size_of(l, PARTITION_A_OFFSET) * 2048 >= file.size
         /\ r.developer =>
              LET dev == disc.tree[developer_path(r)]
              IN /\ l[FRONT_OFFSET] + base_of(l, PARTITION_B_OFFSET) = dev.lba
                 /\ r.suffix \/ size_of(l, PARTITION_B_OFFSET) * 2048 >= dev.size
                 /\ l[ROOT_OFFSET] \div 256 = 98 => LeadsTo(l, {0}, dev.lba)
         /\ r.mode = "floppy" => disc.boot_sectors # 0

(* Whatever the template says of bases and sectors, a disk that was        *)
(* verified has a file system where its first label leads.                 *)
MasteredLabelLeads ==
  assembly.pc = "mastered" =>
    /\ disc.of.ufs
    /\ ufs_byte_offset(disc.label) = {disc.at * 2048}
    /\ disc.label[ROOT_OFFSET] \div 256 = 97 => LeadsTo(disc.label, disc.copies, disc.at)

(* Both of them: the label of what either program finished leads to a file *)
(* system (wrap_ufs, master_ufs_disk).                                     *)
LabelsLead == WrappedLabelLeads /\ MasteredLabelLeads

-----------------------------------------------------------------------------
(* Whatever earlier runs and users left in the work tree, preparing it     *)
(* again fails only when it is killed or offline: no edit finds its place  *)
(* taken (bootstrap.sh resets what patch_source.py edits).                 *)
OnlyTroubleFails == prepare.pc = "failed" => prepare.why # "match"

(* What edits are there to remove that they do not spell out.              *)
Obsolete(file) == IF file = "disk.c" THEN <<"geometry", "booter", "fallback">> ELSE << >>

(* A tree that has every edit once, and of which nothing else is lost or   *)
(* left: each mark is there as often as the pinned text had it, more or    *)
(* less what all edits bring and take.                                     *)
Patched(tree) ==
  \A f \in DOMAIN Pinned :
    LET marks(text, m) == Len(SelectSeq(text, LAMBDA x : x = m))
        before == IF f \in DOMAIN Restored THEN Each(Restored[f], "#if 0", <<"#if 1">>) ELSE Pinned[f]
        its == FlattenSeq([i \in DOMAIN Patches |->
                               IF Patches[i].file = f THEN Patches[i].edits ELSE << >>])
        gone(e) == IF e.kind = "cut" THEN e.old \o e.last ELSE e.old
        times(e, m) == CASE e.kind = "drop" -> marks(before, m) [] e.kind = "thrice" -> 3 [] OTHER -> 1
        change(n, e, m) == n + times(e, m) * (marks(e.new, m) - marks(gone(e), m))
        all == UNION {ToSet(its[i].new) : i \in DOMAIN its} \cup ToSet(before)
    IN \A m \in all :
         marks(tree[f], m) =
           FoldLeft(LAMBDA n, e : change(n, e, m), marks(before, m), its) - marks(Obsolete(f), m)

(* Prepared sources have every edit, whatever was in the tree before.      *)
PreparedIsPatched == prepare.pc = "prepared" => Patched(worktree)
=============================================================================
