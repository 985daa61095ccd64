----------------------------- MODULE UfsReader ------------------------------
(***************************************************************************)
(* rdrufs.py and the probes that use it (rhapsody.py): the reader of       *)
(* native UFS1 file systems, and `rdrufs extract-tree`, which copies a     *)
(* directory of one to the host.                                           *)
(*                                                                         *)
(* An address counts fragments from the root of the file system.  An       *)
(* answer is a set: empty where the reader raises an error.                *)
(***************************************************************************)
EXTENDS Integers, Sequences, SequencesExt, TLC

CONSTANTS
  Volumes,     \* image files: what the label says, the superblocks a scan
               \* finds, the file system at each offset, and the paths the
               \* reader of NeXT file systems finds
  Requests,    \* the trees that may be asked for: [volume, root]
  Deaths,      \* how often an extraction is killed
  Unset

ROOT_INO == 2
NDADDR == 12
SuperblockOffset == 8192
Prefix == 4 * 1024 * 1024

VARIABLES
  extracted,  \* what is under the output's name, by path
  extractor,  \* the last extraction: [pc, request, offset, todo, why]
  deaths,
  report      \* what inspect_xnu_root said last, and of what

readerVars == <<extracted, extractor, deaths, report>>

ReaderInit ==
  /\ extracted = << >> /\ extractor = [pc |-> "idle"]
  /\ deaths = 0 /\ report = Unset

-----------------------------------------------------------------------------
(* What the scan takes for a superblock.                                   *)
plausible(c) ==
  /\ c.bsize \in {4096, 8192, 16384, 32768, 65536}
  /\ c.fsize \in {512, 1024, 2048, 4096, 8192}
  /\ c.bsize >= c.fsize /\ c.bsize % c.fsize = 0 /\ c.frag = c.bsize \div c.fsize

_has_native_superblock(image, offset) == offset \in DOMAIN image.at

First(candidates) == CHOOSE c \in candidates : \A d \in candidates : c.offset <= d.offset

(* The label's offset if a file system is there, else the first superblock *)
(* with the label's fragment size, else the first, else the label's.       *)
default_root_offset(image) ==
  LET label == image.label
      found == {c \in image.superblocks :
                  plausible(c) /\ c.offset >= SuperblockOffset /\ c.offset + 1376 <= Prefix}
      matching == {c \in found : label # Unset /\ c.fsize = label.fsize}
  IN IF label # Unset /\ _has_native_superblock(image, label.offset) THEN {label.offset}
     ELSE IF matching # {} THEN {First(matching).offset - SuperblockOffset}
     ELSE IF found # {} THEN {First(found).offset - SuperblockOffset}
     ELSE IF label # Unset THEN {label.offset} ELSE {}

open_image(image, offsets) == {o \in offsets : _has_native_superblock(image, o)}

-----------------------------------------------------------------------------
_read_at(v, address, count) ==
  IF address + count <= v.size THEN {[i \in 1..count |-> v.data[address + i - 1]]} ELSE {}

(* Mutant: every group has its tables at the same place.                   *)
_cgbase_straight(sb, cg) == sb.fpg * cg + sb.cgoffset * cg

(* The first fragment of a cylinder group's tables: groups in turn have    *)
(* them further in, and start over after as many as the mask allows.       *)
_cgbase(sb, cg) == sb.fpg * cg + sb.cgoffset * (cg % sb.cgcycle)

(* Where an inode is, counted in inodes from the root: fsize is how many a *)
(* fragment holds.                                                         *)
InodeAt(sb, ino) ==
  LET index == ino % sb.ipg
  IN (_cgbase(sb, ino \div sb.ipg) + sb.iblkno + (index \div sb.inopb) * sb.frag) * sb.fsize
     + (index % sb.inopb)

read_inode(v, ino) ==
  LET at == InodeAt(v.sb, ino)
  IN IF ino >= ROOT_INO /\ at \in DOMAIN v.inodes THEN {v.inodes[at]} ELSE {}

Zeroes == <<"zero", 0>>

Least(a, b) == IF a < b THEN a ELSE b

(* Mutant: the table's first block is taken for the table's own.           *)
block_addresses_late(v, inode) ==
  LET needed == (inode.size + v.sb.frag - 1) \div v.sb.frag
      direct == SubSeq(inode.direct, 1, Least(needed, NDADDR))
      left == needed - Len(direct)
  IN IF left = 0 THEN {direct}
     ELSE IF inode.indirect = 0 \/ left >= v.sb.nindir THEN {}
     ELSE {direct \o SubSeq(t[1], 2, left + 1) : t \in _read_at(v, inode.indirect, v.sb.frag)}

(* The blocks of a file: the direct ones, then those of one table.         *)
block_addresses(v, inode) ==
  LET needed == (inode.size + v.sb.frag - 1) \div v.sb.frag
      direct == SubSeq(inode.direct, 1, Least(needed, NDADDR))
      left == needed - Len(direct)
  IN IF left = 0 THEN {direct}
     ELSE IF inode.indirect = 0 \/ left > v.sb.nindir THEN {}
     ELSE {direct \o SubSeq(t[1], 1, left) : t \in _read_at(v, inode.indirect, v.sb.frag)}

(* A short symlink is in its inode; every block is read whole, or is a     *)
(* hole.                                                                   *)
read_file(v, inode) ==
  LET byte(addresses, i) ==
        LET address == addresses[(i - 1) \div v.sb.frag + 1]
        IN IF address = 0 THEN Zeroes ELSE v.data[address + ((i - 1) % v.sb.frag)]
  IN IF inode.kind = "symlink" /\ inode.blocks = 0 THEN {inode.inline}
     ELSE IF inode.kind = "device" THEN {}
     ELSE {[i \in 1..inode.size |-> byte(a, i)] :
             a \in {b \in block_addresses(v, inode) :
                     \A k \in DOMAIN b : b[k] = 0 \/ _read_at(v, b[k], v.sb.frag) # {}}}

(* A fragment of a directory holds records; a free one has no inode.       *)
parse_directory(data) == SelectSeq(FlattenSeq(data), LAMBDA r : r.ino # 0)

list_dir(v, inode) == {parse_directory(d) : d \in read_file(v, inode)}

(* The first record with the name.                                         *)
Entry(records, name) ==
  {records[i].ino : i \in {k \in 1..Len(records) :
                             /\ records[k].name = name
                             /\ \A l \in 1..(k - 1) : records[l].name # name}}

Lookup(v, inode, name) ==
  IF inode.kind # "directory" THEN {}
  ELSE UNION {read_inode(v, c) : c \in UNION {Entry(records, name) : records \in list_dir(v, inode)}}

resolve(v, path) ==
  LET inode[n \in 0..Len(path)] ==
        IF n = 0 THEN read_inode(v, ROOT_INO)
        ELSE UNION {Lookup(v, i, path[n]) : i \in inode[n - 1]}
  IN inode[Len(path)]

-----------------------------------------------------------------------------
(* How newfs and the kernel lay a file system out.  They are not part of   *)
(* this repository: v.nodes are the files they put there, each with its    *)
(* path, its blocks (at; 0 is a hole) and the block with the rest of its   *)
(* addresses (table).                                                      *)
IsList(s) == Len(s) \in Nat /\ s = [i \in 1..Len(s) |-> s[i]]

IsGeometry(sb) ==
  /\ {sb.ipg, sb.inopb, sb.frag, sb.nindir, sb.cgcycle} \subseteq Nat \ {0}
  /\ {sb.fpg, sb.cgoffset, sb.iblkno, sb.fsize} \subseteq Nat

(* The place of inode r of block k of cylinder group c: groups in turn     *)
(* have their tables further in, and after cgcycle of them start over.     *)
Home(sb, c, k, r) ==
  (sb.fpg * c + sb.cgoffset * (c % sb.cgcycle) + sb.iblkno + k * sb.frag) * sb.fsize + r

IsInode(i, n) ==
  /\ i.kind = n.kind /\ i.size = Len(n.content)
  /\ Len(i.direct) = NDADDR /\ IsList(i.direct)
  /\ \A k \in 1..NDADDR : k <= Len(n.at) => i.direct[k] = n.at[k]
  /\ i.indirect = n.table /\ i.blocks = Len(n.at)
  /\ n.kind = "symlink" /\ n.at = << >> => i.inline = n.content

HasInode(v, n) ==
  /\ n.ino \in Nat /\ n.ino >= ROOT_INO
  /\ \A c, k \in 0..n.ino :
       LET index == n.ino - c * v.sb.ipg
           r == index - k * v.sb.inopb
       IN index \in 0..(v.sb.ipg - 1) /\ r \in 0..(v.sb.inopb - 1) =>
            /\ Home(v.sb, c, k, r) \in DOMAIN v.inodes
            /\ IsInode(v.inodes[Home(v.sb, c, k, r)], n)

(* Blocks are full but for a file's end, tables are full.                  *)
HasContent(v, n) ==
  LET count == Len(n.at)
      frag == v.sb.frag
  IN /\ IsList(n.content) /\ IsList(n.at) /\ \A k \in 1..count : n.at[k] \in Nat
     /\ n.kind # "device" /\ ~(n.kind = "symlink" /\ n.at = << >>) =>
          /\ (count - 1) * frag < Len(n.content) /\ Len(n.content) <= count * frag
          /\ \A k \in 1..count, d \in 0..(frag - 1) :
               LET i == (k - 1) * frag + d + 1
               IN i <= Len(n.content) =>
                    n.content[i] = IF n.at[k] = 0 THEN Zeroes ELSE v.data[n.at[k] + d]
     /\ count > NDADDR /\ count <= NDADDR + v.sb.nindir /\ n.table # 0 =>
          /\ n.table \in Nat /\ n.table + frag <= v.size
          /\ IsList(v.data[n.table]) /\ Len(v.data[n.table]) >= count - NDADDR
          /\ \A k \in (NDADDR + 1)..count : v.data[n.table][k - NDADDR] = n.at[k]

OwnNames == {".", ".."}

IsPath(path) == IsList(path) /\ \A k \in 1..Len(path) : path[k] \notin OwnNames

(* What is not the root is in a directory, which has a record for it; a    *)
(* record that is not a directory's own or its parent's is for a file.     *)
IsIn(n, d) ==
  /\ d.kind = "directory"
  /\ \E r \in Range(parse_directory(d.content)) :
       r.name \notin OwnNames /\ n.path = Append(d.path, r.name) /\ n.ino = r.ino

HasTree(v) ==
  /\ \E n \in v.nodes : n.path = << >>
  /\ \A n \in v.nodes : n.path = << >> => n.ino = ROOT_INO
  /\ \A n \in v.nodes : IsList(n.path) /\ (n.path # << >> => \E d \in v.nodes : IsIn(n, d))
  /\ \A d \in v.nodes : d.kind = "directory" =>
       /\ IsList(parse_directory(d.content))
       /\ \A r \in Range(parse_directory(d.content)) :
            r.name \notin OwnNames => \E n \in v.nodes : n.path = Append(d.path, r.name) /\ n.ino = r.ino

IsVolume(v) ==
  /\ IsGeometry(v.sb) /\ v.size \in Nat
  /\ \A n \in v.nodes : HasInode(v, n) /\ HasContent(v, n)
  /\ HasTree(v)

(* The images hold file systems that are laid out like that, and a request *)
(* names one of them, and a path that does not go back up.                 *)
ASSUME ReaderAssumption ==
  /\ \A name \in DOMAIN Volumes : \A o \in DOMAIN Volumes[name].at : IsVolume(Volumes[name].at[o])
  /\ \A r \in Requests : r.volume \in DOMAIN Volumes /\ IsPath(r.root)

-----------------------------------------------------------------------------
(* What is extracted so far stays, and an exception ends the process.      *)
fail(why) == extractor' = [extractor EXCEPT !.pc = "failed", !.why = why]

Root == Volumes[extractor.request.volume].at[extractor.offset]

(* The file system, and the check of the destination.                      *)
extract_tree ==
  /\ extractor.pc # "walk"
  /\ \E r \in Requests :
       LET image == Volumes[r.volume]
       IN \E o \in open_image(image, default_root_offset(image)) :
            extractor' = [pc |-> IF extracted = << >> THEN "walk" ELSE "failed", request |-> r,
                          offset |-> o, todo |-> << << >> >>, why |-> "exists"]
  /\ UNCHANGED <<extracted, deaths, report>>

(* The names in a directory but for the directory's own and its parent's.  *)
Others(records) ==
  LET upto[i \in 0..Len(records)] ==
        IF i = 0 THEN << >>
        ELSE IF records[i].name \in OwnNames THEN upto[i - 1] ELSE Append(upto[i - 1], records[i].name)
  IN upto[Len(records)]

Children(v, path, inode) ==
  {[i \in DOMAIN Others(d) |-> Append(path, Others(d)[i])] : d \in list_dir(v, inode)}

Unsafe(path) == path # << >> /\ path[Len(path)] \in {"", "a/b"}

(* One path: a directory is made, and what is in it comes next; a file is  *)
(* written over what may be there, a directory or a symlink is not.        *)
extract_one ==
  /\ extractor.pc = "walk" /\ extractor.todo # << >>
  /\ LET path == Head(extractor.todo)
         made(node) ==
           extracted' = [p \in DOMAIN extracted \cup {path} |-> IF p = path THEN node ELSE extracted[p]]
         next(more) == extractor' = [extractor EXCEPT !.todo = more \o Tail(@)]
         inode == resolve(Root, extractor.request.root \o path)
     IN IF Unsafe(path) THEN fail("unsafe") /\ UNCHANGED extracted
        ELSE IF inode = {} THEN fail("unreadable") /\ UNCHANGED extracted
        ELSE \E i \in inode :
             IF i.kind # "file" /\ path \in DOMAIN extracted THEN fail("exists") /\ UNCHANGED extracted
             ELSE IF i.kind = "directory"
             THEN /\ made([kind |-> "directory", data |-> << >>])
                  /\ IF Children(Root, path, i) = {} THEN fail("unreadable")
                     ELSE \E c \in Children(Root, path, i) : next(c)
             ELSE IF read_file(Root, i) = {} THEN fail("unreadable") /\ UNCHANGED extracted
             ELSE \E d \in read_file(Root, i) : made([kind |-> i.kind, data |-> d]) /\ next(<< >>)
  /\ UNCHANGED <<deaths, report>>

finish ==
  /\ extractor.pc = "walk" /\ extractor.todo = << >>
  /\ extractor' = [extractor EXCEPT !.pc = "done"]
  /\ UNCHANGED <<extracted, deaths, report>>

kill_extractor ==
  /\ extractor.pc = "walk" /\ deaths < Deaths
  /\ deaths' = deaths + 1 /\ fail("killed")
  /\ UNCHANGED <<extracted, report>>

-----------------------------------------------------------------------------
(* Which reader a kind of root file system is probed with.                 *)
path_probe(kind) ==
  CASE kind = "rhapsody-dr2" -> "rdrufs"
    [] kind = "darwin" -> "nextufs-or-native-ufs"
    [] kind \in {"openstep", "nextstep", "rhapsodios"} -> "nextufs"

REQUIRED_BOOT_PATHS(kind) ==
  IF kind \in {"openstep", "nextstep"}
  THEN {<<"mach_kernel">>, <<"private", "Drivers", "i386", "System.config">>}
  ELSE {<<"mach_kernel">>, <<"System", "Library">>, <<"usr">>}

_native_ufs_paths(image, paths, offset) ==
  {{p \in paths : resolve(image.at[o], p) # {}} : o \in open_image(image, offset)}

_ufs_paths(image, paths) == image.next \cap paths

(* Mutant: what either reader finds counts.                                *)
FallbackBoth(paths, next, native) == next \cup UNION native

(* If the first reader misses a path, what the second one finds replaces   *)
(* what the first one found.                                               *)
Fallback(paths, next, native) ==
  IF paths \subseteq next \/ native = {} THEN next ELSE UNION native

inspect_xnu_root ==
  /\ report = Unset
  /\ \E name \in DOMAIN Volumes, kind \in {"openstep", "rhapsody-dr2", "rhapsodios", "darwin"},
        given \in {Unset} \cup UNION {DOMAIN Volumes[n].at : n \in DOMAIN Volumes} :
       LET image == Volumes[name]
           paths == REQUIRED_BOOT_PATHS(kind)
           native == _native_ufs_paths(image, paths,
                       IF given = Unset THEN default_root_offset(image) ELSE {given})
           next == _ufs_paths(image, paths)
           found == IF path_probe(kind) = "nextufs" THEN next
                    ELSE IF path_probe(kind) = "rdrufs" \/ given # Unset THEN UNION native
                    ELSE Fallback(paths, next, native)
       IN report' = [image |-> name, kind |-> kind, bootable |-> paths \subseteq found]
  /\ UNCHANGED <<extracted, extractor, deaths>>

ReaderNext == extract_tree \/ extract_one \/ finish \/ kill_extractor

ProbeNext == inspect_xnu_root
=============================================================================
