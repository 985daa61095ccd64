----------------------------- MODULE NextLabel ------------------------------
(***************************************************************************)
(* The NeXT disk label dlV3: nextlabel.py writes it, nextlabel.c (in the   *)
(* overlay of BootE) reads it.                                             *)
(*                                                                         *)
(* A label is its big-endian words by byte offset, those that are used;    *)
(* the word at 128 stands for all the others.  A partition's base and size *)
(* are 24 bits wide and share a word; its type is in one word.             *)
(***************************************************************************)
EXTENDS Integers, Sequences

LABEL_EXPORT_SIZE == 7680
CHECKSUM_OFFSET == 558
SECTOR_SIZE_OFFSET == 94
FRONT_OFFSET == 112
ROOT_OFFSET == 188
PARTITION_A_OFFSET == 192
PARTITION_B_OFFSET == 256
TYPE == 34

PartitionWords == {0, 2, 4, TYPE}
Magic == [o \in {0, 2} |-> IF o = 0 THEN 25708 ELSE 22067]

(* The words that the checksum covers, as they follow each other.          *)
Summed ==
  <<0, 2, 4, 6, SECTOR_SIZE_OFFSET, 110, FRONT_OFFSET, 128, ROOT_OFFSET,
    PARTITION_A_OFFSET, PARTITION_A_OFFSET + 2, PARTITION_A_OFFSET + 4, PARTITION_A_OFFSET + TYPE,
    PARTITION_B_OFFSET, PARTITION_B_OFFSET + 2, PARTITION_B_OFFSET + 4, PARTITION_B_OFFSET + TYPE>>

Word == 65536
Words == 0..(Word - 1)

Offsets == {Summed[i] : i \in DOMAIN Summed} \cup {CHECKSUM_OFFSET}
Labels == [Offsets -> Words]

has_magic(l) == \A o \in DOMAIN Magic : l[o] = Magic[o]

base_of(l, p) == l[p] * 256 + (l[p + 2] \div 256)
size_of(l, p) == (l[p + 2] % 256) * 65536 + l[p + 4]

Fits24(n) == n \in 0..(256 * Word - 1)

(* What write_be24 makes of a partition's base and of its size.            *)
with_base(l, p, n) ==
  [l EXCEPT ![p] = n \div 256, ![p + 2] = (n % 256) * 256 + (@ % 256)]

(* Mutant: the size is written over the base's last byte.                  *)
with_size_wide(l, p, n) == [l EXCEPT ![p + 2] = n \div 65536, ![p + 4] = n % 65536]

with_size(l, p, n) ==
  [l EXCEPT ![p + 2] = (@ \div 256) * 256 + (n \div 65536), ![p + 4] = n % 65536]

(* One's complement: the whole sum is folded until it fits a word.         *)
Total(l) ==
  LET sum[i \in 0..Len(Summed)] == IF i = 0 THEN 0 ELSE sum[i - 1] + l[Summed[i]]
  IN sum[Len(Summed)]

Folded(total) ==
  LET fold[n \in 0..total] == IF n < 65536 THEN n ELSE fold[(n % 65536) + (n \div 65536)]
  IN fold[total]

checksum_v3(l) == Folded(Total(l))

(* The reader takes the carry back at every word, and takes the label      *)
(* block for zero.                                                         *)
Carried(n) == IF n > 65535 THEN n - 65535 ELSE n

dlV3Checksum(l) ==
  LET sum[i \in 0..Len(Summed)] ==
        IF i = 0 THEN 0 ELSE Carried(sum[i - 1] + (IF Summed[i] \in {4, 6} THEN 0 ELSE l[Summed[i]]))
  IN sum[Len(Summed)]

with_checksum(l) == [l EXCEPT ![CHECKSUM_OFFSET] = checksum_v3(l)]

(* The partition record of the root partition, a or b of the eight.        *)
root_record(l) ==
  IF l[ROOT_OFFSET] \div 256 = 97 THEN {PARTITION_A_OFFSET}
  ELSE IF l[ROOT_OFFSET] \div 256 = 98 THEN {PARTITION_B_OFFSET} ELSE {}

(* inspect_labels: where the root file system should be, in bytes.         *)
ufs_byte_offset(l) ==
  {(l[FRONT_OFFSET] + base_of(l, p)) * l[SECTOR_SIZE_OFFSET] : p \in root_record(l)}

(* The label that a raw disc's image has first, as a template.             *)
normalized_template(l) == with_checksum([l EXCEPT ![4] = 0, ![6] = 0])

(* A template for a file system behind a front porch: partition a keeps    *)
(* its base unless one is given; a partition b is a copy of a elsewhere.   *)
update_template(template, front, blocks, b, a_base) ==
  IF ~has_magic(template) \/ front \notin Words \/ ~Fits24(blocks)
     \/ \E x \in b : ~Fits24(x.base) \/ ~Fits24(x.size)
  THEN {}
  ELSE LET placed == [template EXCEPT ![4] = 0, ![6] = 0, ![FRONT_OFFSET] = front]
           based == IF a_base = {} THEN placed ELSE with_base(placed, PARTITION_A_OFFSET, 0)
           sized == with_size(based, PARTITION_A_OFFSET, blocks)
           copied == [o \in DOMAIN sized |->
                        IF o - PARTITION_B_OFFSET \in PartitionWords
                        THEN sized[o - PARTITION_B_OFFSET + PARTITION_A_OFFSET] ELSE sized[o]]
           second(x) == with_size(with_base(copied, PARTITION_B_OFFSET, x.base), PARTITION_B_OFFSET, x.size)
       IN {with_checksum(IF b = {} THEN sized ELSE second(CHOOSE x \in b : TRUE))}

Swapped(word) == (word % 256) * 256 + (word \div 256)

(* A field is overwritten, and nothing else.                               *)
patch_label(l, offset, blocks, format) ==
  CASE format = "u16be" -> IF blocks > 65535 THEN {} ELSE {[l EXCEPT ![offset] = blocks]}
    [] format = "u16le" -> IF blocks > 65535 THEN {} ELSE {[l EXCEPT ![offset] = Swapped(blocks)]}
    [] format = "u32be" -> {[l EXCEPT ![offset] = blocks \div 65536, ![offset + 2] = blocks % 65536]}
    [] format = "u32le" -> {[l EXCEPT ![offset] = Swapped(blocks % 65536),
                                      ![offset + 2] = Swapped(blocks \div 65536)]}
    [] OTHER -> {}

(* Where BootE looks for the root file system: in sectors of 512 bytes     *)
(* behind the place of the label, if it takes the label.                   *)
NeXTLabelUFSOffset(l, labelSector) ==
  LET secsize == l[SECTOR_SIZE_OFFSET]
  IN {(l[FRONT_OFFSET] + base_of(l, p)) * (secsize \div 512) :
        p \in {r \in root_record(l) :
                 /\ has_magic(l) /\ l[4] = 0 /\ l[6] = labelSector
                 /\ l[CHECKSUM_OFFSET] = dlV3Checksum(l)
                 /\ base_of(l, r) # 16777215 /\ size_of(l, r) \notin {0, 16777215}
                 /\ l[r + TYPE] = 43
                 /\ secsize # 0 /\ secsize % 512 = 0}}

(* The sectors in which BootE looks for a label, in this order; `at` are   *)
(* the labels of a disc by their sectors, of 512 bytes.  The first that is *)
(* taken in its own sector counts.                                         *)
LabelSectors == {0, 15, 30, 45}

newNeXTBVRef(at) ==
  LET taken == {s \in LabelSectors \cap DOMAIN at : NeXTLabelUFSOffset(at[s], s) # {}}
  IN UNION {NeXTLabelUFSOffset(at[s], s) : s \in {t \in taken : \A u \in taken : t <= u}}
=============================================================================
