------------------------------ MODULE MCDiscs -------------------------------
(* Discs and disks: labels whose words make carries, sizes that end inside *)
(* a block, and bases at the limits of their fields.                       *)
EXTENDS DiscAssembly, TLC

Letters(a) == a * 256 + 98

LabelOf(root, base, secsize, type, rest) ==
  LET zero == [o \in Offsets |-> 0]
      bare == Magic @@ (SECTOR_SIZE_OFFSET :> secsize @@ FRONT_OFFSET :> 80 @@ 128 :> rest @@ 6 :> 15 @@
               ROOT_OFFSET :> Letters(root) @@ (PARTITION_A_OFFSET + TYPE) :> type @@ zero)
  IN with_checksum(with_size(with_base(bare, PARTITION_A_OFFSET, base), PARTITION_A_OFFSET, 300000))

UfsFile(size, ufs) == [size |-> size, ufs |-> ufs]

MCRawDiscs ==
  {[size |-> 1000, labels |-> <<LabelOf(97, 0, 2048, 43, 65535), LabelOf(97, 0, 2048, 43, 1)>>,
    behind |-> 80 :> UfsFile(204800, TRUE) @@ 79 :> UfsFile(206848, FALSE) @@ 1000 :> UfsFile(0, FALSE)],
   [size |-> 1000, labels |-> <<LabelOf(97, 40960, 2048, 44, 40000)>>,
    behind |-> 80 :> UfsFile(2047, TRUE) @@ 0 :> UfsFile(204800, FALSE)],
   [size |-> 1000, labels |-> << >>, behind |-> 80 :> UfsFile(204800, TRUE)]}

MCTemplates ==
  {[size |-> LABEL_EXPORT_SIZE, label |-> LabelOf(97, 0, 1024, 43, 7)],
   [size |-> LABEL_EXPORT_SIZE, label |-> LabelOf(98, 0, 2048, 43, 65000)],
   [size |-> LABEL_EXPORT_SIZE, label |-> [LabelOf(97, 0, 2048, 43, 7) EXCEPT ![0] = 0]],
   [size |-> 8192, label |-> LabelOf(97, 0, 2048, 43, 7)]}

WrapAsked ==
  [tool |-> "xorriso", suffix |-> FALSE, mode |-> "floppy", developer |-> FALSE, size |-> 4097,
   offset |-> FRONT_OFFSET, format |-> "u16be", root_kind |-> "openstep"]

Developer == [WrapAsked EXCEPT !.developer = TRUE]

MCWraps ==
  {WrapAsked, Developer, [Developer EXCEPT !.tool = "hdiutil"], [Developer EXCEPT !.tool = "mkisofs"],
   [WrapAsked EXCEPT !.tool = "hdiutil", !.suffix = TRUE], [WrapAsked EXCEPT !.tool = "hdiutil", !.mode = "none"],
   [Developer EXCEPT !.root_kind = "rhapsody-dr2"]}
  \cup {[WrapAsked EXCEPT !.format = f, !.offset = 110] : f \in {"u16le", "u32be", "u32le"}}

Disk(porch, size, source) == [porch |-> porch, size |-> size, source |-> source]
BootDisk(size, labels, optical) == [size |-> size, labels |-> labels, optical |-> optical]

MCMasters ==
  {Disk(80, 4194304, BootDisk(80, {0, 15, 30, 45}, FALSE)), Disk(80, 4194304, BootDisk(79, {0}, FALSE)),
   Disk(80, 4194304, BootDisk(100, {16}, TRUE)), Disk(80, 4194304, BootDisk(100, {}, FALSE)),
   Disk(80, 262144, BootDisk(100, {0}, FALSE)), Disk(80, 4194305, BootDisk(100, {0}, FALSE)),
   Disk(160, 4194304, BootDisk(160, {16}, FALSE))}
=============================================================================
