----------------------------- MODULE MCSources ------------------------------
(* A tree in place of the pinned one, which is fetched: every text has     *)
(* what its edits look for, in the order of the edits, and disk.c also     *)
(* what looks like it elsewhere.                                           *)
EXTENDS SourcePatches

LOCAL Olds(edits) == FlattenSeq([i \in DOMAIN edits |-> edits[i].old])

DiskC ==
  <<"UFS_SUPPORT 0", "#if UFS", "ufs.h", "#endif", "limits.h", "disk.h", "newAPMBVRef", "do {", "scan",
    "#if UFS", "booterUFS", "#endif", "int spc", "geometry", "do {", "switch",
    "#if UFS", "case FDISK_UFS", "#endif", "#if UFS", "case FDISK_BOOTER", "booter", "#endif",
    "case FDISK_FAT32", "#if UFS", "// Booting from a CD", "fallback", "#endif", "return",
    "diskScanAPMBootVolumes()", "do {", "#if UFS", "bvr = diskScanAPM", "#endif", "{ FDISK_UFS }">>

PinnedTexts ==
  [f \in {Patches[i].file : i \in DOMAIN Patches} |->
     CASE f = "disk.c" -> DiskC
       [] f = "boot2/Makefile" ->
            <<"BOOT2ADDR = 20200", "MAXBOOTSIZE = 458240", "DATA_PAD = 3582", "-Werror",
              "-fno-stack-protector", "-march=pentium4 -msse2", "-segaddr,__INIT", "-segaddr,__INIT",
              "-Werror", "-segaddr,__INIT">>
       [] OTHER -> Olds((CHOOSE p \in {Patches[i] : i \in DOMAIN Patches} : p.file = f).edits)]

(* The commit's own ufs.c is a later one, without what the edits look for. *)
MCPinned == "ufs.c" :> <<"later">> @@ PinnedTexts

MCRestored ==
  "ufs.c" :> (<<"#if 0">> \o PinnedTexts["ufs.c"] \o <<"#endif">>) @@
  "ufs_byteorder.c" :> <<"#if 0", "swap", "#endif">>

MCEdited == {<<"mine">>, <<"misc.o">>}
=============================================================================
