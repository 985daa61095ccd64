--------------------------- MODULE SourcePatches ----------------------------
(***************************************************************************)
(* How the BootE sources are prepared: tools/chameleon/bootstrap.sh gets   *)
(* the pinned commit into a work tree, and patch_source.py edits it.  A    *)
(* run may be killed anywhere and started again, and people edit the work  *)
(* tree between runs.                                                      *)
(*                                                                         *)
(* A text is a sequence of marks: the lines, or the parts of a line, that  *)
(* the edits look for or bring.  A mark of an edit stands for all lines of *)
(* a block that is only ever handled whole.                                *)
(***************************************************************************)
EXTENDS Integers, Sequences, SequencesExt

CONSTANTS
  Pinned,     \* the texts of the pinned commit, by file
  Restored,   \* the two texts taken from an older commit
  Overlay,    \* the files of overlay/i386
  Edited,     \* what a user may leave in a file
  Trouble     \* how often a run is killed or offline, or a user edits

VARIABLES
  git,        \* the clone: "none", "broken" (no commit in it), "whole"
  worktree,   \* the work tree
  prepare,    \* the last run: [pc, todo, why]
  troubles

sourceVars == <<git, worktree, prepare, troubles>>

SourceInit ==
  /\ git = "none" /\ worktree = [f \in {} |-> << >>]
  /\ prepare = [pc |-> "idle"] /\ troubles = 0

-----------------------------------------------------------------------------
(* The edits of a text.  An empty set: SystemExit.                         *)
Matches(text, marks) ==
  {i \in 1..(Len(text) - Len(marks) + 1) : SubSeq(text, i, i + Len(marks) - 1) = marks}

(* The marks from i to j become others.                                    *)
Splice(text, i, j, new) == SubSeq(text, 1, i - 1) \o new \o SubSeq(text, j + 1, Len(text))

replace_once(text, old, new) ==
  {Splice(text, i, i + Len(old) - 1, new) : i \in {k \in Matches(text, old) : Matches(text, old) = {k}}}

(* Mutant: the end of the pattern stays behind what replaces it.           *)
regex_once_ahead(text, first, last, new) ==
  LET ends(i) == {j \in Matches(text, last) : j >= i + Len(first)}
      starts == {i \in Matches(text, first) : ends(i) # {}}
  IN UNION {{Splice(text, i, j - 1, new) : j \in {b \in ends(i) : \A d \in ends(i) : b <= d}} :
               i \in {a \in starts : \A c \in starts : a <= c}}

(* From the first start that has an end behind it to the nearest end:      *)
(* there may be more.                                                      *)
regex_once(text, first, last, new) ==
  LET ends(i) == {j \in Matches(text, last) : j >= i + Len(first)}
      starts == {i \in Matches(text, first) : ends(i) # {}}
  IN UNION {{Splice(text, i, j + Len(last) - 1, new) : j \in {b \in ends(i) : \A d \in ends(i) : b <= d}} :
               i \in {a \in starts : \A c \in starts : a <= c}}

Each(text, old, new) == FlattenSeq([i \in DOMAIN text |-> IF text[i] = old THEN new ELSE <<text[i]>>])

Once(old, new) == [kind |-> "once", old |-> old, new |-> new]
Cut(first, last, new) == [kind |-> "cut", old |-> first, last |-> last, new |-> new]
Thrice(old, new) == [kind |-> "thrice", old |-> old, new |-> new]
Drop(old) == [kind |-> "drop", old |-> old, new |-> << >>]

Edit(text, e) ==
  CASE e.kind = "once" -> replace_once(text, e.old, e.new)
    [] e.kind = "cut" -> regex_once(text, e.old, e.last, e.new)
    [] e.kind = "drop" -> {Each(text, e.old[1], << >>)}
    [] OTHER -> IF Len(SelectSeq(text, LAMBDA m : m = e.old[1])) = 3
                THEN {Each(text, e.old[1], e.new)} ELSE {}

(* The edits of one text are made in memory, in order.                     *)
EditAll(text, edits) ==
  FoldLeft(LAMBDA texts, e : UNION {Edit(t, e) : t \in texts}, {text}, edits)

-----------------------------------------------------------------------------
(* The edits, in the order of main.                                        *)
Sse == Once(<<"-march=pentium4 -msse2">>, <<"-march=i686 -mno-sse">>)

libsaio_Makefile ==
  <<Once(<<"disk.o", "sys.o">>, <<"disk.o", "nextlabel.o", "openstep_boot.o", "sys.o">>),
    Once(<<"misc.o">>, <<"misc.o", "ufs.o", "ufs_byteorder.o">>),
    Once(<<"-DNOTHING">>, <<"-DNOTHING", "-D__APPLE_API">>),
    Once(<<"$(OMIT_FRAME_POINTER_CFLAG)">>, <<"$(OMIT_FRAME_POINTER_CFLAG)", "-mstack-alignment=4">>),
    Sse>>

memory_h ==
  <<Once(<<"BOOT2_SEG 0x2000">>, <<"BOOT2_SEG 0x5000">>),
    Once(<<"BOOT2_OFS 0x0200">>, <<"BOOT2_OFS 0x2000">>),
    Once(<<"BOOT2_MAX_LENGTH 0x6FE00">>, <<"BOOT2_MAX_LENGTH 0x4E000">>)>>

boot2_Makefile ==
  <<Once(<<"BOOT2ADDR = 20200">>, <<"BOOT2ADDR = 52000">>),
    Once(<<"MAXBOOTSIZE = 458240">>, <<"MAXBOOTSIZE = 319488">>),
    Once(<<"DATA_PAD = 3582">>, <<"DATA_PAD = 512">>),
    Once(<<"-fno-stack-protector", "-march=pentium4 -msse2">>,
         <<"-fno-stack-protector", "-fno-unwind-tables", "-march=pentium4 -msse2">>),
    Sse>>

cdboot_s ==
  <<Once(<<"kBoot2MaxSize 458240">>, <<"kBoot2MaxSize 319488">>),
    Once(<<"kBoot2Segment 0x2000">>, <<"kBoot2Segment 0x5000">>),
    Once(<<"kBoot2Address 0x0200">>, <<"kBoot2Address 0x2000">>)>>

boot1_s ==
  <<Once(<<"kBoot2Segment 0x2000">>, <<"kBoot2Segment 0x5000">>),
    Once(<<"kBoot2Address kSectorBytes">>, <<"kBoot2Address 0x2000">>)>>

boot_c ==
  <<Once(<<"modules.h">>, <<"modules.h", "openstep_boot.h">>),
    Once(<<"kernelEntry">>, <<"kernelEntry", "openStepBaseFile">>),
    Once(<<"kaddr = ksize = 0", "ExecKernel">>, <<"kaddr = ksize = 0", "preserveOpenStepBaseFile", "ExecKernel">>),
    Once(<<"return ret", "boot args">>,
         <<"return ret", "prepareOpenStepBootStruct", "startprog", "#if VBE", "setVideoMode", "#endif", "boot args">>)>>

boot2_s ==
  <<Once(<<"mov %ax, %es", "call __switch_stack">>,
         <<"mov %ax, %es", "#ifdef PROBE", "hlt", "#endif", "call __switch_stack">>),
    Once(<<"call __real_to_prot", "fninit">>, <<"call __real_to_prot", "cli", "fninit">>)>>

(* The second edit goes to the first ufs.h, the third takes both includes  *)
(* out again, and the fourth brings them back behind disk.h.  The patterns *)
(* look for blocks that earlier edits could have made or used up.          *)
disk_c ==
  <<Once(<<"UFS_SUPPORT 0">>, <<"UFS_SUPPORT 1">>),
    Once(<<"ufs.h">>, <<"ufs.h", "nextlabel.h">>),
    Once(<<"#if UFS", "ufs.h", "nextlabel.h", "#endif", "limits.h">>, <<"limits.h">>),
    Once(<<"disk.h">>, <<"disk.h", "#if UFS", "ufs.h", "nextlabel.h", "#endif">>),
    Once(<<"newAPMBVRef">>, <<"#if UFS", "newNeXTBVRef", "#endif", "newAPMBVRef">>),
    Cut(<<"#if UFS", "booterUFS", "#endif", "int spc">>, <<"do {">>, <<"do {">>),
    Once(<<"#if UFS", "case FDISK_UFS">>, <<"#if UFS", "case FDISK_NEXTNAME", "case FDISK_UFS">>),
    Cut(<<"#if UFS", "case FDISK_BOOTER">>, <<"#endif", "case FDISK_FAT32">>, <<"case FDISK_FAT32">>),
    Cut(<<"#if UFS", "// Booting from a CD">>, <<"#endif">>, << >>),
    Once(<<"diskScanAPMBootVolumes()">>,
         <<"#if UFS", "diskScanNeXTBootVolumes()", "#endif", "diskScanAPMBootVolumes()">>),
    Once(<<"bvr = diskScanAPM">>, <<"#if UFS", "bvr = diskScanNeXT", "#endif", "bvr = diskScanAPM">>),
    Once(<<"{ FDISK_UFS }">>, <<"{ FDISK_NEXTNAME }", "{ FDISK_UFS }">>)>>

ufs_byteorder_h ==
  <<Once(<<"vnode.h", "fs.h", "buf.h", "disk.h", "dinode.h">>,
         <<"vnode.h", "_INO_T", "dinode.h", "fs.h", "buf.h", "disk.h">>)>>

ufs_c ==
  <<Once(<<"*dir", "*buffer", "dirBlockOffset">>, <<"*dir", "localDir", "*buffer", "dirBlockOffset, copyLength">>),
    Once(<<"dir = buffer", "byte_swap_dir_block_in">>,
         <<"copyLength = ", "bcopy", "dir = &localDir", "byte_swap_dir_block_in">>),
    Once(<<"*dirIndex += d_reclen", "if d_ino break", "if dirBlockOffset return -1">>,
         <<"if d_reclen return -1", "*dirIndex += d_reclen", "if d_ino break", "if di_size return -1">>),
    Once(<<"*name = strlcpy">>, <<"strlcpy", "*name = gTempName2">>)>>

modules_Makefile ==
  <<Once(<<"SUBDIRS = KernelPatcher">>, <<"SUBDIRS =", "ifdef", "SUBDIRS += KernelPatcher", "endif">>)>>

boot2_Makefile_again ==
  <<Drop(<<"-Werror">>), Thrice(<<"-segaddr,__INIT">>, <<"-dead_strip", "-segaddr,__INIT">>)>>

Make_rules ==
  <<Drop(<<"-Werror">>),
    Once(<<"CFLAGS = -Wmost">>, <<"CFLAGS = -Wmost", "-fno-unwind-tables">>),
    Once(<<"BUILDDATE date">>, <<"BUILDDATE git">>), Once(<<"REVISION svnversion">>, <<"REVISION git">>),
    Once(<<"VERSION 5.0.132">>, <<"VERSION 5.0.133">>),
    Once(<<"CHAMELEONVERSION version">>, <<"CHAMELEONVERSION 2.3-itomato">>)>>

prompt_c == <<Once(<<"Chameleon v">>, <<"Chameleon itomato v">>)>>

Boot1 == <<"boot1f32.s", "boot1h.s", "boot1he.s", "boot1hp.s">>

(* The texts that main edits: each is read, edited and written at once.    *)
Patches ==
  LET text(file, edits) == [file |-> file, edits |-> edits]
  IN <<text("libsaio/Makefile", libsaio_Makefile), text("memory.h", memory_h),
       text("boot2/Makefile", boot2_Makefile), text("cdboot.s", cdboot_s)>>
     \o [i \in DOMAIN Boot1 |-> text(Boot1[i], boot1_s)]
     \o <<text("boot.c", boot_c), text("boot2.s", boot2_s), text("disk.c", disk_c),
          text("ufs_byteorder.h", ufs_byteorder_h), text("ufs.c", ufs_c),
          text("modules/Makefile", modules_Makefile), text("boot2/Makefile", boot2_Makefile_again),
          text("Make.rules", Make_rules), text("prompt.c", prompt_c)>>

(* The texts that are edited are in the pinned commit, and vers.h, which   *)
(* is made, is not.                                                        *)
ASSUME SourceAssumption ==
  /\ \A i \in DOMAIN Patches : Patches[i].file \in DOMAIN Pinned
  /\ "vers.h" \notin DOMAIN Pinned \cup DOMAIN Restored \cup Overlay

-----------------------------------------------------------------------------
Doing(pc) == prepare.pc = pc
To(pc) == prepare' = [prepare EXCEPT !.pc = pc]
Fail(why) == prepare' = [pc |-> "failed", why |-> why]
Resting == prepare.pc \in {"idle", "prepared", "failed"}

Put(files) ==
  worktree' = [f \in DOMAIN files \cup DOMAIN worktree |-> IF f \in DOMAIN files THEN files[f] ELSE worktree[f]]

Only(file, text) == [f \in {file} |-> text]

Disturb == troubles < Trouble /\ troubles' = troubles + 1

(* A directory .git is taken for a clone, whatever is in it.               *)
start ==
  /\ Resting /\ prepare' = [pc |-> IF git = "none" THEN "clone" ELSE "commit", todo |-> Patches]
  /\ UNCHANGED <<git, worktree, troubles>>

git_clone ==
  /\ Doing("clone") /\ To("commit") /\ git' = "whole" /\ Put(Pinned)
  /\ UNCHANGED troubles

(* The commit is fetched if the clone has not got it.                      *)
git_fetch ==
  /\ Doing("commit") /\ To("reset") /\ git' = "whole"
  /\ UNCHANGED <<worktree, troubles>>

offline ==
  /\ Doing("clone") \/ (Doing("commit") /\ git = "broken")
  /\ Disturb /\ Fail("network")
  /\ UNCHANGED <<git, worktree>>

(* Mutant: a work tree that has all files is left as it is.                *)
git_reset_missing ==
  /\ Doing("reset") /\ To("checkout")
  /\ Put([f \in DOMAIN Pinned \ DOMAIN worktree |-> Pinned[f]])
  /\ UNCHANGED <<git, troubles>>

(* git reset --hard: files that git does not track stay.                   *)
git_reset ==
  /\ Doing("reset") /\ To("checkout") /\ Put(Pinned)
  /\ UNCHANGED <<git, troubles>>

git_checkout ==
  /\ Doing("checkout") /\ To("enable") /\ Put(Restored)
  /\ UNCHANGED <<git, troubles>>

(* The disabled code of the two texts is enabled.                          *)
enable ==
  /\ Doing("enable") /\ To("overlay")
  /\ Put([f \in DOMAIN Restored |-> Each(worktree[f], "#if 0", <<"#if 1">>)])
  /\ UNCHANGED <<git, troubles>>

copy_overlay ==
  /\ Doing("overlay") /\ To("patch") /\ Put([f \in Overlay |-> <<"overlay">>])
  /\ UNCHANGED <<git, troubles>>

patch_text ==
  /\ Doing("patch") /\ prepare.todo # << >>
  /\ LET next == Head(prepare.todo)
         results == EditAll(worktree[next.file], next.edits)
     IN \/ results = {} /\ Fail("match") /\ UNCHANGED worktree
        \/ \E text \in results :
             Put(Only(next.file, text)) /\ prepare' = [prepare EXCEPT !.todo = Tail(@)]
  /\ UNCHANGED <<git, troubles>>

(* vers.h, and SOURCE_COMMIT after it.                                     *)
write_version ==
  /\ Doing("patch") /\ prepare.todo = << >> /\ To("prepared")
  /\ Put(Only("vers.h", <<"5.0.133">>))
  /\ UNCHANGED <<git, troubles>>

(* A killed clone leaves its .git, a killed copy or write part of a text;  *)
(* git itself takes back what it had begun.                                *)
kill_prepare ==
  /\ ~Resting /\ Disturb /\ Fail("killed")
  /\ \/ Doing("clone") /\ git' = "broken" /\ UNCHANGED worktree
     \/ Doing("overlay") /\ UNCHANGED git
          /\ \E part \in SUBSET Overlay : Put([f \in part |-> <<"overlay">>])
     \/ Doing("patch") /\ prepare.todo # << >> /\ UNCHANGED git /\ Put(Only(Head(prepare.todo).file, << >>))
     \/ ~Doing("clone") /\ UNCHANGED <<git, worktree>>

edit_tree ==
  /\ Resting /\ git = "whole" /\ Disturb
  /\ \E f \in DOMAIN worktree, text \in Edited : Put(Only(f, text))
  /\ prepare' = [pc |-> "idle"]
  /\ UNCHANGED git

SourceNext ==
  \/ start \/ git_clone \/ git_fetch \/ offline \/ git_reset \/ git_checkout \/ enable
  \/ copy_overlay \/ patch_text \/ write_version \/ kill_prepare \/ edit_tree
=============================================================================
