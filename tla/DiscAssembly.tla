---------------------------- MODULE DiscAssembly ----------------------------
(***************************************************************************)
(* `reopenstep image extract-ufs`, `image wrap` (hybrid.py, iso.py) and    *)
(* `image disk` (disk.py): a raw disc is taken apart into a file system    *)
(* and a label template, and a file system is put behind an ISO's files or *)
(* a disk's boot porch with a label that is to lead to it.                 *)
(*                                                                         *)
(* Blocks have 2048 bytes, sectors 512.  An empty set stands for an error. *)
(***************************************************************************)
EXTENDS NextLabel

CONSTANTS
  RawDiscs,    \* [size, labels, behind]: the labels in the order of their
               \* places, and what is behind each front porch
  Templates,   \* label files from elsewhere: [size, label]
  Wraps,       \* requests of `image wrap`
  Masters,     \* requests of `image disk`; a source's labels are the
               \* sectors in which they begin
  FilePlaces,  \* the blocks at which a builder may put files
  Mishaps_,    \* what may happen to an assembly: "builder", "kill"
  Blank        \* no such file

Blocks_(bytes) == (bytes + 2047) \div 2048

(* What a count of blocks may be, so that a label can hold it and the      *)
(* reader takes it for one.                                                *)
Counts == 1..(256 * Word - 2)

(* A disc and its files are no larger than a label can say, what is behind *)
(* a porch inside the disc is not empty, and a whole label is one.  The    *)
(* labels of a boot source lie side by side in front of the file system.   *)
ASSUME AssemblyAssumption ==
  /\ \A raw \in RawDiscs :
       /\ raw.labels # << >> => Head(raw.labels) \in Labels
       /\ \A p \in DOMAIN raw.behind :
            p >= 1 /\ p < raw.size => raw.behind[p].size \in Nat /\ Blocks_(raw.behind[p].size) \in Counts
  /\ \A t \in Templates : t.size = LABEL_EXPORT_SIZE => t.label \in Labels
  /\ \A r \in Wraps : r.developer \in BOOLEAN /\ r.size \in Nat /\ Blocks_(r.size) \in Counts
  /\ \A r \in Masters :
       /\ r.porch \in Nat
       /\ \A s \in r.source.labels :
            /\ s \in Nat /\ s + 15 <= 4 * r.porch
            /\ \A t \in r.source.labels : s = t \/ s + 15 <= t \/ t + 15 <= s
  /\ \A at \in FilePlaces : at = 0 \/ at \in Counts

VARIABLES
  payload,     \* the extracted file system
  template,    \* the label file
  disc,        \* the output
  assembly     \* the last command: [pc, request]

assemblyVars == <<payload, template, disc, assembly>>

AssemblyInit ==
  /\ payload = Blank /\ template = Blank
  /\ disc = Blank /\ assembly = [pc |-> "idle"]

Rest == {"idle", "failed", "wrapped", "mastered", "extracted"}
Settled == assembly.pc \in Rest
Goto(pc) == assembly' = [assembly EXCEPT !.pc = pc]
Begin(pc, r) == assembly' = [pc |-> pc, request |-> r]

-----------------------------------------------------------------------------
(* The file system is written before the label is looked for.              *)
extract_raw_cd ==
  /\ Settled
  /\ \E raw \in RawDiscs :
       \E porch \in {p \in DOMAIN raw.behind : p >= 1 /\ p < raw.size} :
         /\ payload' = raw.behind[porch]
         /\ \/ raw.labels = << >> /\ Begin("failed", raw) /\ UNCHANGED template
            \/ raw.labels # << >> /\ Begin("extracted", raw)
                 /\ template' = [size |-> LABEL_EXPORT_SIZE, label |-> normalized_template(Head(raw.labels))]
  /\ UNCHANGED disc

(* A label file from elsewhere is put where the template would be.         *)
bring_template ==
  /\ Settled /\ template = Blank /\ \E t \in Templates : template' = t
  /\ UNCHANGED <<payload, disc, assembly>>

-----------------------------------------------------------------------------
hdiutil_only(r) == r.tool = "hdiutil"

(* The builders without long names cut the payload's name.                 *)
Named(r, name) == IF r.tool = "mkisofs" THEN "OPENSTEP" ELSE name

(* hdiutil puts what is in a directory behind the files of the root.       *)
developer_path(r) ==
  IF hdiutil_only(r) THEN <<"DEVELOPER", "OPENSTEP42DEV">> ELSE <<Named(r, "OPENSTEP42DEV")>>

Built(r, at, dev) ==
  [kind |-> "iso", label |-> Blank, torito |-> TRUE,
   boot_sectors |-> IF hdiutil_only(r) /\ r.mode = "floppy" THEN 0 ELSE 4,
   tree |-> [path \in {<<Named(r, "OPENSTEP42CD")>>} \cup (IF r.developer THEN {developer_path(r)} ELSE {}) |->
               IF path = <<Named(r, "OPENSTEP42CD")>>
               THEN [lba |-> at, size |-> payload.size, of |-> payload]
               ELSE [lba |-> dev, size |-> r.size, of |-> "developer"]]]

(* The tree goes where the builder likes, but hdiutil's root comes first.  *)
(* hdiutil may add a suffix to the output's name, and the file is renamed  *)
(* if the output is not there.  A floppy image of which hdiutil would load *)
(* no sector gets one.                                                     *)
build_iso_tree ==
  /\ Settled /\ payload # Blank /\ template # Blank
  /\ \E r \in Wraps, at \in FilePlaces : \E dev \in IF r.developer THEN FilePlaces \ {at} ELSE {at} :
       /\ r.developer /\ hdiutil_only(r) => at < dev
       /\ Begin("label", r)
       /\ LET built == Built(r, at, dev)
              there == IF hdiutil_only(r) /\ r.suffix /\ disc # Blank THEN disc ELSE built
          IN disc' = IF hdiutil_only(r) /\ r.mode = "floppy" /\ there.kind = "iso" /\ there.boot_sectors = 0
                     THEN [there EXCEPT !.boot_sectors = 1] ELSE there
  /\ UNCHANGED <<payload, template>>

builder_fails ==
  /\ "builder" \in Mishaps_ /\ Settled /\ payload # Blank /\ template # Blank
  /\ \E r \in Wraps : Begin("failed", r)
  /\ UNCHANGED <<payload, template, disc>>

(* A file of the tree, as the directories of the image tell.               *)
iso_path_extent(path) ==
  IF disc.kind = "iso" /\ path \in DOMAIN disc.tree THEN {disc.tree[path]} ELSE {}

iso_root_extent(name) == iso_path_extent(<<name>>)

(* A dlV3 template with its own front porch field is updated; another one  *)
(* gets the number where the command says.                                 *)
wrapped_label(r, file, dev) ==
  IF template.size # LABEL_EXPORT_SIZE THEN {}
  ELSE IF has_magic(template.label) /\ r.offset = FRONT_OFFSET /\ r.format = "u16be"
  THEN update_template(template.label, file.lba, Blocks_(file.size),
         {[base |-> d.lba - file.lba, size |-> Blocks_(r.size)] : d \in dev},
         IF r.root_kind = "rhapsody-dr2" THEN {0} ELSE {})
  ELSE patch_label(template.label, r.offset, file.lba, r.format)

(* The label goes over the first sectors of the image that was found.      *)
write_label ==
  /\ assembly.pc = "label"
  /\ LET r == assembly.request
         developer == IF r.developer THEN iso_path_extent(developer_path(r)) ELSE {}
         labels == UNION {wrapped_label(r, f, developer) : f \in iso_root_extent("OPENSTEP42CD")}
     IN IF labels = {} \/ (r.developer /\ developer = {})
        THEN Goto("failed") /\ UNCHANGED disc
        ELSE Goto("inspect") /\ \E l \in labels : disc' = [disc EXCEPT !.label = l]
  /\ UNCHANGED <<payload, template>>

inspect_el_torito ==
  /\ assembly.pc = "inspect"
  /\ Goto(IF disc.torito THEN "wrapped" ELSE "failed")
  /\ UNCHANGED <<payload, template, disc>>

-----------------------------------------------------------------------------
(* The porch of the boot source is copied, and every label in it is        *)
(* overwritten, before the file system is written behind the porch.        *)
master_ufs_disk ==
  /\ Settled /\ payload # Blank /\ template # Blank
  /\ \E r \in Masters :
       LET labels == IF template.size = LABEL_EXPORT_SIZE
                     THEN update_template(template.label, r.porch, Blocks_(payload.size), {}, {}) ELSE {}
           written(l) == [kind |-> "disk", label |-> l, copies |-> r.source.labels, at |-> r.porch, of |-> payload]
       IN IF r.size % 512 # 0 \/ r.porch * 2048 + payload.size > r.size
             \/ r.source.size < r.porch \/ r.source.optical \/ labels = {}
          THEN Begin("failed", r) /\ UNCHANGED disc
          ELSE \E l \in labels :
                 /\ disc' = [written(l) EXCEPT !.of = IF r.source.labels = {} THEN Blank ELSE payload]
                 /\ Begin(IF r.source.labels = {} THEN "failed" ELSE "verify", r)
  /\ UNCHANGED <<payload, template>>

(* The first label must lead to the file system, and that must be one.     *)
verify_disk ==
  /\ assembly.pc = "verify"
  /\ Goto(IF ufs_byte_offset(disc.label) = {disc.at * 2048} /\ disc.of.ufs THEN "mastered" ELSE "failed")
  /\ UNCHANGED <<payload, template, disc>>

kill_assembly ==
  /\ "kill" \in Mishaps_ /\ ~Settled /\ Goto("failed")
  /\ UNCHANGED <<payload, template, disc>>

AssemblyNext ==
  \/ extract_raw_cd \/ bring_template \/ build_iso_tree \/ builder_fails \/ write_label \/ inspect_el_torito
  \/ master_ufs_disk \/ verify_disk \/ kill_assembly
=============================================================================
