---------------------------- MODULE RebuildImage ----------------------------
(***************************************************************************)
(* rebuild.py: one command that stages a tree of files in a temporary      *)
(* directory, has an external program make an El Torito image of it, and   *)
(* edits and checks that image under its final name.                       *)
(*                                                                         *)
(* A tree is a function from paths, sequences of names, to what is there:  *)
(* a "file", with what it holds and whether it is write-protected, a       *)
(* "folder", a "link" to a directory or one that is "dangling".  A link to *)
(* a file is read as that file.  The cache of the Y2K image and the output *)
(* outlive a run.                                                          *)
(***************************************************************************)
EXTENDS Integers, Sequences, TLC

CONSTANTS
  CommandLines,  \* what the command may be asked, with what the host has: its
                 \* extractors, its image builders, and whether write
                 \* protection stops the command there
  Y2K,           \* the tree of the Y2K image
  Layouts,       \* which block a builder may give to each name of the root
  LongNames,     \* names mkisofs shortens
  Accidents,     \* what goes wrong: "network", "builder", "kill"
  MaxRuns,       \* how often the command is run
  None

(* A label template has a field for the front porch's block.               *)
ASSUME RebuildAssumption ==
  /\ None \notin {"ok", "error", "traceback", "usage", "killed"}
  /\ Y2K = [p \in DOMAIN Y2K |-> Y2K[p]]
  /\ \A a \in CommandLines :
       /\ a.label # None => "porch" \in DOMAIN a.label /\ a.label = [f \in DOMAIN a.label |-> a.label[f]]
       /\ {a.skip, a.test} \subseteq BOOLEAN
       /\ \A s \in {a.patches, a.overlays} : Len(s) \in Nat /\ DOMAIN s = 1..Len(s)

SectorSize == 2048
LabelSize == 7680
Width == [u16le |-> 2, u16be |-> 2, u32le |-> 4, u32be |-> 4]

VARIABLES
  step,     \* where main is
  args,     \* its command line
  image,    \* the boot image in the work directory
  stage,    \* the staged tree
  layers,   \* the trees still to be merged
  cache,    \* the Y2K image under its cache name: None, "part" or "whole"
  output,   \* what is under the output's name
  ufs,      \* where find_iso_file_extent saw the wrapped file
  status,   \* how the last run ended
  runs      \* how many there were

rebuildVars == <<step, args, image, stage, layers, cache, output, ufs, status, runs>>

RebuildInit ==
  /\ step = "idle" /\ args = None /\ image = None /\ stage = << >> /\ layers = << >>
  /\ cache = None /\ output = None /\ ufs = None /\ status = None /\ runs = 0

(* BuildError and any other exception end the run; the work directory goes.*)
ends(why) == step' = "idle" /\ status' = why

Directory == [kind |-> "folder", of |-> "folder", locked |-> FALSE]
Written(of) == [kind |-> "file", of |-> of, locked |-> FALSE]

Folders(tree) == {p \in DOMAIN tree : tree[p].kind = "folder"}
Files(tree) == {p \in DOMAIN tree : tree[p].kind = "file"}

(* The tree that is one file.                                              *)
File(name, file) == [p \in {<<name>>} |-> file]

BootDir(name) == <<"boot", name>>

main ==
  /\ step = "idle" /\ runs < MaxRuns
  /\ \E a \in CommandLines :
       /\ args' = a
       /\ IF a.base # None /\ a.raw # None THEN ends("usage") ELSE step' = "resolve" /\ status' = None
  /\ runs' = runs + 1
  /\ image' = None /\ stage' = << >> /\ layers' = << >> /\ ufs' = None
  /\ UNCHANGED <<cache, output>>

(* A boot image as given, or the one member of an archive that is neither  *)
(* a directory nor a resource fork.                                        *)
Members(floppy) == {m \in floppy.members : ~m.directory /\ ~m.fork}

Images(a) ==
  IF a.boot # None THEN {a.boot}
  ELSE IF a.floppy = None THEN {}
  ELSE IF ~a.floppy.zip THEN {a.floppy.file}
  ELSE {m.file : m \in Members(a.floppy)}

resolve_boot_image ==
  /\ step = "resolve"
  /\ \/ \E i \in Images(args) :
          /\ Images(args) = {i}
          /\ image' = i /\ step' = "y2k" /\ UNCHANGED status
     \/ (~\E i \in Images(args) : Images(args) = {i}) /\ ends("error") /\ UNCHANGED image
  /\ UNCHANGED <<args, stage, layers, cache, output, ufs, runs>>

(* A file under the cache's name is taken as it is.  The answer's first    *)
(* byte comes before the file is opened, the rest after.                   *)
ensure_y2k_patch_iso ==
  /\ step = "y2k"
  /\ \/ (args.skip \/ cache # None) /\ step' = "stage" /\ UNCHANGED <<cache, status>>
     \/ ~args.skip /\ cache = None /\ args.url /\ cache' = "part" /\ step' = "download" /\ UNCHANGED status
     \/ /\ ~args.skip /\ cache = None /\ (~args.url \/ "network" \in Accidents)
        /\ ends("error") /\ UNCHANGED cache
  /\ UNCHANGED <<args, image, stage, layers, output, ufs, runs>>

download ==
  /\ step = "download"
  /\ \/ cache' = "whole" /\ step' = "stage" /\ UNCHANGED status
     \/ "network" \in Accidents /\ ends("error") /\ UNCHANGED cache
  /\ UNCHANGED <<args, image, stage, layers, output, ufs, runs>>

-----------------------------------------------------------------------------
(* Mutant: what is there already is kept.                                  *)
copy_tree_kept(tree, onto) ==
  [p \in DOMAIN onto \cup Files(tree) \cup Folders(tree) |->
     IF p \in DOMAIN onto THEN onto[p] ELSE tree[p]]

(* shutil.copy2 puts a file inside the directory that has its path.        *)
Landed(p, onto) == IF p \in Folders(onto) THEN Append(p, p[Len(p)]) ELSE p

Landings(tree, onto) == {Landed(p, onto) : p \in Files(tree)}

(* copy_tree and copy_file: the directories, and the files with their      *)
(* protection, over what is there.  os.walk counts a symlink to a          *)
(* directory among the directories and does not enter it: it is left out.  *)
copy_tree(tree, onto) ==
  [p \in DOMAIN onto \cup Landings(tree, onto) \cup Folders(tree) |->
     IF p \in Folders(tree) THEN Directory
     ELSE IF p \in Landings(tree, onto) THEN tree[CHOOSE q \in Files(tree) : Landed(q, onto) = p]
     ELSE onto[p]]

(* There is no directory where a file is, no file where a directory is and *)
(* none through a link that dangles; a protected file cannot be written.   *)
Raises(tree, onto) ==
  \/ Folders(tree) \cap Files(onto) # {}
  \/ Landings(tree, onto) \cap (Folders(onto) \cup Folders(tree)) # {}
  \/ \E p \in DOMAIN tree : tree[p].kind = "dangling"
  \/ ~args.host.superuser /\ \E p \in Landings(tree, onto) \cap DOMAIN onto : onto[p].locked

(* The tree below two directories.                                         *)
Placed(tree, outer, inner) ==
  LET under == {<<outer>>, <<outer, inner>>}
  IN [p \in under \cup {<<outer, inner>> \o q : q \in DOMAIN tree} |->
        IF p \in under THEN Directory ELSE tree[SubSeq(p, 3, Len(p))]]

(* What a payload brings: its root/ over the tree, or all of it below.     *)
merge_named_payload(payload) ==
  IF payload.root THEN payload.tree ELSE Placed(payload.tree, "user", "user")

Layer(tree) == [kind |-> "tree", tree |-> tree]
Iso(tree, whole) == [kind |-> "iso", tree |-> tree, whole |-> whole]
RootLayer(payload) ==
  IF payload = None THEN << >> ELSE <<IF payload.root THEN Layer(payload.tree) ELSE [kind |-> "missing"]>>

Boot == [p \in {<<"boot">>, BootDir(args.name)} |-> IF p = <<"boot">> THEN Directory ELSE image]

Isos(a) == [i \in 1..Len(a.patches) |-> Iso(a.patches[i], TRUE)]
           \o (IF a.skip THEN << >> ELSE <<Iso(Y2K, cache = "whole")>>)

(* What main copies into the empty stage, in its order.                    *)
TestLayers == <<Layer(Boot)>> \o <<Layer(File("README.TXT", Written("readme")))>>

RawLayers(a, payload) == <<Layer(Boot)>> \o <<Layer(File(a.ufs, Written(payload)))>> \o Isos(a)

BaseLayers(a) ==
  <<Iso(a.base, TRUE)>>
  \o <<Layer(Boot)>>
  \o Isos(a)
  \o (IF a.drivers = << >> THEN << >> ELSE <<Layer(Placed(a.drivers, "drivers", "floppies"))>>)
  \o (IF a.user = None THEN << >> ELSE <<Layer(merge_named_payload(a.user))>>)
  \o RootLayer(a.patch)
  \o RootLayer(a.driver)
  \o [i \in 1..Len(a.overlays) |-> Layer(a.overlays[i])]

(* A raw disc's payload begins behind its front porch.                     *)
extract_raw_cd_ufs(raw, porch) ==
  IF porch >= 0 /\ porch * SectorSize < raw.size THEN {raw.behind[porch]} ELSE {}

begin_stage ==
  /\ step = "stage"
  /\ \/ args.test /\ layers' = TestLayers /\ step' = "merge" /\ UNCHANGED status
     \/ /\ ~args.test /\ args.raw # None
        /\ \/ \E f \in extract_raw_cd_ufs(args.raw, args.porch) :
                layers' = RawLayers(args, f) /\ step' = "merge" /\ UNCHANGED status
           \/ extract_raw_cd_ufs(args.raw, args.porch) = {} /\ ends("error") /\ UNCHANGED layers
     \/ /\ ~args.test /\ args.raw = None /\ args.base # None
        /\ layers' = BaseLayers(args) /\ step' = "merge" /\ UNCHANGED status
     \/ /\ ~args.test /\ args.raw = None /\ args.base = None
        /\ ends("error") /\ UNCHANGED layers
  /\ UNCHANGED <<args, image, stage, cache, output, ufs, runs>>

(* An image that is not whole is refused by the extractor, or yields only  *)
(* some of its files.                                                      *)
Extracted(layer) ==
  IF layer.kind = "tree" THEN {layer.tree}
  ELSE IF layer.kind = "missing" \/ args.host.extract = {} THEN {}
  ELSE IF layer.whole THEN {layer.tree}
  ELSE {[p \in q |-> layer.tree[p]] :
          q \in {r \in SUBSET DOMAIN layer.tree : \A p \in r : Len(p) > 1 => SubSeq(p, 1, Len(p) - 1) \in r}}

merge ==
  /\ step = "merge" /\ layers # << >>
  /\ LET layer == Head(layers)
     IN \/ \E tree \in Extracted(layer) :
             IF Raises(tree, stage)
             THEN ends("traceback") /\ UNCHANGED <<stage, layers>>
             ELSE stage' = copy_tree(tree, stage) /\ layers' = Tail(layers) /\ UNCHANGED <<step, status>>
        \/ /\ Extracted(layer) = {} \/ (layer.kind = "iso" /\ ~layer.whole)
           /\ ends("error") /\ UNCHANGED <<stage, layers>>
  /\ UNCHANGED <<args, image, cache, output, ufs, runs>>

Manifest_ == "REOPENSTEP_BUILD_MANIFEST.txt"

(* It is made writable first, and has to be a file.                        *)
write_manifest ==
  /\ step = "merge" /\ layers = << >>
  /\ \/ args.test /\ step' = "build" /\ UNCHANGED <<stage, status>>
     \/ /\ ~args.test /\ <<Manifest_>> \notin Folders(stage)
        /\ stage' = copy_tree(File(Manifest_, Written("manifest")), stage)
        /\ step' = "build" /\ UNCHANGED status
     \/ /\ ~args.test /\ <<Manifest_>> \in Folders(stage)
        /\ ends("traceback") /\ UNCHANGED stage
  /\ UNCHANGED <<args, image, layers, cache, output, ufs, runs>>

-----------------------------------------------------------------------------
(* xorriso first; both are told to boot the staged image, which must be a  *)
(* file, and put a place for every name in the root.  A program that fails *)
(* may leave a beginning under the output's name, one that succeeds an     *)
(* image whose descriptors are not what was asked for.                     *)
Builder == IF "xorriso" \in args.host.build THEN "xorriso" ELSE "mkisofs"

NameIn(builder, name) == IF builder = "mkisofs" /\ name \in LongNames THEN "short" ELSE name

Descriptors ==
  {<<"pvd", "boot", "end">>}
  \cup (IF "builder" \in Accidents THEN {<<"pvd", "end", "boot">>, <<"boot", "end">>, <<"pvd", "boot">>} ELSE {})

Made ==
  [tree : {stage}, root : {[n \in {NameIn(Builder, p[1]) : p \in DOMAIN stage} |-> l[n]] : l \in Layouts},
   descriptors : Descriptors, catalog : {0} \cup (IF "builder" \in Accidents THEN {1} ELSE {}), label : {None}]

Partial == [descriptors |-> << >>]

build_iso ==
  /\ step = "build"
  /\ \/ /\ args.host.build # {} /\ BootDir(args.name) \in Files(stage)
        /\ output' \in Made /\ step' = "find" /\ UNCHANGED status
     \/ args.host.build = {} /\ ends("error") /\ UNCHANGED output
     \/ /\ args.host.build # {} /\ ("builder" \in Accidents \/ BootDir(args.name) \notin Files(stage))
        /\ output' \in {output, Partial} /\ ends("error")
  /\ UNCHANGED <<args, image, stage, layers, cache, ufs, runs>>

Wrapped == ~args.test /\ args.raw # None

find_iso_file_extent ==
  /\ step = "find"
  /\ IF ~Wrapped THEN step' = "label" /\ UNCHANGED <<ufs, status>>
     ELSE IF "pvd" = output.descriptors[1] /\ args.ufs \in DOMAIN output.root
     THEN ufs' = output.root[args.ufs] /\ step' = "label" /\ UNCHANGED status
     ELSE ends("error") /\ UNCHANGED ufs
  /\ UNCHANGED <<args, image, stage, layers, cache, output, runs>>

(* The template's field gets the block; pack_into raises for a block that  *)
(* does not fit the field.                                                 *)
Fits(format, block) == block < 256 ^ Width[format]

(* Mutant: the template is written as it is.                               *)
patch_label_unchanged(label, block) == label

patch_label_front_porch(label, block) == [label EXCEPT !.porch = block]

apply_label_overlay ==
  /\ step = "label"
  /\ LET label == args.label
         patched == Wrapped /\ label.offset # None
     IN IF label = None THEN step' = "validate" /\ UNCHANGED <<output, status>>
        ELSE IF \/ label.size # LabelSize
                \/ patched /\ (label.offset < 0 \/ label.offset + Width[label.format] > label.size)
        THEN ends("error") /\ UNCHANGED output
        ELSE IF patched /\ ~Fits(label.format, ufs) THEN ends("traceback") /\ UNCHANGED output
        ELSE /\ output' = [output EXCEPT !.label = IF patched THEN patch_label_front_porch(label, ufs) ELSE label]
             /\ step' = "validate" /\ UNCHANGED status
  /\ UNCHANGED <<args, image, stage, layers, cache, ufs, runs>>

(* The scan of the volume descriptors ends at the terminator.              *)
Scanned(d) == {d[i] : i \in {k \in DOMAIN d : \A j \in 1..(k - 1) : d[j] # "end"}}

validate_el_torito(iso) ==
  "pvd" \in Scanned(iso.descriptors) /\ "boot" \in Scanned(iso.descriptors) /\ iso.catalog = 0

require_valid ==
  /\ step = "validate"
  /\ ends(IF validate_el_torito(output) THEN "ok" ELSE "error")
  /\ UNCHANGED <<args, image, stage, layers, cache, output, ufs, runs>>

(* The command may be killed anywhere, the image builder with it.          *)
kill_rebuild ==
  /\ "kill" \in Accidents /\ step # "idle"
  /\ ends("killed")
  /\ output' \in IF step = "build" THEN {output, Partial} ELSE {output}
  /\ UNCHANGED <<args, image, stage, layers, cache, ufs, runs>>

RebuildNext ==
  \/ main \/ resolve_boot_image \/ ensure_y2k_patch_iso \/ download \/ begin_stage \/ merge
  \/ write_manifest \/ build_iso \/ find_iso_file_extent \/ apply_label_overlay \/ require_valid
  \/ kill_rebuild
=============================================================================
