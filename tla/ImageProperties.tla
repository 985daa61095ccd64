-------------------------- MODULE ImageProperties --------------------------
(***************************************************************************)
(* What must be true of the image writers.  What a job means is defined    *)
(* here without nextufs: by saying, for every path of the result, which    *)
(* member or node it comes from.                                           *)
(***************************************************************************)
EXTENDS ImageWriter, FiniteSets, FiniteSetsExt

(* An image as a reader sees it: for every path what it is, and which      *)
(* other names it has.                                                     *)
View(image) ==
  [p \in DOMAIN image.name |->
     [what |-> node(image, p), twins |-> {q \in DOMAIN image.name : image.name[q] = image.name[p]}]]

ViewOf(origin, What(_)) ==
  [p \in DOMAIN origin |->
     [what |-> What(origin[p]), twins |-> {q \in DOMAIN origin : origin[q] = origin[p]}]]

Base(image) == [p \in DOMAIN image.name |-> <<"base", image.name[p]>>]

-----------------------------------------------------------------------------
(* An archive over an image.  After k members, p is what the last member   *)
(* that made p brought; a hard link made it what its target was by then; a *)
(* directory makes nothing where there is something.                       *)
Origin(members, image) ==
  LET there(k, p) == Exists(image, p) \/ \E i \in 1..(k - 1) : members[i].name = p
      made(k, p) ==
        {i \in 1..k : members[i].name = p /\ (members[i].do = "directory" => ~there(i, p))}
      origin[k \in 0..Len(members)] ==
        [p \in Paths |->
           IF made(k, p) = {}
           THEN IF Exists(image, p) THEN <<"base", image.name[p]>> ELSE <<"none", 0>>
           ELSE LET last == Max(made(k, p))
                IN IF members[last].do = "hardlink"
                   THEN origin[last - 1][members[last].data]
                   ELSE <<"member", last>>]
  IN origin

(* What an origin holds after k members: the last that named it marked it. *)
Content(members, image, origin, k, o) ==
  LET touched == {i \in 1..k : origin[i][members[i].name] = o}
  IN [kind |-> IF o[1] = "base" THEN image.inode[o[2]].kind ELSE members[o[2]].do,
      data |-> IF o[1] = "base" THEN image.inode[o[2]].data ELSE members[o[2]].data,
      attr |-> IF touched # {} THEN members[Max(touched)].attr ELSE image.inode[o[2]].attr]

OverlayMeaning(j, image) ==
  LET n == Len(j.members)
      origin == Origin(j.members, image)
      what(o) == Content(j.members, image, origin, n, o)
  IN ViewOf([p \in {q \in Paths : origin[n][q] # <<"none", 0>>} |-> origin[n][p]], what)

(* One file has new content and mode, and has parted from its other names. *)
ReplaceFileMeaning(j, image) ==
  LET what(o) == IF o[1] = "base" THEN image.inode[o[2]]
                 ELSE [kind |-> "file", data |-> j.data, attr |-> "0444"]
  IN ViewOf([Base(image) EXCEPT ![j.path] = <<"new", 0>>], what)

(* Below the root there is the source's tree and nothing else.             *)
Placed(j, nodes) == {j.target[q] : q \in nodes}

TreeOrigin(j, image, kept, fresh, nodes) ==
  [p \in kept \cup fresh \cup Placed(j, nodes) |->
     IF p \in Placed(j, nodes) THEN <<"source", CHOOSE q \in nodes : j.target[q] = p>>
     ELSE IF p \in fresh THEN <<"root", 0>> ELSE <<"base", image.name[p]>>]

TreeContent(image, source, o) ==
  CASE o[1] = "base" -> image.inode[o[2]]
    [] o[1] = "source" -> node(source, o[2])
    [] o[1] = "root" -> [kind |-> "directory", data |-> "none", attr |-> "new"]

TreeMeaning(j, image, source) ==
  LET kept == DOMAIN image.name \ Below(j.root)
      nodes == Below(j.from) \cap DOMAIN source.name
      what(o) == TreeContent(image, source, o)
  IN ViewOf(TreeOrigin(j, image, kept, {j.root} \ kept, nodes), what)

Meaning(j, r) ==
  CASE j.op = "overlay" -> OverlayMeaning(j, r.image)
    [] j.op = "replace_file" -> ReplaceFileMeaning(j, r.image)
    [] j.op \in {"insert_tree", "replace_tree"} -> TreeMeaning(j, r.image, r.source)

(* Where each path of a job's result comes from.                           *)
Provenance(j, r) ==
  CASE j.op = "overlay" -> Origin(j.members, r.image)[Len(j.members)]
    [] j.op = "replace_file" -> [Base(r.image) EXCEPT ![j.path] = <<"new", 0>>]
    [] j.op \in {"insert_tree", "replace_tree"} ->
         LET kept == DOMAIN r.image.name \ Below(j.root)
         IN TreeOrigin(j, r.image, kept, {j.root} \ kept, Below(j.from) \cap DOMAIN r.source.name)

(* Equal but for files that the helper wrote wrongly.                      *)
Matches(seen, meant) ==
  /\ DOMAIN seen = DOMAIN meant
  /\ \A p \in DOMAIN meant :
       /\ seen[p].twins = meant[p].twins
       /\ seen[p].what \in {meant[p].what, [meant[p].what EXCEPT !.data = "corrupt"]}

-----------------------------------------------------------------------------
(* Whatever fails, is killed or runs beside it: an image file changes only *)
(* in one step, to what a writer with that output was asked to make of the *)
(* image it copied (ufs.py: the working copy and os.replace).              *)
OutputIsWhole ==
  [][\A f \in DOMAIN files : files'[f] # files[f] =>
       \E w \in Writers : /\ at[w] = "publish" /\ job[w].output = f
                          /\ Matches(View(files'[f]), Meaning(job[w], read[w]))]_vars

(* Members and nodes come in an order nextufs accepts: directories before  *)
(* what is in them, links after their targets, and in a tree that is taken *)
(* away the other way round; what is in the way is gone before it is made. *)
NeverRefused == \A w \in Writers : at[w] # "refused"

(* What the writers read back, under any of its names: the file that is    *)
(* replaced, and what an archive brought of the verified paths.            *)
ReadBack(j, r, o) ==
  \/ j.op = "replace_file" /\ o = <<"new", 0>>
  \/ /\ j.op = "overlay"
     /\ \E p \in Verified : Expected(j.members, p) # {} /\ Provenance(j, r)[p] = o

(* A file that nextufs wrote wrongly without an error is in a published    *)
(* image only where nobody read it back: some archive or tree brought it,  *)
(* now or for the image that was copied.  No edit spoils what it leaves    *)
(* alone, whatever links there are, and a verified file is right under its *)
(* other names as well (ufs.py: extract_file before os.replace).           *)
WrongFilesAreUnread ==
  [][\A f \in DOMAIN files : files'[f] # files[f] =>
       \E w \in Writers :
         /\ at[w] = "publish" /\ job[w].output = f
         /\ \A p \in DOMAIN files'[f].name : node(files'[f], p).data = "corrupt" =>
              LET o == Provenance(job[w], read[w])[p]
              IN /\ ~ReadBack(job[w], read[w], o)
                 /\ o[1] = "base" => read[w].image.inode[o[2]].data = "corrupt"]_vars

(* Verification stops a writer only when nextufs wrote a file wrongly.     *)
VerificationIsHonest ==
  \A w \in Writers : at[w] = "unverified" =>
    \E p \in DOMAIN working[w].name : node(working[w], p).data = "corrupt"
=============================================================================
