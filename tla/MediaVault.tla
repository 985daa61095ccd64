----------------------------- MODULE MediaVault -----------------------------
(***************************************************************************)
(* The vault of installation media (cli.py, manifest.py, recipe.py):       *)
(* `media adopt` copies a file into the vault and records its digest in    *)
(* manifest.local.json, `media inventory` compares the vault with what is  *)
(* recorded, `image recipe` compares and then writes what a build takes.   *)
(*                                                                         *)
(* A file is what it holds; a digest is what it was taken of.  Commands    *)
(* run beside each other and are killed, and files in the vault are edited.*)
(***************************************************************************)
EXTENDS Integers, Sequences, FiniteSets, TLC

CONSTANTS
  Adopters,     \* processes that adopt
  Media,        \* the ids of the manifest
  Repository,   \* those that belong to the repository and not to the vault
  Optional_,    \* those that may be missing
  Profiles,     \* the build profiles: [media, default, optional, native, archs]
  PathNames,    \* names that are empty or have "/" or ".." in them
  Manifest,     \* the digest the manifest has for each
  Candidates,   \* the files one may adopt
  Tampers,      \* how often a file in the vault is edited
  Kills,        \* how often a command is killed
  Adoptions,    \* how often one is started
  Missing

(* What is left of a copy that broke off is no file anybody has.           *)
ASSUME VaultAssumption ==
  /\ "partial" \notin Candidates \cup {Missing}
  /\ \A i \in Media : Manifest[i] # "partial"

VARIABLES
  vault,      \* the file of each id in the vault
  local,      \* manifest.local.json: digests by id
  temporary,  \* manifest.local.json.tmp
  adopter,    \* where each adopter is: [at, id, file, edited, read]
  recipes,    \* where the maker of recipes is: [at, profile,
              \* local, shown]
  written,    \* the recipe it wrote
  tampers, kills, adoptions,
  kept,       \* history: the ids adopted and not edited since
  overlapped  \* history: two adoptions ran at once

vaultVars == <<vault, local, temporary, adopter, recipes, written, tampers, kills, adoptions, kept, overlapped>>

Free == [at |-> "idle"]

VaultInit ==
  /\ vault = [i \in Media |-> IF i \in Repository THEN Manifest[i] ELSE Missing]
  /\ local = << >> /\ temporary = Missing
  /\ adopter = [a \in Adopters |-> Free]
  /\ recipes = [at |-> "idle"] /\ written = Missing
  /\ tampers = 0 /\ kills = 0 /\ adoptions = 0 /\ kept = {} /\ overlapped = FALSE

(* resolved_by_id: what is recorded locally comes before the manifest.     *)
resolved_by_id(i) == IF i \in DOMAIN local THEN local[i] ELSE Manifest[i]

verify(i) ==
  IF vault[i] = Missing THEN (IF i \in Optional_ THEN "optional-missing" ELSE "missing")
  ELSE IF vault[i] = resolved_by_id(i) THEN "ok" ELSE "mismatch"

-----------------------------------------------------------------------------
Busy(a) == adopter[a].at # "idle"

turns(a, k) == adopter' = [adopter EXCEPT ![a] = k]

At(a, at) == turns(a, [adopter[a] EXCEPT !.at = at])

Destination(i, file) == vault[i] \in {Missing, file}

(* A file that is there already must be the one that is adopted.           *)
adopt(a) ==
  /\ ~Busy(a) /\ adoptions < Adoptions /\ adoptions' = adoptions + 1
  /\ \E i \in Media \ Repository, file \in Candidates :
       /\ Destination(i, file)
       /\ turns(a, [at |-> IF vault[i] = Missing THEN "copy" ELSE "read", id |-> i, file |-> file,
                    edited |-> FALSE])
  /\ overlapped' = (overlapped \/ \E b \in Adopters : Busy(b))
  /\ UNCHANGED <<vault, local, temporary, recipes, written, tampers, kills, kept>>

(* copy2 makes the file under its final name and then fills it.            *)
copy2(a) ==
  /\ adopter[a].at \in {"copy", "fill"}
  /\ LET i == adopter[a].id
     IN IF adopter[a].at = "copy"
        THEN vault' = [vault EXCEPT ![i] = "partial"] /\ At(a, "fill")
        ELSE vault' = [vault EXCEPT ![i] = adopter[a].file] /\ At(a, "read")
  /\ UNCHANGED <<local, temporary, recipes, written, tampers, kills, adoptions, kept, overlapped>>

(* Mutant: the overrides start afresh.                                     *)
ForgetOverrides == << >>

Overrides == local

(* The overrides are read, the digest of what is in the vault is added.    *)
read_overrides(a) ==
  /\ adopter[a].at = "read" /\ vault[adopter[a].id] # Missing
  /\ LET i == adopter[a].id
     IN turns(a, [at |-> "write", id |-> i, edited |-> adopter[a].edited,
                  read |-> [j \in DOMAIN Overrides \cup {i} |->
                              IF j = i THEN vault[i] ELSE Overrides[j]]])
  /\ UNCHANGED <<vault, local, temporary, recipes, written, tampers, kills, adoptions, kept, overlapped>>

vanished(a) ==
  /\ adopter[a].at = "read" /\ vault[adopter[a].id] = Missing
  /\ turns(a, Free)
  /\ UNCHANGED <<vault, local, temporary, recipes, written, tampers, kills, adoptions, kept, overlapped>>

(* atomic_json: the temporary file has one name for all.                   *)
atomic_json(a) ==
  \/ /\ adopter[a].at = "write"
     /\ temporary' = adopter[a].read
     /\ At(a, "replace")
     /\ UNCHANGED <<vault, local, recipes, written, tampers, kills, adoptions, kept, overlapped>>
  \/ /\ adopter[a].at = "replace"
     /\ turns(a, Free)
     /\ IF temporary = Missing
        THEN UNCHANGED <<local, temporary, kept>>
        ELSE /\ local' = temporary /\ temporary' = Missing
             /\ kept' = IF adopter[a].edited THEN kept ELSE kept \cup {adopter[a].id}
     /\ UNCHANGED <<vault, recipes, written, tampers, kills, adoptions, overlapped>>

-----------------------------------------------------------------------------
(* One file that is missing or differs stops the recipe.                   *)
Ready(i) == verify(i) = "ok"

(* What a profile may not do: name a medium or a native package twice, a   *)
(* package as default and as optional, a native package by a name that     *)
(* leads elsewhere, or an architecture there is not.                       *)
Architectures == {"m68k", "i386", "hppa", "sparc"}

Repeats(names) == Cardinality({names[k] : k \in DOMAIN names}) # Len(names)

validate(p) ==
  /\ ~Repeats(p.media) /\ ~Repeats(p.native)
  /\ p.default \cap p.optional = {}
  /\ \A k \in DOMAIN p.native : p.native[k] \notin PathNames
  /\ p.archs \subseteq Architectures

Required(p) == {p.media[k] : k \in DOMAIN p.media}

(* verified_profile: every id of the profile is compared ...               *)
verified_profile ==
  /\ recipes.at = "idle"
  /\ \E p \in Profiles :
       /\ validate(p) /\ Required(p) \subseteq Media
       /\ \A i \in Required(p) : Ready(i)
       /\ recipes' = [at |-> "recipe", profile |-> p, local |-> local,
                      shown |-> [i \in Required(p) |-> vault[i]]]
  /\ UNCHANGED <<vault, local, temporary, adopter, written, tampers, kills, adoptions, kept, overlapped>>

(* ... and the recipe takes what is recorded by now.                       *)
mastering_recipe ==
  /\ recipes.at = "recipe"
  /\ written' = [inputs |-> [i \in Required(recipes.profile) |-> resolved_by_id(i)],
                 shown |-> recipes.shown, adopted |-> local # recipes.local]
  /\ recipes' = [at |-> "done"]
  /\ UNCHANGED <<vault, local, temporary, adopter, tampers, kills, adoptions, kept, overlapped>>

-----------------------------------------------------------------------------
(* A file of the vault that is not being filled is removed or replaced.    *)
tamper ==
  /\ tampers < Tampers /\ tampers' = tampers + 1
  /\ \E i \in Media, c \in Candidates \cup {Missing} :
       /\ vault[i] # c /\ \A a \in Adopters : adopter[a].at = "fill" => adopter[a].id # i
       /\ vault' = [vault EXCEPT ![i] = c]
       /\ kept' = kept \ {i}
       /\ adopter' = [a \in Adopters |-> IF Busy(a) /\ adopter[a].id = i
                                         THEN [adopter[a] EXCEPT !.edited = TRUE] ELSE adopter[a]]
  /\ UNCHANGED <<local, temporary, recipes, written, kills, adoptions, overlapped>>

kill_adopter(a) ==
  /\ kills < Kills /\ kills' = kills + 1 /\ Busy(a)
  /\ turns(a, Free)
  /\ UNCHANGED <<vault, local, temporary, recipes, written, tampers, adoptions, kept, overlapped>>

VaultNext ==
  \/ \E a \in Adopters : adopt(a) \/ copy2(a) \/ read_overrides(a) \/ vanished(a) \/ atomic_json(a)
                         \/ kill_adopter(a)
  \/ verified_profile \/ mastering_recipe \/ tamper
=============================================================================
