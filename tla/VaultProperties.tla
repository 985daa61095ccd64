--------------------------- MODULE VaultProperties ---------------------------
(***************************************************************************)
(* What the vault's records and the recipes promise of its files.          *)
(***************************************************************************)
EXTENDS MediaVault

VaultSpec == VaultInit /\ [][VaultNext]_vaultVars

(* As long as no two adoptions run at once: what was adopted and not       *)
(* edited since verifies, whatever was adopted or killed after it, and a   *)
(* copy that broke off never does (media adopt, media inventory).          *)
AdoptedVerifies ==
  ~overlapped =>
    /\ \A i \in kept : verify(i) = "ok"
    /\ \A i \in Media : verify(i) = "ok" => vault[i] # "partial"

(* A recipe names the digests of files that were all there and right when  *)
(* they were compared, unless something was adopted before it was written  *)
(* (image recipe: verified_profile, then mastering_recipe).                *)
RecipeWasCompared ==
  written # Missing /\ ~written.adopted =>
    \A i \in DOMAIN written.inputs : written.inputs[i] = written.shown[i] /\ written.shown[i] # Missing

(* Both of them: what adopting recorded is what the vault holds, and what  *)
(* a recipe records is what the vault held (adopt, verify, image recipe).  *)
VaultIsHonest == AdoptedVerifies /\ RecipeWasCompared
=============================================================================
