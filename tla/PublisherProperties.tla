------------------------- MODULE PublisherProperties -------------------------
(***************************************************************************)
(* What the commands that make a directory promise of it.                  *)
(***************************************************************************)
EXTENDS Publishers

PublisherSpec == PublisherInit /\ [][PublisherNext]_publisherVars

(* Whatever fails, is killed or runs beside it: a directory appears under  *)
(* its name complete and in one step, and no command touches it again      *)
(* (build_package, prepare_reference, prepare_dr2_reference,               *)
(* stage_rhapsody_driver: the temporary directory and the rename).         *)
PublishedOnce ==
  [][\A o \in OutputNames : made'[o] # made[o] =>
       /\ made[o] = Nothing
       /\ \E m \in Makers :
            /\ maker[m].pc = "describe" /\ maker[m].task.output = o
            /\ DOMAIN made'[o].files = IF maker[m].task.op = "package" THEN DOMAIN maker[m].checked
                                       ELSE ItemsOf(maker[m].task)]_publisherVars

(* If nobody edited the sources while the command ran, the directory holds *)
(* what was checked: a package the reviewed payload, in its archive and in *)
(* its bill of materials; a reference files of the source its manifest     *)
(* names; a driver two products for the i386.                              *)
PublishedAsChecked ==
  \A o \in OutputNames :
    LET d == made[o]
    IN d # Nothing /\ ~d.edited =>
         CASE d.op = "package" ->
                /\ d.files = d.recipe
                /\ d.bom = [i \in Material(d.recipe) |-> d.recipe[i]]
           [] d.op = "driver" -> \A i \in {"kernel", "server"} : d.files[i].arch = "i386"
           [] OTHER -> \A i \in DOMAIN d.files : d.files[i] = d.source /\ i \in d.source.data
=============================================================================
