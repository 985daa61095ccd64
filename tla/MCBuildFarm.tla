---------------------------- MODULE MCBuildFarm ----------------------------
(* Instances of the build farm for TLC.                                    *)
EXTENDS FarmProperties, TLC

CONSTANTS w1, w2, snap, other, hello, world

(* Two projects under one ID; the second specification is rejected at its  *)
(* second architecture.                                                    *)
MixedSpecs == {[name |-> snap, project |-> hello, archs |-> <<"i386">>],
               [name |-> snap, project |-> world, archs |-> <<"i386", "ppc">>]}

(* Two slices of one snapshot and one of another, of one project.          *)
TwoSpecs == {[name |-> snap, project |-> hello, archs |-> <<"i386", "m68k">>],
             [name |-> other, project |-> hello, archs |-> <<"i386">>]}

WorkerSymmetry == Permutations({w1, w2})
=============================================================================
