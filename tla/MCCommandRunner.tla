-------------------------- MODULE MCCommandRunner --------------------------
(* Instances of the command runner for TLC.                                *)
EXTENDS RunnerProperties
=============================================================================
