----------------------------- MODULE MCV2Server -----------------------------
(* An instance of the Voodoo2 server for TLC.                              *)
EXTENDS V2Properties

CONSTANTS c1, c2
=============================================================================
