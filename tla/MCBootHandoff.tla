--------------------------- MODULE MCBootHandoff ---------------------------
(* Instances of the boot handoff for TLC, with the addresses of the source *)
(* and sizes that fill the table area and the link area.                   *)
EXTENDS BootProperties

MCDrivers == <<"EIDE", "PS2Keyboard", "PCI", "PPP+">>
MCKeyDeltas == {-7, 12}
=============================================================================
