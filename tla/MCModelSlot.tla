---------------------------- MODULE MCModelSlot ----------------------------
(* An instance of ModelSlot for TLC.                                          *)
EXTENDS ModelSlot

CONSTANTS m, j1, j2
=============================================================================
