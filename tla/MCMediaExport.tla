--------------------------- MODULE MCMediaExport ---------------------------
(* Instances of MediaExport for TLC.                                         *)
EXTENDS MediaExport
=============================================================================
