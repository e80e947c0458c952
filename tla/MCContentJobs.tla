--------------------------- MODULE MCContentJobs ---------------------------
(* An instance of ContentJobs for TLC: its constants are numbers, which the  *)
(* configurations give.                                                      *)
EXTENDS ContentJobs
=============================================================================
