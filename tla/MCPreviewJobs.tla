--------------------------- MODULE MCPreviewJobs ---------------------------
(* An instance of PreviewJobs for TLC.                                        *)
EXTENDS PreviewJobs

MCEditStages == {Raw, Output}
MCFaults == {"stage", "build", "worker", "load"}

=============================================================================
