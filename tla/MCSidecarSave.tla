--------------------------- MODULE MCSidecarSave ---------------------------
(* Instances of SidecarSave for TLC. *)
EXTENDS SidecarSave

CONSTANTS a, b

OnePhoto == {a}
TwoPhotos == {a, b}
Symmetry == Permutations(TwoPhotos)
=============================================================================
