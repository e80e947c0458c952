--------------------------- MODULE MCReviewWriter ---------------------------
(* ReviewWriter for TLC: which photo is which makes no difference.            *)
EXTENDS ReviewWriter, TLC

PhotoSymmetry == Permutations(Photo)

=============================================================================
