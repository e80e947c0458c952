-------------------------- MODULE MCThumbnailPool --------------------------
(* Instances of ThumbnailPool for TLC.                                        *)
EXTENDS ThumbnailPool

CONSTANTS a, w1, w2
=============================================================================
