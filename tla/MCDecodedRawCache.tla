------------------------- MODULE MCDecodedRawCache -------------------------
(* An instance of DecodedRawCache for TLC. *)
EXTENDS DecodedRawCache

CONSTANTS open, ahead, raw

OneLoader == {open}
OnePrefetcher == {ahead}
OneFile == {raw}
=============================================================================
