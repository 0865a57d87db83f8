-------------------------- MODULE MCGraveyardTable --------------------------
(***************************************************************************)
(* GraveyardTable for TLC: two keys whose hashes share H2 3, with          *)
(* kSlotsPerBin scaled down to 2 so that a bin fills after two inserts.    *)
(***************************************************************************)
EXTENDS GraveyardTable

CONSTANTS k1, k2

MCHash == [k \in {k1, k2} |-> IF k = k1 THEN 3 ELSE 130]
=============================================================================
