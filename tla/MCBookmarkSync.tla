--------------------------- MODULE MCBookmarkSync ---------------------------
(***************************************************************************)
(* Two profiles of one phone, for TLC: b1 is minted in the first, b2 in    *)
(* the second.                                                             *)
(***************************************************************************)
EXTENDS BookmarkSync, TLC

CONSTANTS p1, p2, b1, b2

OwnerById == [b \in BookmarkIds |-> IF b = b1 THEN p1 ELSE p2]
=============================================================================
