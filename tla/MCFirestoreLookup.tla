------------------------- MODULE MCFirestoreLookup -------------------------
(* Two calls of one query, as two rows or screens that look for one        *)
(* promotion make them.                                                    *)
EXTENDS FirestoreLookup, TLC

CONSTANTS l1, l2, title

TwoLookups == {l1, l2}
OneQuery   == l1 :> title @@ l2 :> title
=============================================================================
