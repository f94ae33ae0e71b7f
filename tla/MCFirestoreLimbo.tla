--------------------------- MODULE MCFirestoreLimbo ---------------------------
(* Two queries that two documents answer, and one place for resolutions.  And *)
(* two that four documents answer, one of them both, with two places.         *)
EXTENDS FirestoreLimbo, TLC

CONSTANTS k1, k2, k3, k4, listing, search

TwoDocs == {k1, k2}
FourDocs == {k1, k2, k3, k4}
ListAndSearch == {listing, search}
BothAnswer == listing :> {k1, k2} @@ search :> {k1, k2}
OneAnswersBoth == listing :> {k1, k2, k3} @@ search :> {k3, k4}
=============================================================================
