--------------------------- MODULE LookupPromise ---------------------------
(***************************************************************************)
(* What Query.getDocuments promises: each call is answered at most once,   *)
(* with the answer first decided for it -- the server's, the cache's or an *)
(* error -- whatever happens between the decision and the completion.      *)
(***************************************************************************)
CONSTANT Lookups

VARIABLES
  asked,     \* calls made
  decided,   \* the answer decided for each call, or "none"
  answers    \* the answers its completion was called with

Init ==
  /\ asked = {} /\ decided = [l \in Lookups |-> "none"] /\ answers = [l \in Lookups |-> <<>>]

Ask(l) == l \notin asked /\ asked' = asked \cup {l} /\ UNCHANGED <<decided, answers>>

\* one event of the client decides for all the calls it concerns
Decide(S, answer) ==
  /\ S # {} /\ S \subseteq {l \in asked : decided[l] = "none"}
  /\ decided' = [l \in Lookups |-> IF l \in S THEN answer ELSE decided[l]]
  /\ UNCHANGED <<asked, answers>>

Complete(l) ==
  /\ decided[l] # "none" /\ answers[l] = <<>>
  /\ answers' = [answers EXCEPT ![l] = <<decided[l]>>]
  /\ UNCHANGED <<asked, decided>>

Next ==
  \/ \E l \in Lookups : Ask(l) \/ Complete(l)
  \/ \E S \in SUBSET Lookups, answer \in {"server", "cache", "error"} : Decide(S, answer)

Spec == Init /\ [][Next]_<<asked, decided, answers>>
=============================================================================
