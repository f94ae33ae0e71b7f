----------------------------- MODULE MCCheckout -----------------------------
(* Small instances of FlutterCheckout for TLC. *)
EXTENDS FlutterCheckout

OnePrice == [p \in Products |-> 3]

\* nothing of interest happens once the screen was left for the last time
MoreToCome == open \/ opens < MaxOpens

\* kills, failures and orders before the cart is loaded end a behaviour here:
\* they are the subject of the run about orders
OneCalmScreen == MoreToCome /\ mishap = {}

\* what the run about one screen does not ask about: the disk, which only a kill
\* reads, the values on their way there, the repeat list, which another screen reads,
\* and what was ordered or removed
Awaited    == [i \in DOMAIN diskQ |-> <<diskQ[i].key, diskQ[i].live>>]
ScreenView == <<prefs.data, Awaited, ready, pending, screen, catalog, nextId, opens, loaded, rebound, mishap>>

\* Orders are followed over three openings of carts of foods, whose rows never
\* ask anything; questions over one opening, as long as nothing happened that
\* GoneIsNoticed excepts, since that stays true once it is.
NoQuestions     == catalog = Promotions /\ \A i \in DOMAIN prefs.data : prefs.data[i].type = "food"
NothingExcepted == mishap = {} /\ discarded = {} /\ ordered = {}
OrdersOrQuestions == (MoreToCome /\ NoQuestions) \/ (opens < 2 /\ NothingExcepted)
=============================================================================
