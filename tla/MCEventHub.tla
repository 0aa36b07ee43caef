----------------------------- MODULE MCEventHub -----------------------------
(* Small instances of EventHub for TLC. *)
EXTENDS EventHub, TLC

CONSTANTS x1, x2, x3, c1, c2, c3

MCChanges2 == {x1, x2}
MCChanges3 == {x1, x2, x3}
MCClients2 == {c1, c2}
MCClients3 == {c1, c2, c3}

\* Changes and clients are interchangeable; used by the safety runs only.
Symmetry2 == Permutations(MCChanges2) \cup Permutations(MCClients3)
Symmetry3 == Permutations(MCChanges3) \cup Permutations(MCClients2)
=============================================================================
