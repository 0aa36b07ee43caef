---------------------------- MODULE MCSessions ----------------------------
(* Small instances of the sessions for TLC. *)
EXTENDS Sessions

\* Requests and tokens are alike: no action and no safety property of the runs
\* that use this tells one from another.
Alike == Permutations(Requests) \cup Permutations(Tokens)
===========================================================================
