---------------------------- MODULE MCRateLimit ----------------------------
(***************************************************************************)
(* Instances of RateLimit: few addresses, because the keys of a window do  *)
(* not meet except in its sweep, which two of them reach.                  *)
(***************************************************************************)
EXTENDS RateLimit, TLC

CONSTANTS demo, alice, x, y

\* The addresses are alike: no action tells them apart.
Alike == Permutations(LoginFrom) \cup Permutations(CommandFrom)
=============================================================================
