----------------------------- MODULE MCRelayLink -----------------------------
(* RelayLink for TLC: the bounds are in the configurations.  Messages and   *)
(* sessions are interchangeable, which the safety run uses.                 *)
EXTENDS RelayLink, TLC

Interchangeable == Permutations(Messages) \cup Permutations(Sessions)
=============================================================================
