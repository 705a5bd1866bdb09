------------------------ MODULE MCConnectionLifecycle ------------------------
(* ConnectionLifecycle for TLC; the bounds are in the configurations. *)
EXTENDS ConnectionLifecycle
=============================================================================
