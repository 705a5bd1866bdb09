------------------------ MODULE MCMachineRegistration ------------------------
(* MachineRegistration for TLC; the bounds are in the configurations. *)
EXTENDS MachineRegistration, TLC

Interchangeable ==
    Permutations(Machines) \cup Permutations(Requests) \cup Permutations(Calls)
=============================================================================
