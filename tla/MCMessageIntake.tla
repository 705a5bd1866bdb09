--------------------------- MODULE MCMessageIntake ---------------------------
(* MessageIntake for TLC, and with it parts that share no state with it:   *)
(* the server's start, and the terminal as a chat in place of WeCom.  A    *)
(* behaviour is of one of them, while the others stay in an initial state. *)
(* The other bounds are in the configuration.                              *)
EXTENDS MessageIntake, ServerStartup, InteractiveAdapter

CONSTANTS w1, w2, v1

VARIABLE part

Load(n, again, notices, links) ==
    [messages |-> n, repeats |-> again, pushes |-> notices, sessions |-> links]

(* Messages over two sessions; a repeated message and a full queue; a      *)
(* notification that takes the queue's room.  In a behaviour of another    *)
(* part nothing arrives and nothing is dialled, so that fairness asks      *)
(* nothing of the intake there.                                            *)
NoLoad == Load(0, 0, 0, 0)
LoadsOf == {Load(3, 0, 0, 2), Load(2, 1, 0, 1), Load(2, 0, 1, 1), NoLoad}

MCInit ==
    /\ part \in {"intake", "startup", "adapter"}
    /\ Init /\ (part = "intake" <=> load # NoLoad)
    /\ StartupInit /\ address[v1] = 1 /\ (part # "startup" => address = [s \in Servers |-> 1])
    /\ AdapterInit

MCNext ==
    /\ UNCHANGED part
    /\ IF part = "intake" THEN Next ELSE UNCHANGED vars
    /\ IF part = "startup" THEN StartupNext ELSE UNCHANGED startupVars
    /\ IF part = "adapter" THEN AdapterNext ELSE UNCHANGED adapterVars

MCFairSpec ==
    /\ MCInit /\ [][MCNext]_<<part, vars, startupVars, adapterVars>>
    /\ Fairness /\ AdapterFairness
=============================================================================
