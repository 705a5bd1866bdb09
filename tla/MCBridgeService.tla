---------------------------- MODULE MCBridgeService ----------------------------
(* BridgeService for TLC, and with it the supervisor's cycle, of which it  *)
(* sees only the registry: a behaviour is of one of the two, while the     *)
(* other stays in an initial state.  The bounds are in the configuration.  *)
EXTENDS BridgeService, BridgeSupervisor, TLC

CONSTANTS h1, h2, a1, a2, x

VARIABLE part

Mix(first, second, n, rows) ==
    [calls |-> h1 :> first @@ h2 :> second, lines |-> n, blank |-> rows]

(* The instances, each with the calls that meet in it: input against       *)
(* selections and against the list, one read against a selection, paging   *)
(* by one handler on a full and on a short page, the list and /N, a        *)
(* terminal snapshot.  A terminal prints up to MaxPrinted.                 *)
MixesOf == {
    Mix({"prompt", "keys"}, {"selectTarget"}, MaxPrinted, 0),
    Mix({"prompt", "keys"}, {"list"}, MaxPrinted, 0),
    Mix({"content"}, {"selectTarget"}, MaxPrinted - 1, 0),
    Mix({"selectTarget", "content", "pageup"}, {}, MaxPrinted - 1, 0),
    Mix({"selectTarget", "content", "pageup", "pagedown"}, {}, MaxPrinted, 1),
    Mix({"list", "select"}, {}, MaxPrinted, 0),
    Mix({"snapshot"}, {"list"}, MaxPrinted, 0)}

AgentsOf == a1 :> "claude" @@ a2 :> "claude" @@ x :> "codex"

(* The occupants are interchangeable: any of them may be the first.        *)
MCInit ==
    /\ part \in {"service", "prompts", "lists"}
    /\ Init /\ (part # "service" => calls[h1] = {"list", "select"})
    /\ occupant = [p \in Panes |-> CHOOSE o \in Occupants : TRUE]
    /\ SupervisorInit /\ world = [p \in PaneIDs |-> [key |-> a1, status |-> "idle"]]

(* Bound: beside prompts the supervisor sees two changes of a pane in one  *)
(* cycle or one change in two, beside lists one change in one cycle or     *)
(* none in two.                                                            *)
MCNext ==
    /\ UNCHANGED part
    /\ IF part = "service" THEN Next ELSE UNCHANGED vars
    /\ IF part = "service" THEN UNCHANGED supervisorVars
       ELSE /\ SupervisorNext /\ cycles' + changes' <= (IF part = "lists" THEN 2 ELSE 3)
            /\ (answer' # NoAgent => part = "prompts") /\ (listing' # NoAgent => part = "lists")

MCFairSpec ==
    /\ MCInit /\ [][MCNext]_<<part, vars, supervisorVars>>
    /\ Fairness
=============================================================================
