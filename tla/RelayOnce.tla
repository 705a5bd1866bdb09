------------------------------ MODULE RelayOnce ------------------------------
(***************************************************************************)
(* What the command exchange promises, with links, tables and caches left  *)
(* out: a message is handled at most once, for one target, and every call  *)
(* that names it is told the outcome of that one handling, or is refused   *)
(* and told nothing about it.                                              *)
(***************************************************************************)
CONSTANTS
    Messages,       \* idempotency keys: WeCom message identifiers
    Sessions,       \* occupants of the pane a command can name
    Calls,          \* calls of ClientHub.Execute
    NotRun,         \* the message has not been handled
    NoAnswer        \* the call has learnt nothing of a handling

VARIABLES
    ran,            \* message -> its one handling, or NotRun
    answer          \* call -> the outcome it was told, or NoAnswer

vars == <<ran, answer>>

Run(t, o) == [target |-> t, outcome |-> o]
Answer(m, t, o) == [message |-> m, target |-> t, outcome |-> o]

Init ==
    /\ ran = [m \in Messages |-> NotRun]
    /\ answer = [c \in Calls |-> NoAnswer]

(* The Pal starts to handle the message. *)
Start(m, t) ==
    /\ ran[m] = NotRun
    /\ ran' = [ran EXCEPT ![m] = Run(t, "running")]
    /\ UNCHANGED answer

(* The handling has its outcome, for good. *)
Finish(m, o) ==
    /\ \E t \in Sessions :
           /\ ran[m] = Run(t, "running")
           /\ ran' = [ran EXCEPT ![m] = Run(t, o)]
    /\ UNCHANGED answer

(* A call is told the outcome of the handling for its own target. *)
Tell(c, m, t, o) ==
    /\ answer[c] = NoAnswer
    /\ ran[m] = Run(t, o)
    /\ answer' = [answer EXCEPT ![c] = Answer(m, t, o)]
    /\ UNCHANGED ran

Next ==
    \/ \E m \in Messages, t \in Sessions : Start(m, t)
    \/ \E m \in Messages, o \in {"ok", "failed"} : Finish(m, o)
    \/ \E c \in Calls, m \in Messages, t \in Sessions, o \in {"ok", "failed"} :
           Tell(c, m, t, o)

Spec == Init /\ [][Next]_vars
=============================================================================
