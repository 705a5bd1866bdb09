----------------------------- MODULE ClientRuntime -----------------------------
(* One run of Pal (app/app.go, app/relay.go, app/dsh.go): the process lock *)
(* of its endpoint, the lease of its short dial path, the loops it starts, *)
(* the stop by the caller or by a loop that ends, and the bounded wait     *)
(* after which lock and lease stay with the loops that still run.          *)
(*                                                                         *)
(* A kind is an entry point: "wecom" and "interactive" (runRuntime),       *)
(* "relay", "pair" (a relay over two backends) and "dsh"                   *)
(* (runRelayComponents).  The runs of a behaviour are of one kind and meet *)
(* at one lock file.  An error is its class: "failed" is a loop's own,     *)
(* "context" that of its cancelled context, "closed" the end of the input. *)
EXTENDS Naturals, Sequences, FiniteSets

CONSTANTS Runs, NoRun

ASSUME RuntimeAssumption == NoRun \notin Runs

VARIABLES
    kind,
    at,       \* of a run: where Run stands
    holder,      \* the run that holds the process lock
    lease,       \* run -> its dialPathLease: "none", "open" or "closed"
    caller,      \* run -> the caller has cancelled its context
    loops,       \* run -> loop -> "off", "running", "ending" (its channel is closed), "ended"
    firstBackend,  \* run -> the error of the backend that ended first
    results,     \* run -> results sent and not yet received
    collected,   \* run -> results received
    cause,       \* run -> shutdownCause
    outcome      \* run -> the classes of the error that Run returns, {} for nil

runtimeVars ==
    <<kind, at, holder, lease, caller, loops, firstBackend, results, collected, cause,
      outcome>>

RunKinds == {"wecom", "interactive", "relay", "pair", "dsh"}
IsRelay == kind \in {"relay", "pair", "dsh"}
HasLease == kind \in {"interactive", "relay", "pair"}

Loops ==
    IF ~IsRelay THEN {"im", "herdr", "messages"}
    ELSE IF kind = "pair" THEN {"relay", "herdr", "dsh"} ELSE {"relay", "herdr"}

(* runBackendPair is one component of two loops.                           *)
Backends == IF kind = "pair" THEN {"herdr", "dsh"} ELSE {}
Components == IF kind = "pair" THEN {"relay", "herdr"} ELSE Loops
Primary(component) == component # "messages"

RuntimeInit ==
    /\ kind \in RunKinds
    /\ at = [r \in Runs |-> "idle"] /\ holder = NoRun
    /\ lease = [r \in Runs |-> "none"]
    /\ caller = [r \in Runs |-> FALSE]
    /\ loops = [r \in Runs |-> [l \in Loops |-> "off"]]
    /\ firstBackend = [r \in Runs |-> "none"]
    /\ results = [r \in Runs |-> <<>>] /\ collected = [r \in Runs |-> <<>>]
    /\ cause = [r \in Runs |-> "none"]
    /\ outcome = [r \in Runs |-> {}]

Move(r, to) == at' = [at EXCEPT ![r] = to]
AddError(r, errors) == outcome' = [outcome EXCEPT ![r] = @ \cup errors]
LoopQuiet == UNCHANGED <<loops, firstBackend, results, collected, cause>>

--------------------------------------------------------------------------
(* Start.  The lock is taken without waiting.                              *)
AcquireLock(r) ==
    /\ at[r] = "idle"
    /\ IF holder = NoRun
       THEN holder' = r /\ Move(r, "locked") /\ UNCHANGED outcome
       ELSE Move(r, "done") /\ AddError(r, {"already running"}) /\ UNCHANGED holder
    /\ LoopQuiet /\ UNCHANGED <<kind, lease, caller>>

(* prepareStableDialPath, and the assembly: each may fail.                 *)
PrepareDialPath(r) ==
    /\ at[r] = "locked"
    /\ \/ lease' = [lease EXCEPT ![r] = IF HasLease THEN "open" ELSE "none"]
          /\ Move(r, "leased") /\ UNCHANGED outcome
       \/ HasLease /\ Move(r, "unlock") /\ AddError(r, {"failed"}) /\ UNCHANGED lease
    /\ LoopQuiet /\ UNCHANGED <<kind, holder, caller>>

Assemble(r) ==
    /\ at[r] = "leased"
    /\ \/ Move(r, "closing") /\ AddError(r, {"failed"}) /\ UNCHANGED loops
       \/ caller[r] /\ ~IsRelay /\ Move(r, "closing") /\ UNCHANGED <<loops, outcome>>
       \/ (IsRelay \/ ~caller[r]) /\ Move(r, "running") /\ UNCHANGED outcome
          /\ loops' = [loops EXCEPT ![r] = [l \in Loops |-> "running"]]
    /\ UNCHANGED <<kind, holder, lease, caller, firstBackend, results, collected, cause>>

CallerCancels(r) ==
    /\ ~caller[r] /\ at[r] \notin {"idle", "done"}
    /\ caller' = [caller EXCEPT ![r] = TRUE]
    /\ LoopQuiet /\ UNCHANGED <<kind, at, holder, lease, outcome>>

--------------------------------------------------------------------------
(* The loops.                                                              *)
Result(name, error) == [name |-> name, error |-> error]
Selecting(r) == at[r] = "running"

(* The context of a component: runRuntime shields all but the messages     *)
(* from the caller, runBackendPair stops one backend when the other ends.  *)
Stopped(r, l) ==
    \/ ~Selecting(r)
    \/ caller[r] /\ (IsRelay \/ l = "messages")
    \/ l \in Backends /\ \E k \in Backends \ {l} : loops[r][k] = "ended"

(* The messages end without an error when the im has closed its channel.   *)
Errors(r, l) ==
    (IF Stopped(r, l) THEN {"context"} ELSE {})
      \cup (IF l # "messages" THEN {"failed", "none"}
            ELSE IF loops[r]["im"] # "running" /\ kind = "wecom" THEN {"none"} ELSE {})
      \cup (IF l = "im" /\ kind = "interactive" THEN {"closed"} ELSE {})

ImCloses(r) ==
    /\ kind = "wecom" /\ loops[r]["im"] = "running"
    /\ loops' = [loops EXCEPT ![r]["im"] = "ending"]
    /\ UNCHANGED <<kind, at, holder, lease, caller, firstBackend, results, collected, cause,
                   outcome>>

(* A backend that ends stops its sibling and is reported when that has     *)
(* ended too; the sibling's own error is dropped.  Once Run has returned,  *)
(* collectRemainingComponents takes each result at once.                   *)
Last(r, l) == l \in Backends => \A k \in Backends : k = l \/ loops[r][k] = "ended"

LoopEnds(r, l) ==
    /\ loops[r][l] = (IF kind = "wecom" /\ l = "im" THEN "ending" ELSE "running")
    /\ loops' = [loops EXCEPT ![r][l] = "ended"]
    /\ \E error \in Errors(r, l) :
           /\ firstBackend' = IF ~Last(r, l)
                              THEN [firstBackend EXCEPT ![r] = error] ELSE firstBackend
           /\ results' = IF at[r] = "done" \/ ~Last(r, l) THEN results
                         ELSE [results EXCEPT ![r] = Append(@,
                                 IF l \in Backends THEN Result("herdr", firstBackend[r])
                                 ELSE Result(l, error))]
    /\ UNCHANGED <<kind, at, holder, lease, caller, collected, cause, outcome>>

--------------------------------------------------------------------------
(* The stop.  The selects of Run choose among what is ready.               *)
Derived(result) == result.error = "context"

(* Mutant: whatever ends the interactive input is its normal end.          *)
CauseOfAnyEnd(r, result) ==
    IF Derived(result) /\ caller[r] THEN "parent"
    ELSE IF kind = "interactive" /\ result.name = "im" THEN "normal im"
    ELSE "component"

CauseOf(r, result) ==
    IF Derived(result) /\ caller[r] THEN "parent"
    ELSE IF kind = "interactive" /\ result.name = "im" /\ result.error = "closed" THEN "normal im"
    ELSE "component"

SelectCaller(r) ==
    /\ Selecting(r) /\ ~IsRelay /\ caller[r]
    /\ cause' = [cause EXCEPT ![r] = "parent"] /\ Move(r, "stopping")
    /\ UNCHANGED <<kind, holder, lease, caller, loops, results, firstBackend, collected, outcome>>

Receive(r) ==
    /\ results[r] # <<>>
    /\ results' = [results EXCEPT ![r] = Tail(@)]
    /\ collected' = [collected EXCEPT ![r] = Append(@, Head(results[r]))]

SelectResult(r) ==
    /\ Selecting(r) /\ Receive(r) /\ Move(r, "stopping")
    /\ cause' = [cause EXCEPT ![r] = CauseOf(r, Head(results[r]))]
    /\ UNCHANGED <<kind, holder, lease, caller, loops, firstBackend, outcome>>

Collect(r) ==
    /\ at[r] = "stopping" /\ Receive(r)
    /\ UNCHANGED <<kind, at, holder, lease, caller, loops, firstBackend, cause, outcome>>

Failures(r) == {i \in DOMAIN collected[r] : collected[r][i].error \notin {"none", "context"}}
PrimaryFailures(r) == {i \in Failures(r) : Primary(collected[r][i].name)}

(* runtimeRootError, runtimeRootErrorAfterNormalIM.                        *)
RuntimeRootError(r) ==
    IF cause[r] = "parent" THEN {}
    ELSE IF cause[r] = "normal im"
    THEN IF \E i \in Failures(r) : collected[r][i].name # "im" THEN {"failed"} ELSE {}
    ELSE IF PrimaryFailures(r) = {} THEN {"stopped"}
    ELSE {collected[r][i].error : i \in PrimaryFailures(r)}

(* relayComponentRootError of the first result.                            *)
RelayRootError(r) ==
    IF Derived(collected[r][1]) THEN {}
    ELSE {IF collected[r][1].error = "none" THEN "stopped" ELSE collected[r][1].error}

RootError(r) == IF IsRelay THEN RelayRootError(r) ELSE RuntimeRootError(r)

AllCollected(r) == Len(collected[r]) = Cardinality(Components)

Finish(r) ==
    /\ at[r] = "stopping" /\ AllCollected(r)
    /\ AddError(r, IF IsRelay /\ caller[r] THEN {"canceled"} ELSE RootError(r))
    /\ Move(r, "closing")
    /\ LoopQuiet /\ UNCHANGED <<kind, holder, lease, caller>>

ShutdownTimeout(r) ==
    /\ at[r] = "stopping" /\ (IsRelay \/ ~AllCollected(r))
    /\ AddError(r, RootError(r) \cup {"timeout"})
    /\ Move(r, "closing")
    /\ LoopQuiet /\ UNCHANGED <<kind, holder, lease, caller>>

--------------------------------------------------------------------------
(* The deferred calls of Run, with which its variables end.                *)
TimedOut(r) == "timeout" \in outcome[r]

(* Mutant: lock and lease are given up whether or not loops remain.        *)
NeverRetained(r) == FALSE
Retained(r) == TimedOut(r)

(* A failed removal is reported and not repeated.                          *)
Close(r) == lease' = [lease EXCEPT ![r] = IF @ = "open" THEN "closed" ELSE @]

FinishDialPathLease(r) ==
    /\ at[r] = "closing" /\ Move(r, "unlock")
    /\ IF Retained(r) THEN UNCHANGED <<lease, outcome>>
       ELSE /\ Close(r)
            /\ \/ UNCHANGED outcome
               \/ lease[r] = "open" /\ AddError(r, {"cleanup"})
    /\ LoopQuiet /\ UNCHANGED <<kind, holder, caller>>

FinishProcessLock(r) ==
    /\ at[r] = "unlock" /\ Move(r, "done")
    /\ \/ Retained(r) /\ UNCHANGED <<holder, outcome>>
       \/ ~Retained(r) /\ holder' = NoRun /\ UNCHANGED outcome
       \/ ~Retained(r) /\ UNCHANGED holder /\ AddError(r, {"release"})
    /\ results' = [results EXCEPT ![r] = <<>>] /\ collected' = [collected EXCEPT ![r] = <<>>]
    /\ cause' = [cause EXCEPT ![r] = "none"]
    /\ UNCHANGED <<kind, lease, caller, loops, firstBackend>>

(* The goroutines that took lock and lease over.                           *)
ComponentsDone(r) == at[r] = "done" /\ TimedOut(r) /\ \A l \in Loops : loops[r][l] = "ended"

CloseRetainedLease(r) ==
    /\ ComponentsDone(r) /\ lease[r] = "open" /\ Close(r)
    /\ LoopQuiet /\ UNCHANGED <<kind, at, holder, caller, outcome>>

ReleaseRetainedLock(r) ==
    /\ ComponentsDone(r) /\ holder = r /\ holder' = NoRun
    /\ LoopQuiet /\ UNCHANGED <<kind, at, lease, caller, outcome>>

RuntimeNext ==
    \E r \in Runs :
        \/ AcquireLock(r) \/ PrepareDialPath(r) \/ Assemble(r) \/ CallerCancels(r)
        \/ ImCloses(r) \/ \E l \in Loops : LoopEnds(r, l)
        \/ SelectCaller(r) \/ SelectResult(r) \/ Collect(r) \/ Finish(r) \/ ShutdownTimeout(r)
        \/ FinishDialPathLease(r) \/ FinishProcessLock(r)
        \/ CloseRetainedLease(r) \/ ReleaseRetainedLock(r)

RuntimeSpec == RuntimeInit /\ [][RuntimeNext]_runtimeVars

--------------------------------------------------------------------------
(* While a loop of a run still runs, even after Run returned at its        *)
(* timeout, the run has the lock and its dial path resolves: no second run *)
(* meets the first one's loops (finishProcessLock, finishDialPathLease).   *)
HeldWhileRunning ==
    \A r \in Runs : (\E l \in Loops : loops[r][l] \in {"running", "ending"})
        => holder = r /\ (HasLease => lease[r] = "open")

InputEnded(r) == kind = "interactive" /\ Head(collected[r]) = Result("im", "closed")

Explained(r) ==
    at[r] \in {"closing", "unlock"} /\ cause[r] # "none" /\ ~caller[r] =>
        /\ InputEnded(r) \/ outcome[r] \cap {"failed", "closed", "stopped"} # {}
        /\ ~IsRelay /\ (\E i \in PrimaryFailures(r) : collected[r][i].error = "failed")
             => "failed" \in outcome[r]

(* Unless its caller cancelled it or the input ended, the error that Run   *)
(* returns names a loop that ended, and a loop's own failure that was      *)
(* collected in time is in it also when a loop that merely followed was    *)
(* selected first (runRuntime, runRelayComponents, runtimeRootError).      *)
StopExplained == \A r \in Runs : Explained(r)

(* Runs do not overlap, and each ends with the reason it ended for.         *)
RunsContained == HeldWhileRunning /\ StopExplained
=============================================================================
