---------------------------- MODULE ServerRuntime ----------------------------
(* One run of the server (serverapp/app.go): its components, their result, *)
(* the stop by its context or by an administrator, and the bounded         *)
(* shutdown.  An administrator's stop is reserved, answered, and then      *)
(* committed or rolled back (adminservice.StopAction), by the admin socket *)
(* (adminserver/server.go, runtime_handler.go) or the web console          *)
(* (webadmin stopServer).                                                  *)
EXTENDS Naturals, FiniteSets

CONSTANTS
    Stops,           \* requests to stop, each sent once
    NoComponent

VARIABLES
    parentDone,      \* the context of Run
    stopping,        \* adminservice.Service.stopping
    stopRequested,   \* the channel is closed
    stops,           \* request -> where it stands, and over which adapter it came
    components,      \* component -> "running", "draining" (admin: no more Accept) or "ended"
    earliest,        \* the component whose result was sent first
    runner,          \* where runServerComponents stands
    normalStop,
    blamed,          \* first.component, once a result was selected
    returned         \* what Run returned

serverVars ==
    <<parentDone, stopping, stopRequested, stops, components, earliest, runner, normalStop, blamed,
      returned>>

ComponentNames == {"wecom_connection", "wecom_event_loop", "relay_http", "admin", "web_admin"}
Unsent == [step |-> "unsent", by |-> "none"]

ServerInit ==
    /\ parentDone = FALSE /\ stopping = FALSE /\ stopRequested = FALSE
    /\ stops = [s \in Stops |-> Unsent]
    /\ components = [c \in ComponentNames |-> "running"] /\ earliest = NoComponent
    /\ runner = "select" /\ normalStop = FALSE /\ blamed = NoComponent /\ returned = "none"

StopParts == <<stopping, stopRequested, stops>>
RunnerParts == <<runner, normalStop, blamed, returned>>
ComponentParts == <<components, earliest>>

Cancelled == runner \in {"drain", "returned"}
Is(s, step) == stops[s].step = step
OpenStop(s, by) == stops[s] = [step |-> "reserved", by |-> by]

--------------------------------------------------------------------------
(* PrepareStop.  An open socket connection may ask until it is cancelled.  *)
Accepts(by) ==
    IF by = "socket" THEN components["admin"] # "ended" /\ ~Cancelled
    ELSE components["web_admin"] = "running" /\ runner \in {"select", "web"}

Reserve(s, by) ==
    /\ Is(s, "unsent") /\ Accepts(by)
    /\ stopping' = TRUE
    /\ stops' = [stops EXCEPT ![s] = [step |-> IF stopping THEN "busy" ELSE "reserved", by |-> by]]
    /\ UNCHANGED <<parentDone, stopRequested>> /\ UNCHANGED RunnerParts /\ UNCHANGED ComponentParts

(* writeResponse, writeAPIData.  Cancelling closes the socket connections. *)
Answer(s) ==
    /\ Is(s, "reserved") /\ (stops[s].by = "socket" => ~Cancelled)
    /\ stops' = [stops EXCEPT ![s].step = "answered"]
    /\ UNCHANGED <<parentDone, stopping, stopRequested>>
    /\ UNCHANGED RunnerParts /\ UNCHANGED ComponentParts

AnswerFailures(s) == IF stops[s].by = "socket" THEN {"write failed", "fallback"} ELSE {"write failed"}

(* Mutant: only a failed write gives the reservation back.                 *)
ReleasedByWrite(failure) == failure = "write failed"

Released(failure) == TRUE

(* The write fails, or the socket answers with an internal error instead.  *)
AnswerFails(s) ==
    /\ Is(s, "reserved")
    /\ \E failure \in AnswerFailures(s) :
           stopping' = IF Released(failure) THEN FALSE ELSE stopping
    /\ stops' = [stops EXCEPT ![s].step = "failed"]
    /\ UNCHANGED <<parentDone, stopRequested>> /\ UNCHANGED RunnerParts /\ UNCHANGED ComponentParts

(* AfterWrite runs in a goroutine of its own, the console's in its handler.*)
Commit(s) ==
    /\ Is(s, "answered")
    /\ stops' = [stops EXCEPT ![s].step = "committed"] /\ stopRequested' = TRUE
    /\ UNCHANGED <<parentDone, stopping>> /\ UNCHANGED RunnerParts /\ UNCHANGED ComponentParts

ParentDone ==
    /\ ~parentDone /\ parentDone' = TRUE
    /\ UNCHANGED StopParts /\ UNCHANGED RunnerParts /\ UNCHANGED ComponentParts

--------------------------------------------------------------------------
(* The components.  Serve of the admin socket waits for its connections.   *)
AdminStopsAccepting ==
    /\ components["admin"] = "running"
    /\ components' = [components EXCEPT !["admin"] = "draining"]
    /\ UNCHANGED <<parentDone, earliest>> /\ UNCHANGED RunnerParts /\ UNCHANGED StopParts

ComponentEnds(c) ==
    /\ components[c] = IF c = "admin" THEN "draining" ELSE "running"
    /\ c = "admin" => \A s \in Stops : ~OpenStop(s, "socket")
    /\ components' = [components EXCEPT ![c] = "ended"]
    /\ earliest' = IF earliest = NoComponent THEN c ELSE earliest
    /\ UNCHANGED parentDone /\ UNCHANGED RunnerParts /\ UNCHANGED StopParts

--------------------------------------------------------------------------
(* runServerComponents.                                                    *)
SelectStop ==
    /\ runner = "select" /\ (parentDone \/ stopRequested)
    /\ normalStop' = TRUE /\ runner' = "web"
    /\ UNCHANGED <<parentDone, blamed, returned>> /\ UNCHANGED ComponentParts
    /\ UNCHANGED StopParts

(* Mutant: only the context is looked at again.                            *)
AskedOfContext == parentDone

Asked == parentDone \/ stopRequested

SelectComponent ==
    /\ runner = "select" /\ earliest # NoComponent
    /\ blamed' = earliest /\ normalStop' = Asked /\ runner' = "web"
    /\ UNCHANGED <<parentDone, returned>> /\ UNCHANGED ComponentParts /\ UNCHANGED StopParts

(* shutdown: it closes the admin listener, lets the console's handlers end *)
(* within a time of their own, and then the relay and its connections;     *)
(* each has a bound.  Serve of a console or relay that is shut down ends.  *)
ShutdownWeb ==
    /\ runner = "web" /\ runner' = "relay"
    /\ UNCHANGED <<parentDone, normalStop, blamed, returned>> /\ UNCHANGED ComponentParts
    /\ UNCHANGED StopParts

ShutdownRelay ==
    /\ runner = "relay" /\ runner' = "drain"
    /\ UNCHANGED <<parentDone, normalStop, blamed, returned>> /\ UNCHANGED ComponentParts
    /\ UNCHANGED StopParts

AllEnded == \A c \in ComponentNames : components[c] = "ended"

Return ==
    /\ runner = "drain" /\ runner' = "returned"
    /\ \/ AllEnded
          /\ returned' = CASE normalStop /\ parentDone -> "context"
                           [] normalStop /\ ~parentDone -> "nil"
                           [] OTHER -> "component"
       \/ ~AllEnded /\ returned' = "timeout"
    /\ UNCHANGED <<parentDone, normalStop, blamed>> /\ UNCHANGED ComponentParts
    /\ UNCHANGED StopParts

ServerNext ==
    \/ \E s \in Stops : \/ \E by \in {"socket", "web"} : Reserve(s, by)
                        \/ Answer(s) \/ AnswerFails(s) \/ Commit(s)
    \/ ParentDone \/ AdminStopsAccepting \/ \E c \in ComponentNames : ComponentEnds(c)
    \/ SelectStop \/ SelectComponent \/ ShutdownWeb \/ ShutdownRelay \/ Return

ServerSpec == ServerInit /\ [][ServerNext]_serverVars

--------------------------------------------------------------------------
(* Of the administrators who ask for a stop at most one is told that the   *)
(* server stops, the stop is requested only after that answer was written, *)
(* and a reservation is never left behind by a request that was not        *)
(* answered (PrepareStop, Commit, Rollback, serveConnection, stopServer).  *)
StopReserved ==
    LET told == {s \in Stops : stops[s].step \in {"answered", "committed"}}
    IN  /\ Cardinality(told) <= 1
        /\ stopRequested => told # {}
        /\ stopping => told # {} \/ \E s \in Stops : Is(s, "reserved")

(* Run blames a component only if that ended before a stop was asked for,  *)
(* and answers nil only after an administrator's stop (runServerComponents).*)
RunExplained ==
    [][/\ blamed' # blamed /\ (parentDone \/ stopRequested) => normalStop'
       /\ returned' = "nil" => stopRequested
       /\ returned' # returned /\ returned' = "component" =>
             components[blamed] = "ended" /\ ~normalStop]_serverVars

(* A stop is promised once and kept, and the end of Run tells its reason.   *)
StopKept == []StopReserved /\ RunExplained
==============================================================================
