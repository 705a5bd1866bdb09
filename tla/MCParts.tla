------------------------------- MODULE MCParts -------------------------------
(* ConversationRouter for TLC, and with it parts that share no state with  *)
(* it or with each other: a behaviour is of one part, while the others     *)
(* stay in an initial state.  The bounds are in the configuration.         *)
EXTENDS ConversationRouter, UserRateLimiter, AsyncAuditor, ClientRuntime,
        LoginGuard, AdminConsole, ServerRuntime, DshBackend, StoreFile,
        ReconnectDelay, PageSplit, TerminalDelivery, TLC

CONSTANTS r1, r2, t1, t2, root, second, third, l1, l2, n1, n2, w1, w2

VARIABLE part

CommandsOf == {{"list", "select", "text"}, {"list", "directed", "switch"},
               {"list", "mode", "directedMode", "switchMode"},
               {"list", "switch", "status", "output"}}
LimitsOf == [second : {0, 1, 2}, minute : {0, 2, 3}]

(* Three administrators, two of them, or a new file.                       *)
FilesOf ==
    {[a \in AdminNames |-> "set"], [a \in AdminNames |-> IF a = third THEN "absent" ELSE "set"],
     [a \in AdminNames |-> IF a = root THEN "initial" ELSE "absent"]}
OffersOf == {{"session", "password"}, {"create", "list", "password"}, {"reset", "logout"}, {"delete"}}

(* A maximum that doubling does not meet, one that is the minimum, and     *)
(* widths nearly full.                                                     *)
DelayBoundsOf ==
    {[least |-> 1, most |-> 30], [least |-> 2, most |-> 2],
     [least |-> 3, most |-> 100], [least |-> 1, most |-> 127]}

(* Every text of four characters, and lines long enough for numbers of     *)
(* parts with one, two, three and four digits.                             *)
TextsOf ==
    UNION {[1..n -> {"narrow", "wide", "newline"}] : n \in 0..4}
        \cup {[i \in 1..n |-> "narrow"] : n \in 5..10}

(* An image of one chunk and a part of the next.                           *)
ImageSizesOf == {3}
Presentations == {"text", "image"}

MCInit ==
    /\ part \in {"router", "limiter", "auditor", "client", "guard", "console", "server",
               "directory", "prompts", "file", "delays", "split",
               "delivery"}
    /\ RouterInit /\ (part # "router" => commands = {"list", "select", "text"})
    /\ LimiterInit /\ (part # "limiter" => limits = [second |-> 0, minute |-> 0])
    /\ AuditInit
    /\ RuntimeInit /\ (part # "client" => kind = "dsh")
    /\ GuardInit /\ (part # "guard" => capacity = 1)
    /\ ConsoleInit /\ (part # "console" => offer = {"delete"})
    /\ admins[second] = "set" <=> "password" \notin offer
    /\ admins[third] = "set" <=> "delete" \in offer
    /\ StoreInit /\ (part # "file" => keeps = "requests")
    /\ DelayInit
    /\ (part # "delays" => loop = "relay" /\ bounds = [least |-> 2, most |-> 2])
    /\ SplitInit
    /\ part # "split" => text = <<"narrow">> /\ wrapping = Plain /\ most = 1
    /\ DeliveryInit /\ ServerInit /\ DshInit /\ (known = Nobody <=> part = "directory")

(* Bounds: the console's time passes where sessions are asked for.  A dsh  *)
(* session is seen by the directory alone, or given commands while it      *)
(* stays listed, its text the same, its last agent loaded and at rest      *)
(* until a prompt is given, and no notice fails.  Runs, stops, logins,     *)
(* user names and sources are alike: the first of each goes first.  A      *)
(* second run meets one with an input or one of dsh.  What Herdr is told   *)
(* is a read, and terminals made after a session was replaced are texts.   *)
MCNext ==
    /\ UNCHANGED part
    /\ IF part = "router" THEN RouterNext ELSE UNCHANGED routerVars
    /\ IF part = "limiter" THEN LimiterNext ELSE UNCHANGED limiterVars
    /\ IF part = "auditor" THEN AuditNext ELSE UNCHANGED auditVars
    /\ IF part = "client"
       THEN RuntimeNext /\ (at'[r2] # "idle" => at'[r1] # "idle" /\ kind \in {"interactive", "dsh"})
       ELSE UNCHANGED runtimeVars
    /\ IF part = "guard"
       THEN /\ GuardNext
            /\ logins[l1] = NoAttempt => logins'[l2] \in {NoAttempt, logins[l2]}
            /\ begun = 0 => n2 \notin DOMAIN names'
            /\ begun = 0 => w2 \notin DOMAIN sources'
       ELSE UNCHANGED guardVars
    /\ IF part = "console" THEN ConsoleNext /\ (now' # now => "session" \in offer)
       ELSE UNCHANGED consoleVars
    /\ IF part = "server" THEN ServerNext /\ (stops'[t1] = Unsent => stops'[t2] = Unsent)
       ELSE UNCHANGED serverVars
    /\ IF part \in {"directory", "prompts"}
       THEN DshNext /\ IF part = "directory" THEN given' = 0
                       ELSE /\ revision' = 1 /\ listed' /\ (working' => followups' # {}) /\ missed' = Nobody
                            /\ lastAgent = MaxAgents => agent' = agent
                            /\ command'.at = "owned" /\ command'.target = 0 => command'.op = "read"
       ELSE UNCHANGED dshVars
    /\ IF part = "file" THEN StoreNext ELSE UNCHANGED storeVars
    /\ IF part = "delays" THEN DelayNext ELSE UNCHANGED delayVars
    /\ IF part = "split" THEN SplitMarkdown ELSE UNCHANGED splitVars
    /\ IF part = "delivery"
       THEN /\ DeliveryNext
            /\ real = 2 /\ job'.content # job.content /\ job'.content # None => job'.content.mode = "text"
       ELSE UNCHANGED deliveryVars

MCSpec ==
    MCInit /\ [][MCNext]_<<part, routerVars, limiterVars, auditVars, runtimeVars,
                          guardVars, consoleVars, serverVars, dshVars, storeVars,
                          delayVars, splitVars, deliveryVars>>
=============================================================================
