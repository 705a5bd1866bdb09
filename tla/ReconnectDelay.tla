---------------------------- MODULE ReconnectDelay ----------------------------
(* How long a lost connection waits before the next attempt: to Herdr      *)
(* (bridge/supervisor.go), to WeCom (wecom/reconnect.go) and of Pal to the *)
(* server (relayclient/backoff.go), each with its own exponential backoff  *)
(* over a signed integer of WordBits bits.  Randomness is a percentage of  *)
(* the base.                                                               *)
EXTENDS Integers

CONSTANTS
    WordBits,        \* of a duration
    DelayBounds,     \* [least, most]: configured delays
    Jitters,         \* percent
    ProbeInterval,   \* the wait for another version of Herdr
    MaxFailures      \* bound: failures in a row

ASSUME DelayAssumption ==
    /\ WordBits \in Nat \ {0, 1} /\ MaxFailures \in Nat /\ ProbeInterval \in Nat \ {0}
    /\ \A b \in DelayBounds : 0 < b.least /\ b.least <= b.most /\ b.most < 2 ^ (WordBits - 1)
    /\ Jitters \subseteq 80..120

VARIABLES
    loop,       \* which of the three loops
    bounds,     \* its configured delays
    attempt,    \* attempts since the last Reset
    wait,       \* the wait that runs, 0 while it connects
    probing,    \* that wait is for another version of Herdr
    failures    \* history: failures since the connection last stood

delayVars == <<loop, bounds, attempt, wait, probing, failures>>

DelayInit ==
    /\ loop \in {"herdr", "wecom", "relay"} /\ bounds \in DelayBounds
    /\ attempt = 0 /\ wait = 0 /\ probing = FALSE /\ failures = 0

Lesser(m, n) == IF m < n THEN m ELSE n
Greater(m, n) == IF m < n THEN n ELSE m
Wrapped(n) == LET half == 2 ^ (WordBits - 1) IN ((n + half) % (2 * half)) - half

(* Mutant: the product is compared with the maximum once it is made.       *)
ProductBase(n) ==
    Lesser(Wrapped(bounds.least * 2 ^ Lesser(n, WordBits - 2)), bounds.most)

(* The base of defaultSupervisorRetry.Next and Backoff.Next.               *)
ShiftedBase(n) ==
    LET factor == 2 ^ Lesser(n, WordBits - 2)
    IN  IF bounds.least > bounds.most \div factor THEN bounds.most
        ELSE Wrapped(bounds.least * factor)

(* The base of reconnectBackoff.Next.                                      *)
DoubledBase(n) ==
    LET delay[k \in 0..n] ==
            IF k = 0 THEN bounds.least
            ELSE IF delay[k - 1] < bounds.most \div 2 THEN Wrapped(2 * delay[k - 1])
            ELSE delay[k - 1]
    IN  Lesser(delay[n], bounds.most)

(* The bases of WeCom's backoff may be undercut by the jitter, the others' *)
(* minimum may not.                                                        *)
NextDelay(n, jitter) ==
    LET base == IF loop = "relay" THEN DoubledBase(n) ELSE ShiftedBase(n)
        delay == (base * jitter) \div 100
    IN  Lesser(IF loop = "wecom" THEN delay ELSE Greater(delay, bounds.least), bounds.most)

(* Reset: the connection is ready, subscribed, or was stable for a while.  *)
Reset ==
    /\ wait = 0 /\ attempt' = 0 /\ failures' = 0
    /\ UNCHANGED <<loop, bounds, wait, probing>>

(* The attempt fails, or the connection that stood is lost.                *)
Fails ==
    /\ wait = 0 /\ failures < MaxFailures
    /\ attempt' = attempt + 1 /\ failures' = failures + 1
    /\ \E jitter \in Jitters : wait' = NextDelay(attempt, jitter)
    /\ probing' = FALSE /\ UNCHANGED <<loop, bounds>>

(* waitCycleRetry: another version of Herdr's protocol is probed slowly.   *)
ProtocolMismatch ==
    /\ loop = "herdr" /\ wait = 0 /\ wait' = ProbeInterval /\ probing' = TRUE
    /\ UNCHANGED <<loop, bounds, attempt, failures>>

Waited == wait # 0 /\ wait' = 0 /\ UNCHANGED <<loop, bounds, attempt, probing, failures>>

DelayNext == Reset \/ Fails \/ ProtocolMismatch \/ Waited

--------------------------------------------------------------------------
(* The wait grows with the failures in a row, to the configured maximum or *)
(* half of it, is back at the minimum once a connection stood, and never   *)
(* exceeds the maximum, however many failures: no width is overrun.        *)
DelaysGrow ==
    wait # 0 /\ ~probing =>
        LET grown == bounds.least * 2 ^ (failures - 1)
        IN  /\ wait >= (80 * Lesser(grown, bounds.most \div 2)) \div 100
            /\ wait <= Lesser((120 * grown) \div 100, bounds.most)
=============================================================================
