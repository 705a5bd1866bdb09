--------------------------- MODULE UserRateLimiter ---------------------------
(* The limit on a user's inputs (server/rate_limiter.go): two windows, a   *)
(* second and a minute, over the times of the accepted inputs.  The limits *)
(* are per user and the sweep forgets other users as prune forgets this    *)
(* one, so one user is modelled.  Time is counted in ticks; the clock may  *)
(* be set back.  The code sorts the times it counts, so their order in the *)
(* slice is left out: a stamp is a time and the number it has there.       *)
EXTENDS Naturals, FiniteSets

CONSTANTS Limits,         \* [second, minute]: inputs per window, 0: no limit
          SecondWindow,   \* the windows' lengths in ticks
          MinuteWindow,
          MaxClock        \* bound: ticks

ASSUME LimiterAssumption ==
    /\ Limits \subseteq [second : Nat, minute : Nat]
    /\ MinuteWindow \in Nat /\ SecondWindow \in 1..MinuteWindow /\ MaxClock \in Nat

VARIABLES
    limits,   \* perSecond, perMinute
    clock,    \* now()
    stamps    \* the user's accepted inputs: [at, nth], the nth at that time

limiterVars == <<limits, clock, stamps>>

LimiterInit ==
    /\ limits \in Limits
    /\ clock = 0
    /\ stamps = {}

(* A stamp counts in a window while it is younger than the window, and also*)
(* when the clock was set back behind it.                                  *)
Eligible(ts, t, window) == {s \in ts : t < s.at + window}

Prune(ts, t) == Eligible(ts, t, IF limits.minute = 0 THEN SecondWindow ELSE MinuteWindow)

Exceeded(ts, t, window, limit) == limit > 0 /\ Cardinality(Eligible(ts, t, window)) >= limit

(* Mutant: the retry waits for the youngest input to leave the window.     *)
RetryAfterLatest(ts, t, window, limit) ==
    LET latest == CHOOSE s \in Eligible(ts, t, window) :
            \A o \in Eligible(ts, t, window) : o.at <= s.at
    IN  latest.at + window - t

(* windowRetry: the wait until only limit - 1 of the eligible times, in    *)
(* the order of time, are left.                                            *)
Later(ts, s) == {o \in ts : o.at > s.at \/ (o.at = s.at /\ o.nth > s.nth)}
RetryAfter(ts, t, window, limit) ==
    LET leaving == CHOOSE s \in Eligible(ts, t, window) :
            Cardinality(Later(Eligible(ts, t, window), s)) = limit - 1
    IN  leaving.at + window - t

Windows == {<<SecondWindow, limits.second>>, <<MinuteWindow, limits.minute>>}

Waits(ts, t) ==
    {RetryAfter(ts, t, w[1], w[2]) : w \in {v \in Windows : Exceeded(ts, t, v[1], v[2])}}

Limited == limits.second > 0 \/ limits.minute > 0
Exceeds(ts, t) == Limited /\ Waits(Prune(ts, t), t) # {}
RetryIn(ts, t) ==
    CHOOSE r \in Waits(Prune(ts, t), t) : \A s \in Waits(Prune(ts, t), t) : s <= r

(* The next stamp of this time: prune keeps all of a time or none.         *)
Stamp == [at |-> clock, nth |-> Cardinality({s \in stamps : s.at = clock}) + 1]

(* Allow: only an accepted input is recorded.                              *)
Allow ==
    /\ Limited
    /\ stamps' = IF Exceeds(stamps, clock) THEN Prune(stamps, clock)
                 ELSE Prune(stamps, clock) \cup {Stamp}
    /\ UNCHANGED <<limits, clock>>

Clock ==
    /\ \/ clock < MaxClock /\ clock' = clock + 1
       \/ clock > 0 /\ clock' = clock - 1
    /\ UNCHANGED <<limits, stamps>>

LimiterNext == Allow \/ Clock

LimiterSpec == LimiterInit /\ [][LimiterNext]_limiterVars

(* The wait that a refused user is told is exact: no earlier input would   *)
(* be accepted, and one sent when it is over is, whatever came before and  *)
(* wherever the clock was set (UserRateLimiter.Allow, windowRetry).        *)
RetryExact ==
    Exceeds(stamps, clock) =>
        LET r == RetryIn(stamps, clock) IN
        /\ ~Exceeds(stamps, clock + r)
        /\ \A k \in 0..(r - 1) : Exceeds(stamps, clock + k)
=============================================================================
