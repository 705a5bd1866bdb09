----------------------------- MODULE LoginGuard -----------------------------
(* The login protection of the web console (adminauth/login_guard.go and   *)
(* its calls in webadmin/auth_handler.go): one bucket of failures for each *)
(* user name and one for each source, a reservation in both before the     *)
(* password is verified, their sweep and their capacity.                   *)
EXTENDS Naturals, Sequences, FiniteSets, Functions

CONSTANTS
    Names, Sources,
    Logins,          \* requests that may be in their handlers at once
    FailureLimit, LockDuration, SweepInterval,
    Capacities,      \* of a table; one of them is logincapacity
    MaxVerifyTime,   \* no verification takes longer
    MaxTries, MaxTime   \* bounds of the model

ASSUME LoginGuardAssumption ==
    /\ FailureLimit \in Nat \ {0} /\ Capacities \subseteq Nat \ {0}
    /\ LockDuration \in Nat \ {0} /\ SweepInterval \in 1..LockDuration
    /\ MaxVerifyTime \in Nat /\ MaxVerifyTime < LockDuration

VARIABLES
    names, sources,  \* the buckets by key
    lastSweep,       \* 0 before the first sweep
    capacity,
    time,            \* starts at 1: 0 is the zero time
    logins,          \* login -> the attempt it has reserved
    nameTries,       \* the finished attempts of a name, oldest first
    sourceTries,     \* and of a source
    begun            \* the attempts that were admitted

guardVars == <<names, sources, lastSweep, capacity, time, logins, nameTries, sourceTries, begun>>

NoAttempt == [began |-> 0]
NewBucket == [failures |-> 0, inFlight |-> FALSE, lockedUntil |-> 0, lastSeen |-> 0]
NoBuckets == [k \in {} |-> NewBucket]

GuardInit ==
    /\ names = NoBuckets /\ sources = NoBuckets /\ lastSweep = 0 /\ time = 1
    /\ capacity \in Capacities
    /\ logins = [l \in Logins |-> NoAttempt] /\ begun = 0
    /\ nameTries = [n \in Names |-> <<>>] /\ sourceTries = [s \in Sources |-> <<>>]

--------------------------------------------------------------------------
(* The buckets of one map.                                                 *)
Expired(bucket) ==
    IF bucket.lockedUntil # 0 THEN time >= bucket.lockedUntil
    ELSE bucket.lastSeen # 0 /\ time >= bucket.lastSeen + LockDuration

Unexpired(buckets) == Restrict(buckets, {k \in DOMAIN buckets : ~Expired(buckets[k])})
SweepDue == lastSweep = 0 \/ time - lastSweep >= SweepInterval
Swept(buckets) == IF SweepDue THEN Unexpired(buckets) ELSE buckets

(* Mutant: an expired bucket keeps its failures and counts on.             *)
ActiveKept(buckets, k) == buckets

(* activeLoginBucket drops the bucket of the key it looks up.              *)
Active(buckets, k) ==
    Restrict(buckets, DOMAIN buckets \ {j \in {k} \cap DOMAIN buckets : Expired(buckets[j])})

BucketAllows(buckets, k) ==
    k \in DOMAIN buckets =>
        ~buckets[k].inFlight /\ (buckets[k].lockedUntil = 0 \/ time >= buckets[k].lockedUntil)

HasRoom(buckets, k) == k \in DOMAIN buckets \/ Cardinality(DOMAIN buckets) < capacity

Looked(buckets, k) == Active(Swept(buckets), k)
With(buckets, k, bucket) == [j \in DOMAIN buckets \cup {k} |-> IF j = k THEN bucket ELSE buckets[j]]

Reserved(buckets, k) ==
    With(buckets, k,
         [(IF k \in DOMAIN buckets THEN buckets[k] ELSE NewBucket)
            EXCEPT !.inFlight = TRUE, !.lastSeen = time])

FailureCounted(buckets, k) ==
    IF k \notin DOMAIN buckets THEN buckets
    ELSE LET counted == [buckets[k] EXCEPT !.inFlight = FALSE, !.failures = @ + 1, !.lastSeen = time]
         IN  With(buckets, k, [counted EXCEPT !.lockedUntil =
                                 IF counted.failures >= FailureLimit THEN time + LockDuration ELSE @])

Without(buckets, k) == Restrict(buckets, DOMAIN buckets \ {k})

--------------------------------------------------------------------------
(* The login handler: Begin, the verification, Finish.                     *)
Admitted(n, s) ==
    LET byName == Looked(names, n)
        bySource == Looked(sources, s)
    IN  /\ BucketAllows(byName, n) /\ BucketAllows(bySource, s)
        /\ HasRoom(byName, n) /\ HasRoom(bySource, s)

BeginLogin(l, n, s) ==
    /\ logins[l] = NoAttempt
    /\ begun < MaxTries
    /\ lastSweep' = IF SweepDue THEN time ELSE lastSweep
    /\ IF Admitted(n, s)
       THEN /\ names' = Reserved(Looked(names, n), n)
            /\ sources' = Reserved(Looked(sources, s), s)
            /\ logins' = [logins EXCEPT ![l] = [began |-> time, name |-> n, source |-> s]]
            /\ begun' = begun + 1
       ELSE /\ names' = Looked(names, n) /\ sources' = Looked(sources, s)
            /\ UNCHANGED <<logins, begun>>
    /\ UNCHANGED <<capacity, time, nameTries, sourceTries>>

FinishLogin(l, succeeded) ==
    /\ logins[l] # NoAttempt
    /\ LET n == logins[l].name
           s == logins[l].source
           try == [began |-> logins[l].began, ended |-> time, succeeded |-> succeeded]
       IN  /\ names' = IF succeeded THEN Without(names, n) ELSE FailureCounted(names, n)
           /\ sources' = IF succeeded THEN Without(sources, s) ELSE FailureCounted(sources, s)
           /\ nameTries' = [nameTries EXCEPT ![n] = Append(@, try)]
           /\ sourceTries' = [sourceTries EXCEPT ![s] = Append(@, try)]
    /\ logins' = [logins EXCEPT ![l] = NoAttempt]
    /\ UNCHANGED <<lastSweep, capacity, time, begun>>

TimePasses ==
    /\ time < MaxTime /\ time' = time + 1
    /\ \A l \in Logins : logins[l] # NoAttempt => time < logins[l].began + MaxVerifyTime
    /\ UNCHANGED <<names, sources, lastSweep, capacity, logins, nameTries, sourceTries, begun>>

GuardNext ==
    \/ \E l \in Logins : \/ \E n \in Names, s \in Sources : BeginLogin(l, n, s)
                         \/ \E succeeded \in BOOLEAN : FinishLogin(l, succeeded)
    \/ TimePasses

GuardSpec == GuardInit /\ [][GuardNext]_guardVars

--------------------------------------------------------------------------
(* What the attempts say: a name or a source is closed while one of its    *)
(* attempts is being verified, and for LockDuration after FailureLimit of  *)
(* them failed in a row, each within LockDuration of the one before.       *)
LockedBy(own) ==
    LET last == Len(own)
    IN  /\ last >= FailureLimit /\ time < own[last].ended + LockDuration
        /\ \A i \in (last - FailureLimit + 1)..last : ~own[i].succeeded
        /\ \A i \in (last - FailureLimit + 2)..last : own[i].began < own[i - 1].ended + LockDuration

Verifying(n, s) ==
    \E l \in Logins : logins[l] # NoAttempt /\ (logins[l].name = n \/ logins[l].source = s)

Recent(began) == time < began + LockDuration + SweepInterval + MaxVerifyTime
Tried(own) == \E i \in DOMAIN own : Recent(own[i].began)
TriedNames ==
    {n \in Names : Tried(nameTries[n])}
      \cup {logins[l].name : l \in {k \in Logins : logins[k] # NoAttempt}}
TriedSources ==
    {s \in Sources : Tried(sourceTries[s])}
      \cup {logins[l].source : l \in {k \in Logins : logins[k] # NoAttempt}}

Crowded(n, s) ==
    \/ Cardinality(TriedNames \ {n}) >= capacity
    \/ Cardinality(TriedSources \ {s}) >= capacity

(* Begin refuses exactly the logins whose name or source is closed by the  *)
(* attempts so far, and beyond them only when the table is full of others  *)
(* tried lately (LoginGuard.Begin, Finish, sweepIfDue, activeLoginBucket). *)
LockExact ==
    \A n \in Names, s \in Sources :
        LET closed == Verifying(n, s) \/ LockedBy(nameTries[n]) \/ LockedBy(sourceTries[s])
        IN  /\ Admitted(n, s) => ~closed
            /\ closed \/ Admitted(n, s) \/ Crowded(n, s)
=============================================================================
