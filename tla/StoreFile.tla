------------------------------ MODULE StoreFile ------------------------------
(* How the server keeps its three secret files: credentials                *)
(* (credential/store.go), administrators with their automation tokens      *)
(* (adminauth/store.go) and requests (machinereg/store.go).  Each has one  *)
(* lock and one way to write: a temporary file is written, synced, closed  *)
(* and renamed over the file, then the directory is synced if it can be,   *)
(* then memory changes.  The process may be killed and the power may fail  *)
(* between any two steps; a temporary file that is left is never read.     *)
(*                                                                         *)
(* A record is its secret and whether it is enabled; a secret stands for   *)
(* what was generated with it, and 0 for no record.                        *)
EXTENDS Naturals, FiniteSets

CONSTANTS
    MaxIDs, MaxSecrets, MaxFaults,   \* bounds; a fault stops the server
    Absent, Torn                     \* no file, and a file that is not whole

IDs == 1..MaxIDs
Records == [IDs -> [secret : Nat, enabled : BOOLEAN]]

ASSUME StoreAssumption ==
    /\ MaxIDs \in Nat \ {0} /\ MaxSecrets \in Nat /\ MaxFaults \in Nat
    /\ Absent # Torn /\ Absent \notin Records /\ Torn \notin Records

VARIABLES
    keeps,          \* which of the three files this is
    serving,        \* the store is loaded
    memory,         \* its records
    nextRecord,     \* Store.nextID of the credentials
    writing,        \* where persistLocked is, "none" when nobody holds the lock
    candidate,      \* what it writes
    flushed,        \* the temporary file is synced
    name,           \* what the path of the file leads to
    durable,        \* what it may lead to after a power failure
    generated,      \* secrets so far
    acknowledged,   \* the records as the callers were told
    removed,        \* the keys whose end a caller was told of
    faults

storeVars == <<keeps, serving, memory, nextRecord, writing, candidate, flushed, name, durable,
               generated, acknowledged, removed, faults>>

NoRecord == [secret |-> 0, enabled |-> FALSE]
NoRecords == [id \in IDs |-> NoRecord]
Stored(records) == {id \in IDs : records[id] # NoRecord}
Key(id, records) == [id |-> id, secret |-> records[id].secret]
KeysOf(records) == {Key(id, records) : id \in Stored(records)}

StoreInit ==
    /\ keeps \in {"credentials", "admins", "requests"}
    /\ serving = FALSE /\ memory = NoRecords /\ nextRecord = 1
    /\ writing = "none" /\ candidate = NoRecords /\ flushed = FALSE
    /\ name = Absent /\ durable = {Absent} /\ generated = 0
    /\ acknowledged = NoRecords /\ removed = {} /\ faults = 0

Persist(records) == writing' = "locked" /\ candidate' = records /\ flushed' = FALSE

Fresh(records, id) == [records EXCEPT ![id] = [secret |-> generated + 1, enabled |-> TRUE]]
Generates == generated < MaxSecrets /\ generated' = generated + 1

--------------------------------------------------------------------------
(* Load.  The next identifier is one above the largest in the file.  No    *)
(* administrators' file is a first start, which writes one with "admin".   *)
After(records) ==
    CHOOSE n \in 1..(MaxIDs + 1) : \A m \in 1..(MaxIDs + 1) :
        n <= m <=> \A id \in Stored(records) : id < m

Loaded == IF name = Absent THEN NoRecords ELSE name

Load ==
    /\ ~serving /\ writing = "none" /\ name # Torn
    /\ ~(keeps = "admins" /\ name = Absent)
    /\ serving' = TRUE /\ memory' = Loaded /\ nextRecord' = After(Loaded)
    /\ acknowledged' = Loaded
    /\ UNCHANGED <<keeps, writing, candidate, flushed, name, durable, generated, removed, faults>>

Bootstrap ==
    /\ ~serving /\ writing = "none" /\ keeps = "admins" /\ name = Absent
    /\ Generates /\ Persist(Fresh(NoRecords, 1))
    /\ serving' = TRUE /\ memory' = NoRecords /\ acknowledged' = NoRecords
    /\ UNCHANGED <<keeps, nextRecord, name, durable, removed, faults>>

--------------------------------------------------------------------------
(* A change begins with the lock and the records it would leave.           *)
Changes(records) ==
    /\ serving /\ writing = "none" /\ records # memory
    /\ Persist(records)
    /\ UNCHANGED <<keeps, serving, memory, nextRecord, name, durable, acknowledged, removed,
                   faults>>

Issue ==
    /\ keeps = "credentials" /\ nextRecord \in IDs
    /\ Generates /\ Changes(Fresh(memory, nextRecord))

(* A request or an administrator is created under an unused name.          *)
CreateRequest(id) ==
    /\ keeps = "requests" /\ id \notin Stored(memory)
    /\ Generates /\ Changes(Fresh(memory, id))

CreateAdmin(id) ==
    /\ keeps = "admins" /\ id \notin Stored(memory)
    /\ Generates /\ Changes(Fresh(memory, id))

RotateAutomationToken(id) ==
    /\ keeps = "admins" /\ id \in Stored(memory)
    /\ Generates
    /\ Changes([Fresh(memory, id) EXCEPT ![id].enabled = memory[id].enabled])

SetEnabled(id, enabled) ==
    /\ keeps = "credentials" /\ id \in Stored(memory)
    /\ Changes([memory EXCEPT ![id].enabled = enabled]) /\ UNCHANGED generated

SetAutomationTokenEnabled(id, enabled) ==
    /\ keeps = "admins" /\ id \in Stored(memory)
    /\ Changes([memory EXCEPT ![id].enabled = enabled]) /\ UNCHANGED generated

DeleteRecord(id) ==
    /\ keeps = "credentials" /\ id \in Stored(memory)
    /\ Changes([memory EXCEPT ![id] = NoRecord]) /\ UNCHANGED generated

DeleteRequest(id) ==
    /\ keeps = "requests" /\ id \in Stored(memory)
    /\ Changes([memory EXCEPT ![id] = NoRecord]) /\ UNCHANGED generated

DeleteAdmin(id) ==
    /\ keeps = "admins" /\ id \in Stored(memory) /\ Cardinality(Stored(memory)) > 1
    /\ Changes([memory EXCEPT ![id] = NoRecord]) /\ UNCHANGED generated

--------------------------------------------------------------------------
(* persistLocked, the same in the three stores.                            *)
Advance(from, to) ==
    /\ writing = from /\ writing' = to
    /\ UNCHANGED <<keeps, serving, memory, nextRecord, candidate, generated, acknowledged,
                   removed, faults>>

CreateTemp == Advance("locked", "created") /\ UNCHANGED <<flushed, name, durable>>
WriteTemp == Advance("created", "written") /\ UNCHANGED <<flushed, name, durable>>

(* Mutant: the temporary file is closed without a sync.                    *)
SyncTempLater == Advance("written", "synced") /\ UNCHANGED <<flushed, name, durable>>

SyncTemp == Advance("written", "synced") /\ flushed' = TRUE /\ UNCHANGED <<name, durable>>
CloseTemp == Advance("synced", "closed") /\ UNCHANGED <<flushed, name, durable>>

Rename ==
    /\ Advance("closed", "renamed")
    /\ name' = candidate /\ durable' = durable \cup {IF flushed THEN candidate ELSE Torn}
    /\ UNCHANGED flushed

(* Before the rename a failed step removes the temporary file and leaves   *)
(* memory as it was.  A first start ends with its failure.                 *)
PersistFails ==
    /\ writing \in {"locked", "created", "written", "synced", "closed"} /\ writing' = "none"
    /\ serving' = (memory # NoRecords \/ keeps # "admins")
    /\ UNCHANGED <<keeps, memory, nextRecord, candidate, flushed, name, durable, generated,
                   acknowledged, removed, faults>>

Returned(records) ==
    /\ memory' = records /\ acknowledged' = records
    /\ removed' = removed \cup (KeysOf(memory) \ KeysOf(records))
    /\ nextRecord' = IF keeps = "credentials" /\ Stored(records) \ Stored(memory) # {}
                     THEN nextRecord + 1 ELSE nextRecord

(* Mutant: a failed sync of the directory is taken for a failed write.     *)
CommitsIfSynced(synced) == IF synced THEN candidate ELSE memory

Commits(synced) == candidate

SyncDirectory(synced) ==
    /\ writing = "renamed" /\ writing' = "none"
    /\ durable' = IF synced THEN {name} ELSE durable
    /\ Returned(Commits(synced))
    /\ UNCHANGED <<keeps, serving, candidate, flushed, name, generated, faults>>

--------------------------------------------------------------------------
(* Faults.  A kill loses memory only.  After a power failure the path may  *)
(* lead to an older file if the directory was not synced since: what was   *)
(* acknowledged is then taken back.                                        *)
Faults == faults < MaxFaults /\ faults' = faults + 1 /\ serving' = FALSE /\ writing' = "none"

Killed ==
    /\ serving /\ Faults
    /\ UNCHANGED <<keeps, memory, nextRecord, candidate, flushed, name, durable, generated,
                   acknowledged, removed>>

PowerFails ==
    /\ serving /\ Faults
    /\ \E content \in durable :
          /\ name' = content /\ durable' = {content}
          /\ IF content \in {name, Torn} THEN UNCHANGED <<acknowledged, removed>>
             ELSE LET records == IF content = Absent THEN NoRecords ELSE content
                  IN  /\ acknowledged' = records
                      /\ removed' = removed \ KeysOf(records)
    /\ UNCHANGED <<keeps, memory, nextRecord, candidate, flushed, generated>>

StoreNext ==
    \/ Load \/ Bootstrap \/ Issue
    \/ \E id \in IDs :
          \/ CreateRequest(id) \/ CreateAdmin(id) \/ RotateAutomationToken(id)
          \/ DeleteRecord(id) \/ DeleteRequest(id) \/ DeleteAdmin(id)
          \/ \E enabled \in BOOLEAN : SetEnabled(id, enabled) \/ SetAutomationTokenEnabled(id, enabled)
    \/ CreateTemp \/ WriteTemp \/ SyncTemp \/ CloseTemp \/ Rename \/ PersistFails
    \/ \E synced \in BOOLEAN : SyncDirectory(synced)
    \/ Killed \/ PowerFails

StoreSpec == StoreInit /\ [][StoreNext]_storeVars

--------------------------------------------------------------------------
(* Mutant: the record that is there now is taken for the key's.            *)
AcceptsIdentifier(key) == serving /\ memory[key.id].enabled

(* VerifyBearer and VerifyAutomationBearer.                                *)
AcceptsKey(key) == serving /\ memory[key.id] = [secret |-> key.secret, enabled |-> TRUE]

(* Whatever stops the server and whenever, the path leads to a whole file. *)
(* (persistLocked: the sync before the rename.)                            *)
WholeFile == name # Torn /\ Torn \notin durable

(* The file, memory and what callers were told change together: with no    *)
(* change under way they are the same, and a stopped server leaves what    *)
(* was acknowledged or what it was writing (persistRecordsLocked's comment *)
(* on the rename as the common commit point).                              *)
StoreCommits ==
    LET file == IF name = Absent THEN NoRecords ELSE name
    IN  /\ serving /\ writing = "none" => memory = file /\ acknowledged = file
        /\ file \in {acknowledged, candidate}

(* A key that was deleted or rotated away is never accepted again, though  *)
(* its identifier is issued anew after a restart (Load's nextID).          *)
RemovedStaysOut == \A key \in removed : ~AcceptsKey(key)

(* What a caller was told lasts: kept whole, and what was removed is gone.  *)
StoreDurable == WholeFile /\ StoreCommits /\ RemovedStaysOut
=============================================================================
