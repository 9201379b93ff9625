------------------------------ MODULE EmptyClaim ------------------------------
(***************************************************************************)
(* The empty-claim cache: server/internal/service/empty_claim_cache.go and *)
(* the two procedures around it, ClaimTaskForRuntime and                   *)
(* notifyTaskAvailable of task.go. Redis holds, for each runtime, a        *)
(* counter that every enqueue increments and a verdict "no queued task"    *)
(* tagged with the counter a claim read before its SELECT. Postgres and    *)
(* Redis are separate stores, so each call is a step of its own and claims *)
(* and enqueues of all server instances interleave between any two.        *)
(* What a claim does after it has listed rows is in TaskQueue; here a row  *)
(* leaves the queue at any time.                                           *)
(***************************************************************************)
EXTENDS Naturals

CONSTANTS
    Tasks,
    Runtimes,
    Claims,        \* claim requests the servers may serve at the same time
    NoVerdict,     \* the verdict's key does not exist
    MaxFaults,     \* bound: failed increments, server crashes, losses of all keys
    MaxMerges      \* bound: registrations that absorb a legacy runtime

ASSUME BoundsAssumption == MaxFaults \in Nat /\ MaxMerges \in Nat
ASSUME NoVerdictAssumption == NoVerdict \notin Nat

VARIABLES
    queued,       \* for each runtime, its rows with status 'queued'
    fresh,        \* rows not inserted yet
    unannounced,  \* rows inserted and not announced yet
    listed,       \* rows some claim's SELECT has returned
    version,      \* mul:claim:runtime:version:<runtime>; 0 when the key is missing
    verdict,      \* mul:claim:runtime:empty:<runtime>, when the key exists
    claim,        \* progress of each claim
    disturbed,    \* runtimes that have missed an invalidation
    faults,
    merges

vars == <<queued, fresh, unannounced, listed, version, verdict, claim, disturbed,
          faults, merges>>

Idle == [pc |-> "idle", runtime |-> "none", version |-> 0]

Init ==
    /\ queued = [r \in Runtimes |-> {}]
    /\ fresh = Tasks
    /\ unannounced = {}
    /\ listed = {}
    /\ version = [r \in Runtimes |-> 0]
    /\ verdict = [r \in Runtimes |-> NoVerdict]
    /\ claim = [c \in Claims |-> Idle]
    /\ disturbed = {}
    /\ faults = 0
    /\ merges = 0

-----------------------------------------------------------------------------
(* Enqueue: the row is committed first, then announced. *)

Insert(t, r) ==
    /\ t \in fresh
    /\ fresh' = fresh \ {t}
    /\ queued' = [queued EXCEPT ![r] = @ \cup {t}]
    /\ unannounced' = unannounced \cup {[task |-> t, runtime |-> r]}
    /\ UNCHANGED <<listed, version, verdict, claim, disturbed, faults, merges>>

(* notifyTaskAvailable: Bump, then the wakeup. *)
Bump(e) ==
    /\ unannounced' = unannounced \ {e}
    /\ version' = [version EXCEPT ![e.runtime] = @ + 1]
    /\ UNCHANGED <<queued, fresh, listed, verdict, claim, disturbed, faults, merges>>

Fault(R) ==
    /\ faults < MaxFaults
    /\ faults' = faults + 1
    /\ disturbed' = disturbed \cup R

(* The increment fails or times out; the error is swallowed. *)
BumpFails(e) ==
    /\ unannounced' = unannounced \ {e}
    /\ Fault({e.runtime})
    /\ UNCHANGED <<queued, fresh, listed, version, verdict, claim, merges>>

-----------------------------------------------------------------------------
(* Claim *)

(* One MGET of both keys; a missing counter counts as 0. *)
IsEmpty(r) == verdict[r] # NoVerdict /\ verdict[r] = version[r]

(* A cache hit answers "no task" and changes nothing. *)
Miss(c, r) ==
    /\ claim[c] = Idle
    /\ ~ IsEmpty(r)
    /\ claim' = [claim EXCEPT ![c] = [Idle EXCEPT !.pc = "missed", !.runtime = r]]
    /\ UNCHANGED <<queued, fresh, unannounced, listed, version, verdict, disturbed, faults, merges>>

(* The MGET fails: straight to the database. *)
LookupFails(c, r) ==
    /\ claim[c] = Idle
    /\ claim' = [claim EXCEPT ![c] = [Idle EXCEPT !.pc = "missed", !.runtime = r]]
    /\ UNCHANGED <<queued, fresh, unannounced, listed, version, verdict, disturbed, faults, merges>>

(* CurrentVersion, before the SELECT; 0 when the GET fails. *)
Sample(c) ==
    /\ claim[c].pc = "missed"
    /\ \E v \in {version[claim[c].runtime], 0} :
          claim' = [claim EXCEPT ![c] = [@ EXCEPT !.pc = "sampled", !.version = v]]
    /\ UNCHANGED <<queued, fresh, unannounced, listed, version, verdict, disturbed, faults, merges>>

(* ListQueuedClaimCandidatesByRuntime. *)
Select(c) ==
    LET rows == queued[claim[c].runtime] IN
    /\ claim[c].pc = "sampled"
    /\ listed' = listed \cup rows
    /\ claim' = [claim EXCEPT ![c] = IF rows = {} THEN [@ EXCEPT !.pc = "empty"] ELSE Idle]
    /\ UNCHANGED <<queued, fresh, unannounced, version, verdict, disturbed, faults, merges>>

(* Mutant: the runtime is stored for the version. *)
TagRuntime(c) == claim[c].runtime

(* Mutant: the version is read when the verdict is written. *)
TagCurrent(c) == version[claim[c].runtime]

Tag(c) == claim[c].version

(* MarkEmpty; the SET may fail. *)
MarkEmpty(c) ==
    /\ claim[c].pc = "empty"
    /\ verdict' \in {verdict, [verdict EXCEPT ![claim[c].runtime] = Tag(c)]}
    /\ claim' = [claim EXCEPT ![c] = Idle]
    /\ UNCHANGED <<queued, fresh, unannounced, listed, version, disturbed, faults, merges>>

(* A row is claimed, cancelled or expired. *)
Leave(t, r) ==
    /\ t \in queued[r]
    /\ queued' = [queued EXCEPT ![r] = @ \ {t}]
    /\ UNCHANGED <<fresh, unannounced, listed, version, verdict, claim, disturbed, faults, merges>>

-----------------------------------------------------------------------------
(* Redis, crashes, and what moves rows without announcing them *)

(* Mutant: the verdict is set without a time to live. *)
VerdictKept(r) ==
    /\ verdict[r] # NoVerdict
    /\ UNCHANGED vars

(* EmptyClaimCacheTTL. *)
VerdictExpires(r) ==
    /\ verdict[r] # NoVerdict
    /\ verdict' = [verdict EXCEPT ![r] = NoVerdict]
    /\ UNCHANGED <<queued, fresh, unannounced, listed, version, claim, disturbed, faults, merges>>

(* emptyClaimVersionTTL, a day after the last increment or read: any verdict
   and any call in flight then are long gone. *)
VersionExpires(r) ==
    /\ version[r] # 0
    /\ verdict[r] = NoVerdict
    /\ \A c \in Claims : claim[c].runtime # r
    /\ version' = [version EXCEPT ![r] = 0]
    /\ UNCHANGED <<queued, fresh, unannounced, listed, verdict, claim, disturbed, faults, merges>>

(* Redis loses its keys. *)
KeysLost ==
    /\ Fault(Runtimes)
    /\ version' = [r \in Runtimes |-> 0]
    /\ verdict' = [r \in Runtimes |-> NoVerdict]
    /\ UNCHANGED <<queued, fresh, unannounced, listed, claim, merges>>

(* A server dies with its claims C and before it announces the rows of A. *)
Crash(C, A) ==
    /\ Fault({e.runtime : e \in A})
    /\ claim' = [c \in Claims |-> IF c \in C THEN Idle ELSE claim[c]]
    /\ unannounced' = unannounced \ A
    /\ UNCHANGED <<queued, fresh, listed, version, verdict, merges>>

(* mergeLegacyRuntimes: a registration moves the rows of a legacy runtime and
   announces nothing. *)
Merge(old, new) ==
    /\ old # new
    /\ queued[old] # {}
    /\ merges < MaxMerges
    /\ merges' = merges + 1
    /\ disturbed' = disturbed \cup {new}
    /\ queued' = [r \in Runtimes |-> CASE r = old -> {}
                                      [] r = new -> queued[new] \cup queued[old]
                                      [] OTHER   -> queued[r]]
    /\ UNCHANGED <<fresh, unannounced, listed, version, verdict, claim, faults>>

-----------------------------------------------------------------------------
Enqueue ==
    \/ \E t \in Tasks, r \in Runtimes : Insert(t, r)
    \/ \E e \in unannounced : Bump(e) \/ BumpFails(e)

Claim ==
    \E c \in Claims :
       \/ \E r \in Runtimes : Miss(c, r) \/ LookupFails(c, r)
       \/ Sample(c) \/ Select(c) \/ MarkEmpty(c)

Environment ==
    \/ \E r \in Runtimes :
          \/ VerdictExpires(r) \/ VersionExpires(r)
          \/ \E t \in Tasks : Leave(t, r)
          \/ \E new \in Runtimes : Merge(r, new)
    \/ KeysLost
    \/ \E C \in SUBSET Claims, A \in SUBSET unannounced : Crash(C, A)

Next == Enqueue \/ Claim \/ Environment

Spec == Init /\ [][Next]_vars

-----------------------------------------------------------------------------
ClaimPC == {"idle", "missed", "sampled", "empty"}

(* Every variable has its type. *)
TypeOK ==
    /\ queued \in [Runtimes -> SUBSET Tasks]
    /\ fresh \subseteq Tasks
    /\ unannounced \subseteq [task : Tasks, runtime : Runtimes]
    /\ listed \subseteq Tasks
    /\ version \in [Runtimes -> Nat]
    /\ verdict \in [Runtimes -> Nat \cup {NoVerdict}]
    /\ claim \in [Claims -> [pc : ClaimPC, runtime : Runtimes \cup {"none"}, version : Nat]]
    /\ disturbed \subseteq Runtimes
    /\ faults \in Nat /\ merges \in Nat

(* Rows of r whose announcement has run its course. *)
Announced(r) == {t \in queued[r] : [task |-> t, runtime |-> r] \notin unannounced}

(* The daemon's next claim finds an announced row: no cached verdict, and no
   verdict a claim in flight is about to write, hides it. Failed reads and
   writes, expired keys and slow claims are harmless. *)
NeverHidden ==
    \A r \in Runtimes \ disturbed : Announced(r) # {} => ~ IsEmpty(r)

(* The database is polled again in spite of any fault: a daemon's poll loop
   goes on, a request ends, a key's time to live runs out. *)
Polling ==
    /\ \A r \in Runtimes :
          /\ SF_vars(\E c \in Claims : Miss(c, r))
          /\ WF_vars(VerdictExpires(r))
    /\ \A c \in Claims : WF_vars(Sample(c) \/ Select(c) \/ MarkEmpty(c))

FairSpec == Spec /\ Polling

(* Every queued row is listed or leaves the queue, even when its announcement
   was lost: the safety net of the verdict's time to live. *)
Surfaces ==
    \A t \in Tasks, r \in Runtimes : t \in queued[r] ~> (t \in listed \/ t \notin queued[r])
=============================================================================
