-------------------------- MODULE TaskQueueProofs --------------------------
(* Theorems about TaskQueue for every set of agents, runtimes, issues, chats,
   requests and workers and every limit. *)
EXTENDS TaskQueue, FiniteSetTheorems, TLAPS

(* What the statements do to the rows, whoever issues them. *)
LEMMA InsertType ==
    ASSUME created \in Nat, task \in [Rows -> Row], NEW row \in Row, Insert(row)
    PROVE  /\ created' \in Nat
           /\ Rows' = Rows \cup {created + 1}
           /\ created + 1 \notin Rows
           /\ task' \in [Rows' -> Row]
           /\ \A t \in Rows : task'[t] = task[t]
           /\ task'[created + 1] = row
  <1>1. created' \in Nat /\ Rows' = 1 .. (created + 1)
    BY DEF Insert, Rows
  <1>2. Rows' = Rows \cup {created + 1} /\ created + 1 \notin Rows
    BY <1>1 DEF Rows
  <1>3. task' = [t \in Rows' |-> IF t \in Rows THEN task[t] ELSE row]
    BY <1>1 DEF Insert
  <1> QED
    BY <1>1, <1>2, <1>3

LEMMA FinishType ==
    ASSUME task \in [Rows -> Row], UNCHANGED created,
           NEW S, NEW st \in Status, NEW reason \in Reasons, Finish(S, st, reason)
    PROVE  /\ Rows' = Rows
           /\ task' \in [Rows' -> Row]
           /\ \A t \in Rows :
                 /\ task'[t].agent = task[t].agent /\ task'[t].link = task[t].link
                 /\ t \in S => task'[t].status = st
                 /\ t \notin S => task'[t] = task[t]
  <1>1. Rows' = Rows
    BY DEF Rows
  <1>2. ASSUME NEW t \in Rows
        PROVE  /\ [task[t] EXCEPT !.status = st, !.reason = reason, !.age = 0] \in Row
               /\ task[t] \in Row
    <2>1. task[t] \in Row /\ 0 \in 0 .. 2
      OBVIOUS
    <2> QED
      BY <2>1 DEF Row
  <1>3. task' \in [Rows -> Row]
    BY <1>2 DEF Finish
  <1>4. ASSUME NEW t \in Rows
        PROVE  /\ task'[t].agent = task[t].agent /\ task'[t].link = task[t].link
               /\ t \in S => task'[t].status = st
               /\ t \notin S => task'[t] = task[t]
    BY <1>2 DEF Finish, Row
  <1> QED
    BY <1>1, <1>3, <1>4

(* NewRow builds a row, and a retry leaves well-typed rows. *)
LEMMA NewRowType ==
    ASSUME NEW a \in Agents, NEW r \in Runtimes, NEW l \in Links, NEW n \in Nat, NEW p \in Nat
    PROVE  NewRow(a, r, l, n, p) \in Row
  BY NumbersAssumption DEF NewRow, Row, Status, Reasons

LEMMA RetryType ==
    ASSUME TypeOK, NEW t \in Rows, Retry(t)
    PROVE  /\ created' \in Nat
           /\ Rows \subseteq Rows'
           /\ task' \in [Rows' -> Row]
  <1>1. CASE Retries(t)
    <2>1. /\ task[t].agent \in Agents /\ task[t].runtime \in Runtimes
          /\ task[t].link \in Links /\ task[t].attempt + 1 \in Nat /\ t \in Nat
      BY DEF TypeOK, Row, Rows
    <2> QED
      BY <1>1, <2>1, NewRowType, InsertType DEF Retry, TypeOK
  <1>2. CASE ~ Retries(t)
    BY <1>2 DEF Retry, TypeOK, Rows
  <1> QED
    BY <1>1, <1>2

-----------------------------------------------------------------------------
(* Type correctness *)

(* Rows are only ever added, so what refers to rows goes on referring to rows. *)
LEMMA RefsGrow ==
    ASSUME TypeOK, Rows \subseteq Rows'
    PROVE  /\ known \subseteq Rows' /\ failing \subseteq Rows'
           /\ claim \in [Requests -> [pc : ClaimPC, runtime : Runtimes \cup {"none"},
                                     cands : SUBSET Rows', row : Nat]]
           /\ work \in [Workers -> [pc : WorkerPC, todo : SUBSET Rows', cur : Nat,
                                   agents : SUBSET Agents, processed : SUBSET Links,
                                   retried : SUBSET Links]]
  <1>1. SUBSET Rows \subseteq SUBSET Rows'
    OBVIOUS
  <1> QED
    BY <1>1 DEF TypeOK

LEMMA IdleTypes ==
    /\ IdleClaim \in [pc : ClaimPC, runtime : Runtimes \cup {"none"}, cands : SUBSET Rows, row : Nat]
    /\ IdleWorker \in [pc : WorkerPC, todo : SUBSET Rows, cur : Nat, agents : SUBSET Agents,
                      processed : SUBSET Links, retried : SUBSET Links]
  BY DEF IdleClaim, IdleWorker, ClaimPC, WorkerPC

(* The loop of a claim stays well typed when it moves on. *)
LEMMA NextAgentType ==
    ASSUME TypeOK, NEW q \in Requests, NEW a
    PROVE  NextAgent(q, a) \in [pc : ClaimPC, runtime : Runtimes \cup {"none"},
                                cands : SUBSET Rows, row : Nat]
  <1>1. claim[q] \in [pc : ClaimPC, runtime : Runtimes \cup {"none"}, cands : SUBSET Rows, row : Nat]
    BY DEF TypeOK
  <1>2. {t \in claim[q].cands : task[t].agent # a} \in SUBSET Rows
    BY <1>1
  <1> QED
    BY <1>1, <1>2, IdleTypes DEF NextAgent, ClaimPC

(* So does a pipeline when it moves on to its next failed row. *)
LEMMA NextFailedType ==
    ASSUME TypeOK, NEW w \in Workers, NEW processed \in SUBSET Links, NextFailed(w, processed)
    PROVE  /\ work' \in [Workers -> [pc : WorkerPC, todo : SUBSET Rows, cur : Nat,
                                   agents : SUBSET Agents, processed : SUBSET Links,
                                   retried : SUBSET Links]]
           /\ owed' \subseteq Agents
  <1>1. work[w] \in [pc : WorkerPC, todo : SUBSET Rows, cur : Nat, agents : SUBSET Agents,
                     processed : SUBSET Links, retried : SUBSET Links]
    BY DEF TypeOK
  <1>2. work[w].todo \ {work[w].cur} \in SUBSET Rows
    BY <1>1
  <1>3. owed' \subseteq Agents
    BY <1>1 DEF NextFailed, TypeOK
  <1>4. work' \in [Workers -> [pc : WorkerPC, todo : SUBSET Rows, cur : Nat,
                             agents : SUBSET Agents, processed : SUBSET Links,
                             retried : SUBSET Links]]
    BY <1>1, <1>2, IdleTypes DEF NextFailed, TypeOK, WorkerPC
  <1> QED
    BY <1>3, <1>4

(* A bulk failure hands its rows to an idle pipeline. *)
LEMMA BatchType ==
    ASSUME TypeOK, NEW w \in Workers, NEW S \in SUBSET Rows, NEW reason \in Reasons,
           Batch(w, S, reason)
    PROVE  TypeOK'
  <1>1. UNCHANGED created /\ Finish(S, "failed", reason) /\ "failed" \in Status
    BY DEF Batch, Status
  <1>2. Rows' = Rows /\ task' \in [Rows' -> Row]
    BY <1>1, FinishType DEF TypeOK
  <1>3. AgentsOf(S) \subseteq Agents
    BY DEF AgentsOf, TypeOK, Row
  <1>4. [IdleWorker EXCEPT !.pc = "next", !.todo = S, !.agents = AgentsOf(S)]
           \in [pc : WorkerPC, todo : SUBSET Rows, cur : Nat, agents : SUBSET Agents,
                processed : SUBSET Links, retried : SUBSET Links]
    BY <1>3 DEF IdleWorker, WorkerPC
  <1>5. work' \in [Workers -> [pc : WorkerPC, todo : SUBSET Rows', cur : Nat,
                             agents : SUBSET Agents, processed : SUBSET Links,
                             retried : SUBSET Links]]
    BY <1>2, <1>4 DEF Batch, TypeOK
  <1> QED
    BY <1>2, <1>5 DEF Batch, TypeOK

LEMMA InitType == Init => TypeOK
  BY ChoicesAssumption, IdleTypes DEF Init, TypeOK, Rows, IssueStatus

(* The actions that move rows by inserting one. *)
LEMMA InsertAdmittedType ==
    ASSUME TypeOK, NEW e \in admitted, InsertAdmitted(e)
    PROVE  TypeOK'
  <1>1. e.agent \in Agents /\ e.runtime \in Runtimes /\ e.link \in Links
    BY DEF TypeOK
  <1>2. created' \in Nat /\ Rows \subseteq Rows' /\ task' \in [Rows' -> Row]
    <2>1. CASE UniqueFree(e.agent, e.link)
      BY <1>1, <2>1, NewRowType, InsertType DEF InsertAdmitted, TypeOK
    <2>2. CASE ~ UniqueFree(e.agent, e.link)
      BY <2>2 DEF InsertAdmitted, TypeOK, Rows
    <2> QED
      BY <2>1, <2>2
  <1> QED
    BY <1>2, RefsGrow DEF InsertAdmitted, TypeOK

LEMMA RetryAfterFailType ==
    ASSUME TypeOK, NEW t \in Rows, RetryAfterFail(t)
    PROVE  TypeOK'
  <1>1. created' \in Nat /\ Rows \subseteq Rows' /\ task' \in [Rows' -> Row]
    BY RetryType DEF RetryAfterFail
  <1>2. owed' \subseteq Agents /\ failing' \subseteq failing
    BY DEF RetryAfterFail, TypeOK, Row
  <1> QED
    BY <1>1, <1>2, RefsGrow DEF RetryAfterFail, TypeOK

LEMMA RetryNextType ==
    ASSUME TypeOK, NEW w \in Workers, NEW t \in Rows, RetryNext(w, t)
    PROVE  TypeOK'
  <1> DEFINE W == [pc : WorkerPC, todo : SUBSET Rows', cur : Nat, agents : SUBSET Agents,
                   processed : SUBSET Links, retried : SUBSET Links]
  <1>1. created' \in Nat /\ Rows \subseteq Rows' /\ task' \in [Rows' -> Row]
    BY RetryType DEF RetryNext
  <1>2. task[t].link \in Links /\ t \in Nat
    BY DEF TypeOK, Row, Rows
  <1>3. work \in [Workers -> W]
    BY <1>1, RefsGrow
  <1>4. /\ [work[w] EXCEPT !.pc = "check", !.cur = t,
               !.retried = IF Retries(t) THEN work[w].retried \cup {task[t].link}
                                         ELSE work[w].retried] \in W
    <2>1. work[w] \in W
      BY <1>3
    <2>2. (IF Retries(t) THEN work[w].retried \cup {task[t].link} ELSE work[w].retried)
             \in SUBSET Links
      BY <1>2, <2>1
    <2> QED
      BY <1>2, <2>1, <2>2 DEF WorkerPC
  <1>5. work' \in [Workers -> W]
    BY <1>3, <1>4 DEF RetryNext
  <1> QED
    BY <1>1, <1>5, RefsGrow DEF RetryNext, TypeOK

(* The actions that change the status of existing rows. *)
LEMMA CancelType ==
    ASSUME TypeOK, NEW scope, Cancel(scope), scope \subseteq Rows
    PROVE  TypeOK'
  <1> DEFINE S == {t \in scope : Live(t)}
  <1>1. UNCHANGED created /\ Finish(S, "cancelled", "none")
        /\ "cancelled" \in Status /\ "none" \in Reasons
    BY DEF Cancel, Status, Reasons
  <1>2. Rows' = Rows /\ task' \in [Rows' -> Row]
    <2> HIDE DEF S
    <2> QED BY <1>1, FinishType DEF TypeOK
  <1>3. owed' \subseteq Agents
    BY DEF Cancel, OwedFor, AgentsOf, TypeOK, Row
  <1> QED
    BY <1>2, <1>3 DEF Cancel, TypeOK

LEMMA CancelOnStatusType ==
    ASSUME TypeOK, NEW i \in Issues, CancelOnStatus(i)
    PROVE  TypeOK'
  <1> DEFINE S == LiveOn(i)
  <1>1. UNCHANGED created /\ Finish(S, "cancelled", "none") /\ S \subseteq Rows
        /\ "cancelled" \in Status /\ "none" \in Reasons
    BY DEF CancelOnStatus, Status, Reasons, LiveOn
  <1>2. Rows' = Rows /\ task' \in [Rows' -> Row]
    <2> HIDE DEF S
    <2> QED BY <1>1, FinishType DEF TypeOK
  <1>3. owed' \subseteq Agents
    BY <1>1 DEF CancelOnStatus, OwedFor, AgentsOf, TypeOK, Row
  <1>4. cancelling' \subseteq Issues
    BY DEF CancelOnStatus, TypeOK
  <1> QED
    BY <1>2, <1>3, <1>4 DEF CancelOnStatus, TypeOK

LEMMA SetIssueStatusType ==
    ASSUME TypeOK, NEW i \in Issues, NEW s \in UserStatuses, SetIssueStatus(i, s)
    PROVE  TypeOK'
  <1>1. issue' \in [Issues -> IssueStatus] /\ cancelling' \subseteq Issues
    BY ChoicesAssumption DEF SetIssueStatus, TypeOK
  <1> QED
    BY <1>1 DEF SetIssueStatus, TypeOK, Rows

LEMMA CancelOnArchiveType ==
    ASSUME TypeOK, NEW a \in Agents, CancelOnArchive(a)
    PROVE  TypeOK'
  <1> DEFINE S == {t \in Rows : task[t].agent = a /\ Live(t)}
  <1>1. UNCHANGED created /\ Finish(S, "cancelled", "none")
        /\ "cancelled" \in Status /\ "none" \in Reasons
    BY DEF CancelOnArchive, Status, Reasons
  <1>2. Rows' = Rows /\ task' \in [Rows' -> Row]
    <2> HIDE DEF S
    <2> QED BY <1>1, FinishType DEF TypeOK
  <1> QED
    BY <1>2 DEF CancelOnArchive, TypeOK

LEMMA FailTaskType ==
    ASSUME TypeOK, NEW t \in Rows, NEW reason \in DaemonReasons, FailTask(t, reason)
    PROVE  TypeOK'
  <1>1. UNCHANGED created /\ Finish({t}, "failed", reason)
        /\ "failed" \in Status /\ reason \in Reasons
    BY DEF FailTask, Status, Reasons
  <1>2. Rows' = Rows /\ task' \in [Rows' -> Row]
    BY <1>1, FinishType DEF TypeOK
  <1> QED
    BY <1>2 DEF FailTask, TypeOK

LEMMA RowStepType ==
    ASSUME TypeOK,
           \/ \E q \in Requests, t \in Rows : Reclaim(q, t)
           \/ \E t \in Rows : StartTask(t) \/ CompleteTask(t) \/ GrowOld(t)
    PROVE  TypeOK'
  <1> USE DEF TypeOK, Rows
  <1>1. ASSUME NEW q \in Requests, NEW t \in Rows, Reclaim(q, t)
        PROVE  TypeOK'
    <2>1. task[t] \in Row /\ 0 \in 0 .. 2
      OBVIOUS
    <2>2. [task[t] EXCEPT !.age = 0] \in Row
      BY <2>1 DEF Row
    <2>3. task' \in [Rows' -> Row] /\ known' \subseteq Rows'
      BY <1>1, <2>2 DEF Reclaim
    <2> QED
      BY <1>1, <2>3 DEF Reclaim
  <1>2. ASSUME NEW t \in Rows, StartTask(t)
        PROVE  TypeOK'
    <2>1. task[t] \in Row /\ 0 \in 0 .. 2 /\ "running" \in Status
      BY DEF Status
    <2>2. [task[t] EXCEPT !.status = "running", !.age = 0] \in Row
      BY <2>1 DEF Row
    <2>3. task' \in [Rows' -> Row]
      BY <1>2, <2>2 DEF StartTask
    <2> QED
      BY <1>2, <2>3 DEF StartTask
  <1>3. ASSUME NEW t \in Rows, CompleteTask(t)
        PROVE  TypeOK'
    <2>1. task[t] \in Row /\ 0 \in 0 .. 2 /\ "completed" \in Status
      BY DEF Status
    <2>2. PICK l \in {task[t].link} \cup (IF task[t].link = QuickCreate THEN Issues ELSE {}) :
             task' = [task EXCEPT ![t] = [@ EXCEPT !.status = "completed", !.age = 0, !.link = l]]
      BY <1>3 DEF CompleteTask
    <2>3. l \in Links
      BY <2>1, <2>2 DEF Links, Row
    <2>4. [task[t] EXCEPT !.status = "completed", !.age = 0, !.link = l] \in Row
      BY <2>1, <2>3 DEF Row
    <2>5. task' \in [Rows' -> Row] /\ owed' \subseteq Agents
      BY <1>3, <2>1, <2>2, <2>4 DEF CompleteTask, Row
    <2> QED
      BY <1>3, <2>5 DEF CompleteTask
  <1>4. ASSUME NEW t \in Rows, GrowOld(t)
        PROVE  TypeOK'
    <2> DEFINE n == IF task[t].status = "dispatched" THEN task[t].age + 1 ELSE 2
    <2>1. task[t] \in Row /\ n \in 0 .. 2
      BY <1>4 DEF GrowOld, Row
    <2>2. [task[t] EXCEPT !.age = n] \in Row
      BY <2>1 DEF Row
    <2>3. task' \in [Rows' -> Row]
      BY <1>4, <2>2 DEF GrowOld
    <2> QED
      BY <1>4, <2>3 DEF GrowOld
  <1> QED
    BY <1>1, <1>2, <1>3, <1>4

LEMMA ClaimStepType ==
    ASSUME TypeOK, NEW q \in Requests,
           \/ \E r \in Runtimes : ListCandidates(q, r)
           \/ \E a \in Agents : CountRunning(q, a) \/ SelectRow(q, a)
           \/ ClaimFails(q)
    PROVE  TypeOK'
  <1> DEFINE C == [pc : ClaimPC, runtime : Runtimes \cup {"none"}, cands : SUBSET Rows, row : Nat]
  <1>1. claim \in [Requests -> C] /\ claim[q] \in C
    BY DEF TypeOK
  <1>2. claim' \in [Requests -> C] /\ UNCHANGED created /\ UNCHANGED task
    <2>1. ASSUME NEW r \in Runtimes, ListCandidates(q, r)
          PROVE  claim' \in [Requests -> C]
      <3> DEFINE cands == {t \in Rows : task[t].runtime = r /\ QueuedRow(t)}
      <3>1. [pc |-> "loop", runtime |-> r, cands |-> cands, row |-> 0] \in C
        BY DEF ClaimPC
      <3> QED
        BY <1>1, <2>1, <3>1 DEF ListCandidates
    <2>2. ASSUME NEW a \in Agents, CountRunning(q, a)
          PROVE  claim' \in [Requests -> C]
      <3>1. [claim[q] EXCEPT !.pc = "counted"] \in C
        BY <1>1 DEF ClaimPC
      <3> QED
        BY <1>1, <2>2, <3>1, NextAgentType DEF CountRunning
    <2>3. ASSUME NEW a \in Agents, SelectRow(q, a)
          PROVE  claim' \in [Requests -> C]
      <3>1. ASSUME NEW t \in First(Claimable(a))
            PROVE  [claim[q] EXCEPT !.pc = "locked", !.row = t] \in C
        <4>1. t \in Nat
          BY DEF First, Claimable, Rows, TypeOK
        <4> QED
          BY <1>1, <4>1 DEF ClaimPC
      <3>2. \E c \in C : claim' = [claim EXCEPT ![q] = c]
        <4>1. CASE claim' = [claim EXCEPT ![q] = NextAgent(q, a)]
          BY <4>1, NextAgentType
        <4>2. ASSUME NEW t \in First(Claimable(a)),
                     claim' = [claim EXCEPT ![q] = [@ EXCEPT !.pc = "locked", !.row = t]]
              PROVE  \E c \in C : claim' = [claim EXCEPT ![q] = c]
          BY <3>1, <4>2
        <4> QED
          BY <2>3, <4>1, <4>2 DEF SelectRow
      <3> QED
        BY <1>1, <3>2
    <2>4. CASE ClaimFails(q)
      BY <1>1, <2>4, IdleTypes DEF ClaimFails
    <2> QED
      BY <2>1, <2>2, <2>3, <2>4 DEF ListCandidates, CountRunning, SelectRow, ClaimFails
  <1> QED
    BY <1>2 DEF TypeOK, Rows, ListCandidates, CountRunning, SelectRow, ClaimFails

(* Claims commit rows that exist. *)
LEMMA CommitClaimType ==
    ASSUME TypeOK, LockedRowFree, NEW q \in Requests, CommitClaim(q)
    PROVE  TypeOK'
  <1> DEFINE t == claim[q].row
  <1>1. t \in Rows /\ task[t] \in Row
    BY DEF CommitClaim, LockedRowFree, TypeOK
  <1>2. [task[t] EXCEPT !.status = "dispatched", !.age = 0] \in Row
    <2>1. 0 \in 0 .. 2 /\ "dispatched" \in Status
      BY DEF Status
    <2> QED
      BY <1>1, <2>1 DEF Row
  <1>3. task' \in [Rows -> Row] /\ UNCHANGED created
    BY <1>2 DEF CommitClaim, TypeOK
  <1>4. owed' \subseteq Agents /\ known' \subseteq Rows
    BY <1>1 DEF CommitClaim, TypeOK, Row
  <1>5. claim' \in [Requests -> [pc : ClaimPC, runtime : Runtimes \cup {"none"},
                                cands : SUBSET Rows, row : Nat]]
    BY IdleTypes, NextAgentType DEF CommitClaim, TypeOK
  <1> QED
    BY <1>3, <1>4, <1>5 DEF CommitClaim, TypeOK, Rows

(* The actions that touch neither rows nor claims. *)
LEMMA UserStepType ==
    ASSUME TypeOK,
           \/ \E a \in Agents : ArchiveAgent(a) \/ RestoreAgent(a) \/ Reconcile(a)
           \/ \E a \in Agents, r \in Runtimes, l \in Triggers : Admit(a, r, l)
           \/ \E r \in Runtimes : Heartbeat(r) \/ Deregister(r)
    PROVE  TypeOK'
  <1> USE DEF TypeOK, Rows
  <1>1. ASSUME NEW a \in Agents, ArchiveAgent(a) \/ RestoreAgent(a)
        PROVE  TypeOK'
    BY <1>1 DEF ArchiveAgent, RestoreAgent
  <1>2. ASSUME NEW a \in Agents, Reconcile(a)
        PROVE  TypeOK'
    BY <1>2 DEF Reconcile
  <1>3. ASSUME NEW a \in Agents, NEW r \in Runtimes, NEW l \in Triggers, Admit(a, r, l)
        PROVE  TypeOK'
    BY <1>3, ChoicesAssumption DEF Admit
  <1>4. ASSUME NEW r \in Runtimes, Heartbeat(r) \/ Deregister(r)
        PROVE  TypeOK'
    BY <1>4 DEF Heartbeat, Deregister
  <1> QED
    BY <1>1, <1>2, <1>3, <1>4

LEMMA CrashType ==
    ASSUME TypeOK, Crash
    PROVE  TypeOK'
  <1>1. Rows' = Rows
    BY DEF Crash, Rows
  <1>2. agent' \in [Agents -> {"active", "archiving", "archived"}]
    BY DEF Crash, TypeOK
  <1>3. claim' \in [Requests -> [pc : ClaimPC, runtime : Runtimes \cup {"none"},
                                cands : SUBSET Rows, row : Nat]]
    BY IdleTypes DEF Crash
  <1>4. work' \in [Workers -> [pc : WorkerPC, todo : SUBSET Rows, cur : Nat,
                              agents : SUBSET Agents, processed : SUBSET Links,
                              retried : SUBSET Links]]
    BY IdleTypes DEF Crash
  <1>5. crashes' \in Nat
    BY DEF Crash, TypeOK
  <1> QED
    BY <1>1, <1>2, <1>3, <1>4, <1>5 DEF Crash, TypeOK

LEMMA SweepStepType ==
    ASSUME TypeOK, NEW w \in Workers,
           \/ \E stale \in SUBSET Runtimes : MarkOffline(w, stale)
           \/ \E r \in Runtimes : RecoverOrphans(w, r)
           \/ FailOffline(w) \/ NothingOffline(w) \/ FailStale(w) \/ ExpireQueued(w)
           \/ CheckIssue(w) \/ ResetIssue(w)
    PROVE  TypeOK'
  <1> DEFINE W == [pc : WorkerPC, todo : SUBSET Rows, cur : Nat, agents : SUBSET Agents,
                   processed : SUBSET Links, retried : SUBSET Links]
  <1>1. work \in [Workers -> W] /\ work[w] \in W
    BY DEF TypeOK
  <1>2. /\ "runtime_offline" \in Reasons /\ "timeout" \in Reasons
        /\ "queued_expired" \in Reasons /\ "runtime_recovery" \in Reasons
    BY DEF Reasons, retryableReasons
  <1>3. ASSUME NEW stale \in SUBSET Runtimes, MarkOffline(w, stale)
        PROVE  TypeOK'
    <2>1. [work[w] EXCEPT !.pc = "offline"] \in W
      BY <1>1 DEF WorkerPC
    <2>2. work' \in [Workers -> W] /\ online' \subseteq Runtimes
      BY <1>1, <1>3, <2>1 DEF MarkOffline, TypeOK
    <2> QED
      BY <1>3, <2>2 DEF MarkOffline, TypeOK, Rows
  <1>4. ASSUME NothingOffline(w)
        PROVE  TypeOK'
    <2>1. work' \in [Workers -> W]
      BY <1>1, <1>4, IdleTypes DEF NothingOffline
    <2> QED
      BY <1>4, <2>1 DEF NothingOffline, TypeOK, Rows
  <1>5. ASSUME NEW r \in Runtimes, RecoverOrphans(w, r)
        PROVE  TypeOK'
    BY <1>2, <1>5, BatchType DEF RecoverOrphans
  <1>6. ASSUME FailOffline(w) \/ FailStale(w) \/ ExpireQueued(w)
        PROVE  TypeOK'
    BY <1>2, <1>6, BatchType DEF FailOffline, FailStale, ExpireQueued, OfflineRows
  <1>7. ASSUME CheckIssue(w)
        PROVE  TypeOK'
    <2> DEFINE i == task[work[w].cur].link
               done == work[w].processed
    <2>1. CASE \/ NextFailed(w, done)
               \/ i \in Issues /\ NextFailed(w, done \cup {i})
      <3>1. done \in SUBSET Links /\ (i \in Issues => done \cup {i} \in SUBSET Links)
        BY <1>1 DEF Links
      <3>2. work' \in [Workers -> W] /\ owed' \subseteq Agents
        BY <2>1, <3>1, NextFailedType
      <3> QED
        BY <1>7, <3>2 DEF CheckIssue, TypeOK, Rows
    <2>2. CASE /\ i \in Issues /\ UNCHANGED owed
               /\ work' = [work EXCEPT ![w] =
                              [@ EXCEPT !.pc = "reset", !.processed = work[w].processed \cup {i}]]
      <3>1. [work[w] EXCEPT !.pc = "reset", !.processed = work[w].processed \cup {i}] \in W
        BY <1>1, <2>2 DEF WorkerPC, Links
      <3>2. work' \in [Workers -> W]
        BY <1>1, <2>2, <3>1
      <3> QED
        BY <1>7, <2>2, <3>2 DEF CheckIssue, TypeOK, Rows
    <2> QED
      BY <1>7, <2>1, <2>2 DEF CheckIssue
  <1>8. ASSUME ResetIssue(w)
        PROVE  TypeOK'
    <2>1. work' \in [Workers -> W] /\ owed' \subseteq Agents
      BY <1>1, <1>8, NextFailedType DEF ResetIssue
    <2>2. issue' \in [Issues -> IssueStatus]
      BY <1>8 DEF ResetIssue, TypeOK, IssueStatus
    <2> QED
      BY <1>8, <2>1, <2>2 DEF ResetIssue, TypeOK, Rows
  <1> QED
    BY <1>3, <1>4, <1>5, <1>6, <1>7, <1>8

-----------------------------------------------------------------------------
(* Lanes: the unique index, the claim's guard and its row lock together keep
   every (issue, agent) lane serial. None of the three is inductive alone: a
   claim commits on a guard it evaluated earlier, which only stays true because
   the index admits no second pending row and the lock keeps this one queued. *)
Lanes == OnePendingPerPair /\ IssueSerialization /\ LockedRowFree

(* A step that makes no row pending, active or locked that was not. *)
LEMMA QuietStep ==
    ASSUME TypeOK, Lanes, Rows' = Rows,
           \A t \in Rows :
              /\ task'[t].agent = task[t].agent
              /\ Pending(t)' => Pending(t) /\ task'[t].link = task[t].link
              /\ Active(t)' => Active(t) /\ task'[t].link = task[t].link,
           \A q \in Requests : claim'[q].pc = "locked" =>
              claim'[q] = claim[q] /\ QueuedRow(claim[q].row)'
    PROVE  Lanes'
  <1>1. OnePendingPerPair' /\ IssueSerialization'
    BY DEF Lanes, OnePendingPerPair, IssueSerialization
  <1>2. ASSUME NEW q \in Requests, claim'[q].pc = "locked"
        PROVE  LET t == claim'[q].row IN
               /\ t \in Rows' /\ task'[t].status = "queued"
               /\ \A p \in Requests : claim'[p].pc = "locked" /\ claim'[p].row = t => p = q
               /\ \A u \in Rows' :
                     (task'[u].agent = task'[t].agent /\ task'[u].link = task'[t].link
                        /\ task'[t].link \in Issues) => ~ Active(u)'
    <2>1. claim'[q] = claim[q] /\ QueuedRow(claim[q].row)' /\ claim[q].pc = "locked"
      BY <1>2
    <2>2. /\ claim[q].row \in Rows
          /\ task'[claim[q].row].agent = task[claim[q].row].agent
          /\ task'[claim[q].row].link = task[claim[q].row].link
      BY <2>1 DEF Lanes, LockedRowFree, QueuedRow, Pending
    <2>3. \A p \in Requests : claim'[p].pc = "locked" /\ claim'[p].row = claim[q].row => p = q
      BY <2>1 DEF Lanes, LockedRowFree
    <2>4. \A u \in Rows :
             (task'[u].agent = task[claim[q].row].agent /\ task'[u].link = task[claim[q].row].link
                /\ task[claim[q].row].link \in Issues) => ~ Active(u)'
      BY <2>1 DEF Lanes, LockedRowFree
    <2> QED
      BY <2>1, <2>2, <2>3, <2>4 DEF QueuedRow
  <1> QED
    BY <1>1, <1>2 DEF Lanes, LockedRowFree, QueuedRow, Active

(* An insert the unique index admits. *)
LEMMA InsertStep ==
    ASSUME TypeOK, Lanes, NEW row \in Row, row.status = "queued",
           UniqueFree(row.agent, row.link), Insert(row), UNCHANGED claim
    PROVE  Lanes'
  <1> DEFINE n == created + 1
  <1>1. /\ Rows' = Rows \cup {n} /\ n \notin Rows /\ task'[n] = row
        /\ \A t \in Rows : task'[t] = task[t]
    BY InsertType DEF TypeOK
  <1> HIDE DEF n
  <1>2. OnePendingPerPair'
    <2>1. \A t \in Rows : task'[t].agent = row.agent /\ task'[t].link = row.link
                            /\ row.link \in Issues => ~ Pending(t)'
      BY <1>1 DEF UniqueFree, Pending
    <2> QED
      BY <1>1, <2>1 DEF Lanes, OnePendingPerPair, Pending
  <1>3. IssueSerialization' /\ LockedRowFree'
    BY <1>1 DEF Lanes, IssueSerialization, LockedRowFree, Active, QueuedRow
  <1> QED
    BY <1>2, <1>3 DEF Lanes

LEMMA RetryStep ==
    ASSUME TypeOK, Lanes, NEW t \in Rows, Retry(t), UNCHANGED claim
    PROVE  Lanes'
  <1>1. CASE Retries(t)
    <2> DEFINE row == NewRow(task[t].agent, task[t].runtime, task[t].link, task[t].attempt + 1, t)
    <2>1. /\ task[t].agent \in Agents /\ task[t].runtime \in Runtimes
          /\ task[t].link \in Links /\ task[t].attempt + 1 \in Nat /\ t \in Nat
      BY DEF TypeOK, Row, Rows
    <2>2. /\ row \in Row /\ row.status = "queued"
          /\ row.agent = task[t].agent /\ row.link = task[t].link
      BY <2>1, NewRowType DEF NewRow
    <2>3. UniqueFree(row.agent, row.link) /\ Insert(row)
      BY <1>1, <2>2 DEF Retries, Retry
    <2> QED
      BY <2>2, <2>3, InsertStep
  <1>2. CASE ~ Retries(t)
    <2>1. UNCHANGED <<created, task>>
      BY <1>2 DEF Retry
    <2> QED
      BY <2>1 DEF Lanes, OnePendingPerPair, IssueSerialization, LockedRowFree, Rows, Pending,
                  Active, QueuedRow
  <1> QED
    BY <1>1, <1>2

(* Rows that are not locked leave the live set. *)
LEMMA FinishStep ==
    ASSUME TypeOK, Lanes, NEW S, S \cap Locked = {},
           NEW st \in Terminal, NEW reason \in Reasons, Finish(S, st, reason),
           UNCHANGED created, UNCHANGED claim
    PROVE  Lanes'
  <1>1. st \in Status /\ st \notin {"queued", "dispatched", "running"}
    BY DEF Terminal, Status
  <1>2. /\ Rows' = Rows
        /\ \A t \in Rows :
              /\ task'[t].agent = task[t].agent /\ task'[t].link = task[t].link
              /\ t \in S => task'[t].status = st
              /\ t \notin S => task'[t] = task[t]
    BY <1>1, FinishType DEF TypeOK
  <1>3. \A t \in Rows : (Pending(t)' => Pending(t)) /\ (Active(t)' => Active(t))
    BY <1>1, <1>2 DEF Pending, Active
  <1>4. ASSUME NEW q \in Requests, claim'[q].pc = "locked"
        PROVE  claim'[q] = claim[q] /\ QueuedRow(claim[q].row)'
    <2>1. claim[q].row \in Locked /\ claim[q].row \in Rows /\ QueuedRow(claim[q].row)
      BY <1>4 DEF Locked, Lanes, LockedRowFree
    <2> QED
      BY <1>2, <2>1 DEF QueuedRow
  <1> QED
    BY <1>2, <1>3, <1>4, QuietStep

(* A claim that selects a row on its snapshot, and one that commits. *)
LEMMA SelectStep ==
    ASSUME TypeOK, Lanes, NEW q \in Requests, NEW a \in Agents, SelectRow(q, a)
    PROVE  Lanes'
  <1>1. UNCHANGED <<created, task>> /\ Rows' = Rows
    BY DEF SelectRow, Rows
  <1>2. OnePendingPerPair' /\ IssueSerialization'
    BY <1>1 DEF Lanes, OnePendingPerPair, IssueSerialization, Pending, Active
  <1>3. CASE claim' = [claim EXCEPT ![q] = NextAgent(q, a)]
    <2>1. \A p \in Requests : claim'[p].pc = "locked" => claim'[p] = claim[p]
      BY <1>3 DEF TypeOK, NextAgent, IdleClaim
    <2> QED
      BY <1>1, <1>2, <2>1 DEF Lanes, LockedRowFree, QueuedRow, Active
  <1>4. ASSUME NEW t \in First(Claimable(a)),
               claim' = [claim EXCEPT ![q] = [@ EXCEPT !.pc = "locked", !.row = t]]
        PROVE  Lanes'
    <2>1. /\ t \in Rows /\ QueuedRow(t) /\ ~ LaneBusy(t)
          /\ \A p \in Requests : claim[p].pc = "locked" => claim[p].row # t
      BY DEF First, Claimable, Locked
    <2>2. claim'[q].row = t /\ \A p \in Requests \ {q} : claim'[p] = claim[p]
      BY <1>4 DEF TypeOK
    <2>3. \A u \in Rows : (task[u].agent = task[t].agent /\ task[u].link = task[t].link
                              /\ task[t].link \in Issues) => ~ Active(u)
      BY <2>1, LinksAssumption DEF LaneBusy
    <2>4. ASSUME NEW p \in Requests, claim'[p].pc = "locked"
          PROVE  LET u == claim'[p].row IN
                 /\ u \in Rows /\ QueuedRow(u)
                 /\ \A o \in Requests : claim'[o].pc = "locked" /\ claim'[o].row = u => o = p
                 /\ \A v \in Rows : (task[v].agent = task[u].agent /\ task[v].link = task[u].link
                                       /\ task[u].link \in Issues) => ~ Active(v)
      <3>1. CASE p = q
        BY <2>1, <2>2, <2>3, <3>1
      <3>2. CASE p # q
        <4>1. claim'[p] = claim[p] /\ claim[p].row # t
          BY <2>1, <2>2, <2>4, <3>2
        <4> QED
          BY <2>2, <2>4, <4>1 DEF Lanes, LockedRowFree
      <3> QED
        BY <3>1, <3>2
    <2> QED
      BY <1>1, <1>2, <2>4 DEF Lanes, LockedRowFree, QueuedRow, Active
  <1> QED
    BY <1>3, <1>4 DEF SelectRow

LEMMA CommitStep ==
    ASSUME TypeOK, Lanes, NEW q \in Requests, CommitClaim(q)
    PROVE  Lanes'
  <1> DEFINE t == claim[q].row
  <1>1. /\ t \in Rows /\ QueuedRow(t) /\ claim[q].pc = "locked"
        /\ \A p \in Requests : claim[p].pc = "locked" /\ claim[p].row = t => p = q
        /\ \A u \in Rows : (task[u].agent = task[t].agent /\ task[u].link = task[t].link
                              /\ task[t].link \in Issues) => ~ Active(u)
    BY DEF CommitClaim, Lanes, LockedRowFree
  <1>2. Rows' = Rows
    BY DEF CommitClaim, Rows
  <1>3. /\ task'[t].status = "dispatched"
        /\ \A u \in Rows : task'[u].agent = task[u].agent /\ task'[u].link = task[u].link
        /\ \A u \in Rows \ {t} : task'[u] = task[u]
    BY <1>1 DEF CommitClaim, TypeOK, Row
  <1>4. claim'[q].pc # "locked" /\ \A p \in Requests \ {q} : claim'[p] = claim[p]
    <2>1. PICK c \in {IdleClaim, NextAgent(q, task[t].agent)} : claim' = [claim EXCEPT ![q] = c]
      BY DEF CommitClaim
    <2>2. claim[q] \in [pc : ClaimPC, runtime : Runtimes \cup {"none"}, cands : SUBSET Rows, row : Nat]
      BY DEF TypeOK
    <2>3. \A a : NextAgent(q, a).pc # "locked"
      BY <2>2 DEF NextAgent, IdleClaim
    <2>4. IdleClaim.pc # "locked"
      BY DEF IdleClaim
    <2> QED
      BY <2>1, <2>3, <2>4 DEF TypeOK
  <1> HIDE DEF t
  <1>5. OnePendingPerPair'
    BY <1>1, <1>2, <1>3 DEF Lanes, OnePendingPerPair, Pending, QueuedRow
  <1>6. IssueSerialization'
    BY <1>1, <1>2, <1>3 DEF Lanes, IssueSerialization, Active
  <1>7. ASSUME NEW p \in Requests, claim'[p].pc = "locked"
        PROVE  LET u == claim[p].row IN
               /\ claim'[p] = claim[p] /\ u \in Rows /\ task'[u].status = "queued"
               /\ \A o \in Requests : claim'[o].pc = "locked" /\ claim'[o].row = u => o = p
               /\ \A v \in Rows : (task[v].agent = task[u].agent /\ task[v].link = task[u].link
                                     /\ task[u].link \in Issues) => ~ Active(v)'
    <2> DEFINE u == claim[p].row
    <2>1. p # q /\ claim'[p] = claim[p]
      BY <1>4, <1>7
    <2>2. /\ u \in Rows /\ QueuedRow(u) /\ u # t
          /\ \A o \in Requests : claim[o].pc = "locked" /\ claim[o].row = u => o = p
          /\ \A v \in Rows : (task[v].agent = task[u].agent /\ task[v].link = task[u].link
                                /\ task[u].link \in Issues) => ~ Active(v)
      BY <1>1, <1>7, <2>1 DEF Lanes, LockedRowFree
    <2> HIDE DEF u
    <2>3. task'[u].status = "queued"
      BY <1>3, <2>2 DEF QueuedRow
    <2>4. \A o \in Requests : claim'[o].pc = "locked" /\ claim'[o].row = u => o = p
      BY <1>4, <2>2
    <2>5. task[t].agent = task[u].agent /\ task[t].link = task[u].link => task[u].link \notin Issues
      BY <1>1, <2>2 DEF Lanes, OnePendingPerPair, Pending, QueuedRow
    <2>6. \A v \in Rows : (task[v].agent = task[u].agent /\ task[v].link = task[u].link
                            /\ task[u].link \in Issues) => ~ Active(v)'
      BY <1>3, <2>2, <2>5 DEF Active
    <2> QED
      BY <2>1, <2>2, <2>3, <2>4, <2>6 DEF u
  <1>8. LockedRowFree'
    <2>1. ASSUME NEW p \in Requests, claim'[p].pc = "locked"
          PROVE  LET u == claim'[p].row IN
                 /\ u \in Rows' /\ task'[u].status = "queued"
                 /\ \A o \in Requests : claim'[o].pc = "locked" /\ claim'[o].row = u => o = p
                 /\ \A v \in Rows' : (task'[v].agent = task'[u].agent
                                         /\ task'[v].link = task'[u].link
                                         /\ task'[u].link \in Issues) => ~ Active(v)'
      <3>1. claim'[p] = claim[p] /\ claim[p].row \in Rows /\ task'[claim[p].row].status = "queued"
        BY <1>7, <2>1
      <3>2. \A o \in Requests : claim'[o].pc = "locked" /\ claim'[o].row = claim[p].row => o = p
        BY <1>7, <2>1
      <3>3. \A v \in Rows : (task[v].agent = task[claim[p].row].agent
                              /\ task[v].link = task[claim[p].row].link
                              /\ task[claim[p].row].link \in Issues) => ~ Active(v)'
        BY <1>7, <2>1
      <3> QED
        BY <1>2, <1>3, <3>1, <3>2, <3>3
    <2> QED
      BY <2>1 DEF LockedRowFree, QueuedRow, Active
  <1> QED
    BY <1>5, <1>6, <1>8 DEF Lanes

-----------------------------------------------------------------------------
(* Every step preserves the types and the lanes. *)
IInv == TypeOK /\ Lanes

LEMMA EnqueueInv == ASSUME IInv, Enqueue PROVE IInv'
  <1> USE DEF IInv
  <1>1. ASSUME NEW a \in Agents, NEW r \in Runtimes, NEW l \in Triggers, Admit(a, r, l)
        PROVE  IInv'
    <2>1. TypeOK'
      BY <1>1, UserStepType
    <2>2. Lanes'
      BY <1>1 DEF Admit, Lanes, OnePendingPerPair, IssueSerialization, LockedRowFree, Rows,
                  Pending, Active, QueuedRow
    <2> QED
      BY <2>1, <2>2
  <1>2. ASSUME NEW e \in admitted, InsertAdmitted(e)
        PROVE  IInv'
    <2>1. TypeOK'
      BY <1>2, InsertAdmittedType
    <2>2. CASE UniqueFree(e.agent, e.link)
      <3> DEFINE row == NewRow(e.agent, e.runtime, e.link, 1, 0)
      <3>1. row \in Row
        BY NewRowType DEF TypeOK
      <3>2. row.status = "queued" /\ row.agent = e.agent /\ row.link = e.link
        BY DEF NewRow
      <3>3. UniqueFree(row.agent, row.link) /\ Insert(row) /\ UNCHANGED claim
        BY <1>2, <2>2, <3>2 DEF InsertAdmitted
      <3> QED
        BY <2>1, <3>1, <3>2, <3>3, InsertStep
    <2>3. CASE ~ UniqueFree(e.agent, e.link)
      <3>1. UNCHANGED <<created, task, claim>>
        BY <1>2, <2>3 DEF InsertAdmitted
      <3>2. Lanes'
        BY <3>1 DEF Lanes, OnePendingPerPair, IssueSerialization, LockedRowFree, Rows,
                    Pending, Active, QueuedRow
      <3> QED
        BY <2>1, <3>2
    <2> QED
      BY <2>2, <2>3
  <1> QED
    BY <1>1, <1>2 DEF Enqueue

LEMMA ClaimInv == ASSUME IInv, Claim PROVE IInv'
  <1> USE DEF IInv
  <1>1. PICK q \in Requests :
           \/ \E t \in Rows : Reclaim(q, t)
           \/ \E r \in Runtimes : ListCandidates(q, r)
           \/ \E a \in Agents : CountRunning(q, a) \/ SelectRow(q, a)
           \/ CommitClaim(q)
           \/ ClaimFails(q)
    BY DEF Claim
  <1>2. ASSUME NEW t \in Rows, Reclaim(q, t)
        PROVE  IInv'
    <2>1. TypeOK'
      BY <1>2, RowStepType
    <2>2. /\ Rows' = Rows /\ claim' = claim
          /\ \A u \in Rows : /\ task'[u].agent = task[u].agent /\ task'[u].link = task[u].link
                             /\ task'[u].status = task[u].status
      BY <1>2 DEF Reclaim, Rows, TypeOK, Row
    <2>3. Lanes'
      BY <2>2 DEF Lanes, OnePendingPerPair, IssueSerialization, LockedRowFree,
                  Pending, Active, QueuedRow
    <2> QED
      BY <2>1, <2>3
  <1>3. ASSUME NEW r \in Runtimes, ListCandidates(q, r)
        PROVE  IInv'
    <2>1. TypeOK'
      BY <1>3, ClaimStepType
    <2>2. Rows' = Rows /\ task' = task
          /\ \A p \in Requests : claim'[p].pc = "locked" => claim'[p] = claim[p]
      BY <1>3 DEF ListCandidates, Rows, TypeOK
    <2>3. Lanes'
      BY <2>2 DEF Lanes, OnePendingPerPair, IssueSerialization, LockedRowFree,
                  Pending, Active, QueuedRow
    <2> QED
      BY <2>1, <2>3
  <1>4. ASSUME NEW a \in Agents, CountRunning(q, a)
        PROVE  IInv'
    <2>1. TypeOK'
      BY <1>4, ClaimStepType
    <2>2. Rows' = Rows /\ task' = task
          /\ \A p \in Requests : claim'[p].pc = "locked" => claim'[p] = claim[p]
      BY <1>4 DEF CountRunning, NextAgent, IdleClaim, Rows, TypeOK
    <2>3. Lanes'
      BY <2>2 DEF Lanes, OnePendingPerPair, IssueSerialization, LockedRowFree,
                  Pending, Active, QueuedRow
    <2> QED
      BY <2>1, <2>3
  <1>5. ASSUME NEW a \in Agents, SelectRow(q, a)
        PROVE  IInv'
    BY <1>5, ClaimStepType, SelectStep
  <1>6. ASSUME CommitClaim(q)
        PROVE  IInv'
    BY <1>6, CommitClaimType, CommitStep DEF Lanes
  <1>7. ASSUME ClaimFails(q)
        PROVE  IInv'
    <2>1. TypeOK'
      BY <1>7, ClaimStepType
    <2>2. Rows' = Rows /\ task' = task
          /\ \A p \in Requests : claim'[p].pc = "locked" => claim'[p] = claim[p]
      BY <1>7 DEF ClaimFails, IdleClaim, Rows, TypeOK
    <2>3. Lanes'
      BY <2>2 DEF Lanes, OnePendingPerPair, IssueSerialization, LockedRowFree,
                  Pending, Active, QueuedRow
    <2> QED
      BY <2>1, <2>3
  <1> QED
    BY <1>1, <1>2, <1>3, <1>4, <1>5, <1>6, <1>7

LEMMA DaemonInv == ASSUME IInv, Daemon PROVE IInv'
  <1> USE DEF IInv
  <1>1. ASSUME NEW t \in Rows, StartTask(t) \/ CompleteTask(t)
        PROVE  IInv'
    <2>1. TypeOK'
      BY <1>1, RowStepType
    <2>2. /\ Rows' = Rows /\ claim' = claim /\ Active(t) /\ ~ QueuedRow(t)
          /\ \A u \in Rows \ {t} : task'[u] = task[u]
          /\ task'[t].agent = task[t].agent
          /\ \/ task'[t].status = "running" /\ task'[t].link = task[t].link
             \/ task'[t].status = "completed"
      <3>1. CASE StartTask(t)
        <4>1. task' = [task EXCEPT ![t] = [@ EXCEPT !.status = "running", !.age = 0]]
          BY <3>1 DEF StartTask
        <4>2. task[t] \in Row /\ task \in [Rows -> Row]
          BY DEF TypeOK
        <4>3. /\ \A u \in Rows \ {t} : task'[u] = task[u]
              /\ task'[t].agent = task[t].agent /\ task'[t].link = task[t].link
              /\ task'[t].status = "running"
          BY <4>1, <4>2 DEF Row
        <4> QED
          BY <3>1, <4>3 DEF StartTask, Rows, Active, QueuedRow
      <3>2. CASE CompleteTask(t)
        <4>1. PICK l \in {task[t].link} \cup (IF task[t].link = QuickCreate THEN Issues ELSE {}) :
                task' = [task EXCEPT ![t] = [@ EXCEPT !.status = "completed", !.age = 0, !.link = l]]
          BY <3>2 DEF CompleteTask
        <4>2. task[t] \in Row /\ task \in [Rows -> Row]
          BY DEF TypeOK
        <4>3. /\ \A u \in Rows \ {t} : task'[u] = task[u]
              /\ task'[t].agent = task[t].agent
              /\ task'[t].status = "completed"
          BY <4>1, <4>2 DEF Row
        <4> QED
          BY <3>2, <4>3 DEF CompleteTask, CanComplete, Rows, Active, QueuedRow
      <3> QED
        BY <1>1, <3>1, <3>2
    <2>3. \A u \in Rows :
             /\ task'[u].agent = task[u].agent
             /\ Pending(u)' => Pending(u) /\ task'[u].link = task[u].link
             /\ Active(u)' => Active(u) /\ task'[u].link = task[u].link
      BY <2>2 DEF Pending, Active
    <2>4. ASSUME NEW q \in Requests, claim'[q].pc = "locked"
          PROVE  claim'[q] = claim[q] /\ QueuedRow(claim[q].row)'
      BY <2>2, <2>4 DEF Lanes, LockedRowFree, QueuedRow
    <2> QED
      BY <2>1, <2>2, <2>3, <2>4, QuietStep
  <1>2. ASSUME NEW t \in Rows, NEW reason \in DaemonReasons, FailTask(t, reason)
        PROVE  IInv'
    <2>1. TypeOK'
      BY <1>2, FailTaskType
    <2>2. /\ {t} \cap Locked = {} /\ "failed" \in Terminal /\ reason \in Reasons
          /\ UNCHANGED created /\ UNCHANGED claim /\ Finish({t}, "failed", reason)
      BY <1>2 DEF FailTask, Terminal, Reasons, Locked, Lanes, LockedRowFree, Active, QueuedRow
    <2>3. Lanes'
      BY <2>2, FinishStep
    <2> QED
      BY <2>1, <2>3
  <1>3. ASSUME NEW t \in Rows, RetryAfterFail(t)
        PROVE  IInv'
    <2>1. Retry(t) /\ UNCHANGED claim
      BY <1>3 DEF RetryAfterFail
    <2> QED
      BY <1>3, <2>1, RetryAfterFailType, RetryStep
  <1> QED
    BY <1>1, <1>2, <1>3 DEF Daemon

LEMMA UserInv == ASSUME IInv, User PROVE IInv'
  <1> USE DEF IInv
  <1>1. ASSUME NEW scope \in CancelScope, Cancel(scope)
        PROVE  IInv'
    <2> DEFINE S == {t \in scope : Live(t)}
    <2>1. scope \subseteq Rows
      BY DEF CancelScope
    <2>2. /\ S \cap Locked = {} /\ "cancelled" \in Terminal /\ "none" \in Reasons
          /\ Finish(S, "cancelled", "none") /\ UNCHANGED created /\ UNCHANGED claim
      BY <1>1 DEF Cancel, Terminal, Reasons
    <2> HIDE DEF S
    <2> QED
      BY <1>1, <2>1, <2>2, CancelType, FinishStep
  <1>2. ASSUME NEW a \in Agents, CancelOnArchive(a)
        PROVE  IInv'
    <2> DEFINE S == {t \in Rows : task[t].agent = a /\ Live(t)}
    <2>1. /\ S \cap Locked = {} /\ "cancelled" \in Terminal /\ "none" \in Reasons
          /\ Finish(S, "cancelled", "none") /\ UNCHANGED created /\ UNCHANGED claim
      BY <1>2 DEF CancelOnArchive, Terminal, Reasons
    <2> HIDE DEF S
    <2> QED
      BY <1>2, <2>1, CancelOnArchiveType, FinishStep
  <1>3. ASSUME NEW i \in Issues, CancelOnStatus(i)
        PROVE  IInv'
    <2>1. /\ LiveOn(i) \cap Locked = {} /\ "cancelled" \in Terminal /\ "none" \in Reasons
          /\ Finish(LiveOn(i), "cancelled", "none") /\ UNCHANGED created /\ UNCHANGED claim
      BY <1>3 DEF CancelOnStatus, Terminal, Reasons
    <2> QED
      BY <1>3, <2>1, CancelOnStatusType, FinishStep
  <1>4. ASSUME \/ \E a \in Agents : ArchiveAgent(a) \/ RestoreAgent(a)
               \/ \E i \in Issues, s \in UserStatuses : SetIssueStatus(i, s)
        PROVE  IInv'
    <2>1. UNCHANGED <<created, task, claim>>
      BY <1>4 DEF ArchiveAgent, RestoreAgent, SetIssueStatus
    <2>2. Lanes'
      BY <2>1 DEF Lanes, OnePendingPerPair, IssueSerialization, LockedRowFree, Rows,
                  Pending, Active, QueuedRow
    <2> QED
      BY <1>4, <2>2, UserStepType, SetIssueStatusType
  <1> QED
    BY <1>1, <1>2, <1>3, <1>4 DEF User

(* A bulk failure of rows no claim has locked. *)
LEMMA BatchStep ==
    ASSUME IInv, NEW w \in Workers, NEW S \in SUBSET Rows, NEW reason \in Reasons,
           S \cap Locked = {}, Batch(w, S, reason)
    PROVE  IInv'
  <1>1. /\ "failed" \in Terminal /\ Finish(S, "failed", reason)
        /\ UNCHANGED created /\ UNCHANGED claim
    BY DEF Batch, Terminal
  <1> QED
    BY <1>1, BatchType, FinishStep DEF IInv

LEMMA SweepInv == ASSUME IInv, Sweep PROVE IInv'
  <1>1. PICK w \in Workers :
           \/ \E stale \in SUBSET Runtimes : MarkOffline(w, stale)
           \/ \E r \in Runtimes : RecoverOrphans(w, r)
           \/ FailOffline(w) \/ NothingOffline(w)
           \/ FailStale(w) \/ ExpireQueued(w)
           \/ \E t \in Rows : RetryNext(w, t)
           \/ CheckIssue(w) \/ ResetIssue(w)
    BY DEF Sweep
  <1>2. \A t \in Locked : t \in Rows /\ QueuedRow(t)
    BY DEF Locked, IInv, Lanes, LockedRowFree
  <1>3. /\ "runtime_offline" \in Reasons /\ "timeout" \in Reasons
        /\ "queued_expired" \in Reasons /\ "runtime_recovery" \in Reasons
    BY DEF Reasons, retryableReasons
  <1>4. ASSUME NEW r \in Runtimes, RecoverOrphans(w, r)
        PROVE  IInv'
    <2> DEFINE S == {t \in Rows : Active(t) /\ task[t].runtime = r}
    <2>1. S \cap Locked = {} /\ S \in SUBSET Rows
      BY <1>2 DEF Active, QueuedRow
    <2>2. Batch(w, S, "runtime_recovery")
      BY <1>4 DEF RecoverOrphans
    <2> HIDE DEF S
    <2> QED
      BY <1>3, <2>1, <2>2, BatchStep
  <1>5. ASSUME FailOffline(w)
        PROVE  IInv'
    <2>1. OfflineRows \cap Locked = {} /\ OfflineRows \in SUBSET Rows
      BY <1>2 DEF OfflineRows, Active, QueuedRow
    <2> QED
      BY <1>3, <1>5, <2>1, BatchStep DEF FailOffline
  <1>6. ASSUME FailStale(w)
        PROVE  IInv'
    <2> DEFINE S == {t \in Rows : Overdue(t)}
    <2>1. S \cap Locked = {} /\ S \in SUBSET Rows
      BY <1>2 DEF Overdue, Active, QueuedRow
    <2>2. Batch(w, S, "timeout")
      BY <1>6 DEF FailStale
    <2> HIDE DEF S
    <2> QED
      BY <1>3, <2>1, <2>2, BatchStep
  <1>7. ASSUME ExpireQueued(w)
        PROVE  IInv'
    <2> DEFINE S == {t \in Rows : Expired(t) /\ t \notin Locked}
    <2>1. S \cap Locked = {} /\ S \in SUBSET Rows
      OBVIOUS
    <2>2. Batch(w, S, "queued_expired")
      BY <1>7 DEF ExpireQueued
    <2> HIDE DEF S
    <2> QED
      BY <1>3, <2>1, <2>2, BatchStep
  <1>8. ASSUME NEW t \in Rows, RetryNext(w, t)
        PROVE  IInv'
    <2>1. Retry(t) /\ UNCHANGED claim
      BY <1>8 DEF RetryNext
    <2> QED
      BY <1>8, <2>1, RetryNextType, RetryStep DEF IInv
  <1>9. ASSUME \/ \E stale \in SUBSET Runtimes : MarkOffline(w, stale)
               \/ NothingOffline(w) \/ CheckIssue(w) \/ ResetIssue(w)
        PROVE  IInv'
    <2>1. TypeOK'
      BY <1>9, SweepStepType DEF IInv
    <2>2. UNCHANGED <<created, task, claim>>
      BY <1>9 DEF MarkOffline, NothingOffline, CheckIssue, ResetIssue
    <2>3. Lanes'
      BY <2>2 DEF IInv, Lanes, OnePendingPerPair, IssueSerialization, LockedRowFree, Rows,
                  Pending, Active, QueuedRow
    <2> QED
      BY <2>1, <2>3 DEF IInv
  <1> QED
    BY <1>1, <1>4, <1>5, <1>6, <1>7, <1>8, <1>9

LEMMA CrashInv == ASSUME IInv, Crash PROVE IInv'
  <1>1. TypeOK'
    BY CrashType DEF IInv
  <1>2. /\ UNCHANGED <<created, task>>
        /\ \A q \in Requests : claim'[q].pc # "locked"
    BY DEF Crash, IdleClaim
  <1>3. Lanes'
    BY <1>2 DEF IInv, Lanes, OnePendingPerPair, IssueSerialization, LockedRowFree, Rows,
                Pending, Active, QueuedRow
  <1> QED
    BY <1>1, <1>3 DEF IInv

LEMMA AgeInv == ASSUME IInv, NEW t \in Rows, GrowOld(t) PROVE IInv'
  <1>1. TypeOK'
    BY RowStepType DEF IInv
  <1>2. /\ Rows' = Rows /\ claim' = claim
        /\ \A u \in Rows : /\ task'[u].agent = task[u].agent /\ task'[u].link = task[u].link
                           /\ task'[u].status = task[u].status
    BY DEF GrowOld, IInv, Rows, TypeOK, Row
  <1>3. Lanes'
    BY <1>2 DEF IInv, Lanes, OnePendingPerPair, IssueSerialization, LockedRowFree,
                Pending, Active, QueuedRow
  <1> QED
    BY <1>1, <1>3 DEF IInv

LEMMA StepInv == IInv /\ [Next]_vars => IInv'
  <1> SUFFICES ASSUME IInv, [Next]_vars
               PROVE  IInv'
    OBVIOUS
  <1>1. CASE \/ \E r \in Runtimes : Heartbeat(r) \/ Deregister(r)
             \/ \E a \in Agents : Reconcile(a)
    <2>1. TypeOK'
      BY <1>1, UserStepType DEF IInv
    <2>2. UNCHANGED <<created, task, claim>>
      BY <1>1 DEF Heartbeat, Deregister, Reconcile
    <2>3. Lanes'
      BY <2>2 DEF IInv, Lanes, OnePendingPerPair, IssueSerialization, LockedRowFree, Rows,
                  Pending, Active, QueuedRow
    <2> QED
      BY <2>1, <2>3 DEF IInv
  <1>2. CASE UNCHANGED vars
    <2>1. TypeOK'
      BY <1>2 DEF vars, IInv, TypeOK, Rows
    <2>2. Lanes'
      BY <1>2 DEF vars, IInv, Lanes, OnePendingPerPair, IssueSerialization, LockedRowFree, Rows,
                  Pending, Active, QueuedRow
    <2> QED
      BY <2>1, <2>2 DEF IInv
  <1> QED
    BY <1>1, <1>2, EnqueueInv, ClaimInv, DaemonInv, UserInv, SweepInv, CrashInv, AgeInv DEF Next

LEMMA InitInv == Init => IInv
  <1> SUFFICES ASSUME Init PROVE IInv
    OBVIOUS
  <1>1. Rows = {}
    BY DEF Init, Rows
  <1>2. \A q \in Requests : claim[q].pc # "locked"
    BY DEF Init, IdleClaim
  <1> QED
    BY <1>1, <1>2, InitType DEF IInv, Lanes, OnePendingPerPair, IssueSerialization, LockedRowFree

(* The invariant the theorems below follow from. *)
THEOREM Inductive == Spec => []IInv
  BY InitInv, StepInv, PTL DEF Spec

(* Every variable keeps its type. *)
THEOREM TypeCorrect == Spec => []TypeOK
  <1>1. IInv => TypeOK
    BY DEF IInv
  <1> QED
    BY <1>1, Inductive, PTL

(* At most one row per (issue, agent) waits to be started, for any number of
   enqueues, retries and claims in flight. *)
THEOREM OnePending == Spec => []OnePendingPerPair
  <1>1. IInv => OnePendingPerPair
    BY DEF IInv, Lanes
  <1> QED
    BY <1>1, Inductive, PTL

(* Claims that decide on snapshots never give an agent two active rows on one
   issue, for any number of concurrent claims. *)
THEOREM SerialLanes == Spec => []IssueSerialization
  <1>1. IInv => IssueSerialization
    BY DEF IInv, Lanes
  <1> QED
    BY <1>1, Inductive, PTL

(* What a claim checked of the row it locked is still so when it commits. *)
THEOREM LockedRows == Spec => []LockedRowFree
  <1>1. IInv => LockedRowFree
    BY DEF IInv, Lanes
  <1> QED
    BY <1>1, Inductive, PTL

-----------------------------------------------------------------------------
(* What a step may do to a row that exists. *)
Kept(t) ==
    /\ task[t].status \in Terminal =>
          task'[t].status = task[t].status /\ task'[t].reason = task[t].reason
    /\ task'[t].agent = task[t].agent
    /\ task[t].link \in Issues \cup Chats => task'[t].link = task[t].link
    /\ task'[t].attempt = task[t].attempt /\ task'[t].parent = task[t].parent
    /\ task'[t].priority = task[t].priority
    /\ Pending(t)' => Pending(t)
    /\ Active(t)' => Active(t) \/ t \in Locked
    /\ task'[t].status # "completed" => task'[t].link = task[t].link

LEMMA FinishKeeps ==
    ASSUME TypeOK, NEW S, NEW st \in Terminal, NEW reason, Finish(S, st, reason),
           \A t \in S \cap Rows : Live(t)
    PROVE  \A t \in Rows : Kept(t)
  <1> SUFFICES ASSUME NEW t \in Rows
               PROVE  Kept(t)
    OBVIOUS
  <1>1. task[t] \in Row
    BY DEF TypeOK
  <1>2. t \in S => task[t].status \notin Terminal
    BY DEF Live, Active, QueuedRow, Terminal
  <1> QED
    BY <1>1, <1>2 DEF Finish, Kept, Row, Pending, Active, Terminal

LEMMA RetryKeeps ==
    ASSUME TypeOK, NEW t \in Rows, Retry(t)
    PROVE  \A u \in Rows : Kept(u)
  <1>1. \A u \in Rows : task'[u] = task[u]
    <2>1. CASE Retries(t)
      <3>1. /\ task[t].agent \in Agents /\ task[t].runtime \in Runtimes
            /\ task[t].link \in Links /\ task[t].attempt + 1 \in Nat /\ t \in Nat
        BY DEF TypeOK, Row, Rows
      <3> QED
        BY <2>1, <3>1, NewRowType, InsertType DEF Retry, TypeOK
    <2>2. CASE ~ Retries(t)
      BY <2>2 DEF Retry
    <2> QED
      BY <2>1, <2>2
  <1> QED
    BY <1>1 DEF Kept, Pending, Active

LEMMA StepKeeps == IInv /\ [Next]_vars => \A t \in Rows : Kept(t)
  <1> SUFFICES ASSUME IInv, [Next]_vars
               PROVE  \A t \in Rows : Kept(t)
    OBVIOUS
  <1> USE DEF IInv
  <1>1. CASE Enqueue
    <2>1. CASE UNCHANGED task
      BY <2>1 DEF Kept, Pending, Active
    <2>2. ASSUME NEW e \in admitted, InsertAdmitted(e), UniqueFree(e.agent, e.link)
          PROVE  \A t \in Rows : Kept(t)
      <3>1. e.agent \in Agents /\ e.runtime \in Runtimes /\ e.link \in Links
        BY DEF TypeOK
      <3>2. \A t \in Rows : task'[t] = task[t]
        BY <2>2, <3>1, NewRowType, InsertType DEF InsertAdmitted, TypeOK
      <3> QED
        BY <3>2 DEF Kept, Pending, Active
    <2> QED
      BY <1>1, <2>1, <2>2 DEF Enqueue, Admit, InsertAdmitted
  <1>2. CASE Claim
    <2>1. CASE UNCHANGED task
      BY <2>1 DEF Kept, Pending, Active
    <2>2. ASSUME NEW q \in Requests, NEW t \in Rows, Reclaim(q, t)
          PROVE  \A u \in Rows : Kept(u)
      BY <2>2 DEF Reclaim, TypeOK, Row, Kept, Pending, Active
    <2>3. ASSUME NEW q \in Requests, CommitClaim(q)
          PROVE  \A u \in Rows : Kept(u)
      <3>1. claim[q].row \in Rows /\ QueuedRow(claim[q].row) /\ claim[q].row \in Locked
        BY <2>3 DEF CommitClaim, Lanes, LockedRowFree, Locked
      <3>2. task' = [task EXCEPT ![claim[q].row] = [@ EXCEPT !.status = "dispatched", !.age = 0]]
        BY <2>3 DEF CommitClaim
      <3> QED
        BY <3>1, <3>2 DEF TypeOK, Row, Kept, Pending, Active, QueuedRow, Terminal
    <2> QED
      BY <1>2, <2>1, <2>2, <2>3 DEF Claim, ListCandidates, CountRunning, SelectRow,
                                    ClaimFails
  <1>3. CASE Daemon
    <2>1. ASSUME NEW t \in Rows, StartTask(t) \/ CompleteTask(t)
          PROVE  \A u \in Rows : Kept(u)
      <3>1. task[t] \in Row /\ task \in [Rows -> Row]
        BY DEF TypeOK
      <3>2. CASE StartTask(t)
        <4>1. task' = [task EXCEPT ![t] = [@ EXCEPT !.status = "running", !.age = 0]]
          BY <3>2 DEF StartTask
        <4> QED
          BY <3>1, <3>2, <4>1 DEF StartTask, Row, Kept, Pending, Active, Terminal
      <3>3. CASE CompleteTask(t)
        <4>1. PICK l \in {task[t].link} \cup (IF task[t].link = QuickCreate THEN Issues ELSE {}) :
                task' = [task EXCEPT ![t] = [@ EXCEPT !.status = "completed", !.age = 0, !.link = l]]
          BY <3>3 DEF CompleteTask
        <4>2. task[t].link \in Issues \cup Chats => l = task[t].link
          BY <4>1, LinksAssumption
        <4> QED
          BY <3>1, <3>3, <4>1, <4>2 DEF CompleteTask, CanComplete, Row, Kept, Pending, Active, Terminal
      <3> QED
        BY <2>1, <3>2, <3>3
    <2>2. ASSUME NEW t \in Rows, NEW reason \in DaemonReasons, FailTask(t, reason)
          PROVE  \A u \in Rows : Kept(u)
      BY <2>2, FinishKeeps DEF FailTask, Live, Terminal
    <2>3. ASSUME NEW t \in Rows, RetryAfterFail(t)
          PROVE  \A u \in Rows : Kept(u)
      BY <2>3, RetryKeeps DEF RetryAfterFail
    <2> QED
      BY <1>3, <2>1, <2>2, <2>3 DEF Daemon
  <1>4. CASE User
    <2>1. CASE UNCHANGED task
      BY <2>1 DEF Kept, Pending, Active
    <2>2. ASSUME NEW scope \in CancelScope, Cancel(scope)
          PROVE  \A t \in Rows : Kept(t)
      BY <2>2, FinishKeeps DEF Cancel, Terminal
    <2>3. ASSUME NEW a \in Agents, CancelOnArchive(a)
          PROVE  \A t \in Rows : Kept(t)
      BY <2>3, FinishKeeps DEF CancelOnArchive, Terminal
    <2>4. ASSUME NEW i \in Issues, CancelOnStatus(i)
          PROVE  \A t \in Rows : Kept(t)
      BY <2>4, FinishKeeps DEF CancelOnStatus, LiveOn, Terminal
    <2> QED
      BY <1>4, <2>1, <2>2, <2>3, <2>4 DEF User, ArchiveAgent, RestoreAgent, SetIssueStatus
  <1>5. CASE Sweep
    <2>1. CASE UNCHANGED task
      BY <2>1 DEF Kept, Pending, Active
    <2>2. ASSUME NEW w \in Workers, NEW S \in SUBSET Rows, NEW reason,
                 \A t \in S : Live(t), Batch(w, S, reason)
          PROVE  \A t \in Rows : Kept(t)
      BY <2>2, FinishKeeps DEF Batch, Terminal
    <2>3. ASSUME NEW w \in Workers, NEW r \in Runtimes, RecoverOrphans(w, r)
          PROVE  \A t \in Rows : Kept(t)
      BY <2>2, <2>3 DEF RecoverOrphans, Live
    <2>4. ASSUME NEW w \in Workers, FailOffline(w) \/ FailStale(w) \/ ExpireQueued(w)
          PROVE  \A t \in Rows : Kept(t)
      <3>1. CASE FailOffline(w)
        BY <2>2, <3>1 DEF FailOffline, OfflineRows, Live
      <3>2. CASE FailStale(w)
        BY <2>2, <3>2 DEF FailStale, Overdue, Live
      <3>3. CASE ExpireQueued(w)
        BY <2>2, <3>3 DEF ExpireQueued, Expired, Live
      <3> QED
        BY <2>4, <3>1, <3>2, <3>3
    <2>5. ASSUME NEW w \in Workers, NEW t \in Rows, RetryNext(w, t)
          PROVE  \A u \in Rows : Kept(u)
      BY <2>5, RetryKeeps DEF RetryNext
    <2> QED
      BY <1>5, <2>1, <2>3, <2>4, <2>5 DEF Sweep, MarkOffline, NothingOffline, CheckIssue, ResetIssue
  <1>6. ASSUME NEW t \in Rows, GrowOld(t)
        PROVE  \A u \in Rows : Kept(u)
    BY <1>6 DEF GrowOld, TypeOK, Row, Kept, Pending, Active
  <1>7. CASE UNCHANGED task
    BY <1>7 DEF Kept, Pending, Active
  <1> QED
    BY <1>1, <1>2, <1>3, <1>4, <1>5, <1>6, <1>7 DEF Next, Heartbeat, Deregister, Reconcile, Crash, vars

(* No step changes the outcome of a terminal row or the identity of any row. *)
THEOREM Finality == Spec => TerminalFinal
  <1> DEFINE A == \A t \in Rows :
                     /\ task[t].status \in Terminal =>
                           task'[t].status = task[t].status /\ task'[t].reason = task[t].reason
                     /\ task'[t].agent = task[t].agent
                     /\ task[t].link \in Issues \cup Chats => task'[t].link = task[t].link
                     /\ task'[t].attempt = task[t].attempt /\ task'[t].parent = task[t].parent
  <1>1. IInv /\ [Next]_vars => [A]_vars
    BY StepKeeps DEF Kept
  <1>2. Spec => [][A]_vars
    BY <1>1, Inductive, PTL DEF Spec
  <1> QED
    BY <1>2 DEF TerminalFinal

-----------------------------------------------------------------------------
(* Retries. A failed row that is waiting for its retry has exactly one owner:
   FailTask, or one pipeline's list of rows to treat. *)

(* The rows a pipeline has not treated yet. *)
TodoOf(w) == IF work[w].pc = "next" THEN work[w].todo ELSE work[w].todo \ {work[w].cur}

(* A pipeline between two batches holds no row and owes no agent. *)
IdleEmpty == \A w \in Workers : work[w].pc \in {"idle", "offline"} =>
                                   work[w].todo = {} /\ work[w].agents = {}

(* What a step may do to the rows that wait for a retry: nothing, ... *)
Still ==
    /\ Rows' = Rows
    /\ \A t \in Rows : task'[t].status = "failed" => task[t].status = "failed"
    /\ failing' = failing
    /\ \A w \in Workers : TodoOf(w)' = TodoOf(w)
    /\ crashes' = crashes

(* ... add a row that is nobody's retry, ... *)
AddsTriggered ==
    /\ \E row \in Row : /\ row.parent = 0 /\ row.status = "queued"
                        /\ UniqueFree(row.agent, row.link) /\ Insert(row)
    /\ UNCHANGED <<failing, work, crashes>>

(* ... fail live rows and hand them to an owner, ... *)
FailsOne(t) ==
    /\ Live(t)
    /\ \E reason \in Reasons : Finish({t}, "failed", reason)
    /\ failing' = failing \cup {t}
    /\ UNCHANGED <<created, work, crashes>>

FailsBatch(w, S) ==
    /\ \A t \in S : Live(t)
    /\ \E reason \in Reasons : Finish(S, "failed", reason)
    /\ TodoOf(w) = {} /\ TodoOf(w)' = S
    /\ \A v \in Workers \ {w} : TodoOf(v)' = TodoOf(v)
    /\ UNCHANGED <<created, failing, crashes>>

(* ... or treat a row and take it from its owner. *)
TreatsOne(t) ==
    /\ t \in failing /\ Retry(t)
    /\ failing' = failing \ {t}
    /\ UNCHANGED <<work, crashes>>

TreatsNext(w, t) ==
    /\ t \in TodoOf(w) /\ Retry(t)
    /\ TodoOf(w)' = TodoOf(w) \ {t}
    /\ \A v \in Workers \ {w} : TodoOf(v)' = TodoOf(v)
    /\ UNCHANGED <<failing, crashes>>

RetryKind ==
    \/ Still
    \/ AddsTriggered
    \/ \E t \in Rows : FailsOne(t)
    \/ \E w \in Workers, S \in SUBSET Rows : FailsBatch(w, S)
    \/ \E t \in Rows : TreatsOne(t)
    \/ \E w \in Workers, t \in Rows : TreatsNext(w, t)
    \/ Crash

LEMMA FailedRows ==
    ASSUME TypeOK, NEW S \in SUBSET Rows, NEW reason \in Reasons,
           Finish(S, "failed", reason), UNCHANGED created
    PROVE  \A t \in S : task'[t].status = "failed"
  <1>1. "failed" \in Status
    BY DEF Status
  <1>2. /\ Rows' = Rows
        /\ task' \in [Rows' -> Row]
        /\ \A t \in Rows :
              /\ task'[t].agent = task[t].agent /\ task'[t].link = task[t].link
              /\ t \in S => task'[t].status = "failed"
              /\ t \notin S => task'[t] = task[t]
    BY <1>1, FinishType DEF TypeOK
  <1> QED
    BY <1>2

(* Finishing rows with an outcome other than failed hands nothing over. *)
LEMMA FinishStill ==
    ASSUME TypeOK, NEW S, NEW st \in Status, st # "failed", NEW reason \in Reasons,
           Finish(S, st, reason), UNCHANGED created,
           UNCHANGED failing, UNCHANGED work, UNCHANGED crashes
    PROVE  Still
  <1>1. /\ Rows' = Rows
        /\ \A t \in Rows :
              /\ task'[t].agent = task[t].agent /\ task'[t].link = task[t].link
              /\ t \in S => task'[t].status = st
              /\ t \notin S => task'[t] = task[t]
    BY FinishType DEF TypeOK
  <1>2. \A t \in Rows : task'[t].status = "failed" => task[t].status = "failed"
    BY <1>1
  <1>3. \A w \in Workers : TodoOf(w)' = TodoOf(w)
    BY DEF TodoOf
  <1> QED
    BY <1>1, <1>2, <1>3 DEF Still

(* A bulk failure by an idle pipeline. *)
LEMMA BatchKind ==
    ASSUME TypeOK, IdleEmpty, NEW w \in Workers, NEW S \in SUBSET Rows, NEW reason \in Reasons,
           \A t \in S : Live(t), work[w].pc \in {"idle", "offline"}, Batch(w, S, reason)
    PROVE  FailsBatch(w, S)
  <1>1. /\ work'[w].pc = "next" /\ work'[w].todo = S
        /\ \A v \in Workers \ {w} : work'[v] = work[v]
    BY DEF Batch, TypeOK, IdleWorker
  <1>2. TodoOf(w) = {}
    BY DEF IdleEmpty, TodoOf
  <1> QED
    BY <1>1, <1>2 DEF Batch, FailsBatch, TodoOf

(* A pipeline that goes on to its next row: the row it leaves was treated. *)
LEMMA NextFailedStill ==
    ASSUME TypeOK, NEW w \in Workers, NEW processed, NextFailed(w, processed),
           work[w].pc \in {"check", "reset"}
    PROVE  \A v \in Workers : TodoOf(v)' = TodoOf(v)
  <1> DEFINE rest == work[w].todo \ {work[w].cur}
  <1>1. TodoOf(w) = rest
    BY DEF TodoOf
  <1>2. work[w] \in [pc : WorkerPC, todo : SUBSET Rows, cur : Nat, agents : SUBSET Agents,
                     processed : SUBSET Links, retried : SUBSET Links]
    BY DEF TypeOK
  <1>3. \A v \in Workers \ {w} : work'[v] = work[v]
    BY DEF NextFailed, TypeOK
  <1>4. CASE rest = {}
    <2>1. work'[w] = IdleWorker
      BY <1>4 DEF NextFailed, TypeOK
    <2> QED
      BY <1>1, <1>3, <1>4, <2>1 DEF TodoOf, IdleWorker
  <1>5. CASE rest # {}
    <2>1. work'[w].pc = "next" /\ work'[w].todo = rest
      BY <1>2, <1>5 DEF NextFailed, TypeOK
    <2> QED
      BY <1>1, <1>3, <2>1 DEF TodoOf
  <1> QED
    BY <1>4, <1>5

LEMMA SweepKind == ASSUME IInv, IdleEmpty, Sweep PROVE RetryKind
  <1> USE DEF IInv
  <1>1. PICK w \in Workers :
           \/ \E stale \in SUBSET Runtimes : MarkOffline(w, stale)
           \/ \E r \in Runtimes : RecoverOrphans(w, r)
           \/ FailOffline(w) \/ NothingOffline(w)
           \/ FailStale(w) \/ ExpireQueued(w)
           \/ \E t \in Rows : RetryNext(w, t)
           \/ CheckIssue(w) \/ ResetIssue(w)
    BY DEF Sweep
  <1>2. /\ "runtime_offline" \in Reasons /\ "timeout" \in Reasons
        /\ "queued_expired" \in Reasons /\ "runtime_recovery" \in Reasons
    BY DEF Reasons, retryableReasons
  <1>3. work[w] = IdleWorker => work[w].pc = "idle"
    BY DEF IdleWorker
  <1>4. ASSUME NEW r \in Runtimes, RecoverOrphans(w, r)
        PROVE  RetryKind
    <2> DEFINE S == {t \in Rows : Active(t) /\ task[t].runtime = r}
    <2>1. S \in SUBSET Rows /\ \A t \in S : Live(t)
      BY DEF Live
    <2>2. Batch(w, S, "runtime_recovery") /\ work[w].pc = "idle"
      BY <1>3, <1>4 DEF RecoverOrphans
    <2> HIDE DEF S
    <2> QED
      BY <1>2, <2>1, <2>2, BatchKind DEF RetryKind
  <1>5. ASSUME FailOffline(w)
        PROVE  RetryKind
    <2>1. OfflineRows \in SUBSET Rows /\ \A t \in OfflineRows : Live(t)
      BY DEF Live, OfflineRows
    <2> QED
      BY <1>2, <1>5, <2>1, BatchKind DEF RetryKind, FailOffline
  <1>6. ASSUME FailStale(w)
        PROVE  RetryKind
    <2> DEFINE S == {t \in Rows : Overdue(t)}
    <2>1. S \in SUBSET Rows /\ \A t \in S : Live(t)
      BY DEF Live, Overdue
    <2>2. Batch(w, S, "timeout") /\ work[w].pc = "idle"
      BY <1>3, <1>6 DEF FailStale
    <2> HIDE DEF S
    <2> QED
      BY <1>2, <2>1, <2>2, BatchKind DEF RetryKind
  <1>7. ASSUME ExpireQueued(w)
        PROVE  RetryKind
    <2> DEFINE S == {t \in Rows : Expired(t) /\ t \notin Locked}
    <2>1. S \in SUBSET Rows /\ \A t \in S : Live(t)
      BY DEF Live, Expired
    <2>2. Batch(w, S, "queued_expired") /\ work[w].pc = "idle"
      BY <1>3, <1>7 DEF ExpireQueued
    <2> HIDE DEF S
    <2> QED
      BY <1>2, <2>1, <2>2, BatchKind DEF RetryKind
  <1>8. ASSUME NEW t \in Rows, RetryNext(w, t)
        PROVE  RetryKind
    <2>1. work[w].pc = "next" /\ t \in TodoOf(w) /\ Retry(t)
      BY <1>8 DEF RetryNext, TodoOf
    <2>2. work[w] \in [pc : WorkerPC, todo : SUBSET Rows, cur : Nat, agents : SUBSET Agents,
                       processed : SUBSET Links, retried : SUBSET Links]
      BY DEF TypeOK
    <2>3. /\ work'[w].pc = "check" /\ work'[w].todo = work[w].todo /\ work'[w].cur = t
          /\ \A v \in Workers \ {w} : work'[v] = work[v]
      BY <1>8, <2>2 DEF RetryNext, TypeOK
    <2>4. TreatsNext(w, t)
      BY <1>8, <2>1, <2>3 DEF TreatsNext, TodoOf, RetryNext
    <2> QED
      BY <2>4 DEF RetryKind
  <1>9. ASSUME \/ \E stale \in SUBSET Runtimes : MarkOffline(w, stale)
               \/ NothingOffline(w) \/ CheckIssue(w) \/ ResetIssue(w)
        PROVE  RetryKind
    <2>1. UNCHANGED <<created, task, failing, crashes>>
      BY <1>9 DEF MarkOffline, NothingOffline, CheckIssue, ResetIssue
    <2>2. \A v \in Workers : TodoOf(v)' = TodoOf(v)
      <3>1. ASSUME NEW stale \in SUBSET Runtimes, MarkOffline(w, stale)
            PROVE  \A v \in Workers : TodoOf(v)' = TodoOf(v)
        <4>1. /\ work[w].pc = "idle" /\ work'[w].pc = "offline"
              /\ work'[w].todo = work[w].todo /\ work'[w].cur = work[w].cur
              /\ \A v \in Workers \ {w} : work'[v] = work[v]
          BY <3>1 DEF MarkOffline, TypeOK, IdleWorker
        <4> QED
          BY <4>1 DEF TodoOf
      <3>2. CASE NothingOffline(w)
        <4>1. /\ work'[w] = IdleWorker
              /\ \A v \in Workers \ {w} : work'[v] = work[v]
          BY <3>2 DEF NothingOffline, TypeOK
        <4>2. TodoOf(w) = {}
          BY <3>2 DEF NothingOffline, IdleEmpty, TodoOf
        <4> QED
          BY <4>1, <4>2 DEF TodoOf, IdleWorker
      <3>3. CASE CheckIssue(w)
        <4>1. CASE \E processed : NextFailed(w, processed)
          BY <3>3, <4>1, NextFailedStill DEF CheckIssue
        <4>2. CASE work' = [work EXCEPT ![w] = [@ EXCEPT !.pc = "reset",
                              !.processed = work[w].processed \cup {task[work[w].cur].link}]]
          <5>1. work[w] \in [pc : WorkerPC, todo : SUBSET Rows, cur : Nat, agents : SUBSET Agents,
                             processed : SUBSET Links, retried : SUBSET Links]
            BY DEF TypeOK
          <5>2. /\ work'[w].pc = "reset" /\ work'[w].todo = work[w].todo
                /\ work'[w].cur = work[w].cur
                /\ \A v \in Workers \ {w} : work'[v] = work[v]
            BY <4>2, <5>1 DEF TypeOK
          <5> QED
            BY <3>3, <5>2 DEF CheckIssue, TodoOf
        <4> QED
          BY <3>3, <4>1, <4>2 DEF CheckIssue
      <3>4. CASE ResetIssue(w)
        BY <3>4, NextFailedStill DEF ResetIssue
      <3> QED
        BY <1>9, <3>1, <3>2, <3>3, <3>4
    <2> QED
      BY <2>1, <2>2 DEF RetryKind, Still, Rows
  <1> QED
    BY <1>1, <1>4, <1>5, <1>6, <1>7, <1>8, <1>9

LEMMA StepKind == ASSUME IInv, IdleEmpty, [Next]_vars PROVE RetryKind
  <1> USE DEF IInv
  <1>1. ASSUME UNCHANGED <<created, task, failing, work, crashes>>
        PROVE  RetryKind
    BY <1>1 DEF RetryKind, Still, TodoOf, Rows
  <1>2. ASSUME UNCHANGED <<created, failing, work, crashes>>,
               \A t \in Rows : task'[t].status = "failed" => task[t].status = "failed"
        PROVE  RetryKind
    BY <1>2 DEF RetryKind, Still, TodoOf, Rows
  <1>3. CASE Enqueue
    <2>1. ASSUME NEW e \in admitted, InsertAdmitted(e), UniqueFree(e.agent, e.link)
          PROVE  RetryKind
      <3> DEFINE row == NewRow(e.agent, e.runtime, e.link, 1, 0)
      <3>1. row \in Row
        BY NewRowType DEF TypeOK
      <3>2. row.parent = 0 /\ row.status = "queued" /\ row.agent = e.agent /\ row.link = e.link
        BY DEF NewRow
      <3>3. UniqueFree(row.agent, row.link) /\ Insert(row)
        BY <2>1, <3>2 DEF InsertAdmitted
      <3> HIDE DEF row
      <3> QED
        BY <2>1, <3>1, <3>2, <3>3 DEF RetryKind, AddsTriggered, InsertAdmitted
    <2> QED
      BY <1>1, <1>3, <2>1 DEF Enqueue, Admit, InsertAdmitted
  <1>4. CASE Claim
    <2>1. ASSUME NEW q \in Requests, NEW t \in Rows, Reclaim(q, t)
          PROVE  RetryKind
      <3>1. \A u \in Rows : task'[u].status = task[u].status
        BY <2>1 DEF Reclaim, TypeOK, Row
      <3> QED
        BY <1>2, <2>1, <3>1 DEF Reclaim
    <2>2. ASSUME NEW q \in Requests, CommitClaim(q)
          PROVE  RetryKind
      <3>1. task' = [task EXCEPT ![claim[q].row] = [@ EXCEPT !.status = "dispatched", !.age = 0]]
        BY <2>2 DEF CommitClaim
      <3>2. \A u \in Rows : task'[u].status = "failed" => task[u].status = "failed"
        BY <3>1 DEF TypeOK, Row
      <3> QED
        BY <1>2, <2>2, <3>2 DEF CommitClaim
    <2> QED
      BY <1>1, <1>4, <2>1, <2>2 DEF Claim, ListCandidates, CountRunning, SelectRow, ClaimFails
  <1>5. CASE Daemon
    <2>1. ASSUME NEW t \in Rows, StartTask(t)
          PROVE  RetryKind
      <3>1. task' = [task EXCEPT ![t] = [@ EXCEPT !.status = "running", !.age = 0]]
        BY <2>1 DEF StartTask
      <3>2. \A u \in Rows : task'[u].status = "failed" => task[u].status = "failed"
        BY <3>1 DEF TypeOK, Row
      <3> QED
        BY <1>2, <2>1, <3>2 DEF StartTask
    <2>2. ASSUME NEW t \in Rows, CompleteTask(t)
          PROVE  RetryKind
      <3>1. PICK l \in {task[t].link} \cup (IF task[t].link = QuickCreate THEN Issues ELSE {}) :
              task' = [task EXCEPT ![t] = [@ EXCEPT !.status = "completed", !.age = 0, !.link = l]]
        BY <2>2 DEF CompleteTask
      <3>2. \A u \in Rows : task'[u].status = "failed" => task[u].status = "failed"
        BY <3>1 DEF TypeOK, Row
      <3> QED
        BY <1>2, <2>2, <3>2 DEF CompleteTask
    <2>3. ASSUME NEW t \in Rows, NEW reason \in DaemonReasons, FailTask(t, reason)
          PROVE  RetryKind
      <3>1. reason \in Reasons
        BY DEF Reasons
      <3>2. FailsOne(t)
        BY <2>3, <3>1 DEF FailTask, FailsOne, Live
      <3> QED
        BY <3>2 DEF RetryKind
    <2>4. ASSUME NEW t \in Rows, RetryAfterFail(t)
          PROVE  RetryKind
      BY <2>4 DEF RetryAfterFail, RetryKind, TreatsOne
    <2> QED
      BY <1>5, <2>1, <2>2, <2>3, <2>4 DEF Daemon
  <1>6. CASE User
    <2> "cancelled" \in Status /\ "cancelled" # "failed" /\ "none" \in Reasons
      BY DEF Status, Reasons
    <2>1. ASSUME NEW S, Finish(S, "cancelled", "none"), UNCHANGED <<created, failing, work, crashes>>
          PROVE  RetryKind
      BY <2>1, FinishStill DEF RetryKind
    <2>2. ASSUME NEW scope \in CancelScope, Cancel(scope)
          PROVE  RetryKind
      BY <2>1, <2>2 DEF Cancel
    <2>3. ASSUME NEW a \in Agents, CancelOnArchive(a)
          PROVE  RetryKind
      BY <2>1, <2>3 DEF CancelOnArchive
    <2>4. ASSUME NEW i \in Issues, CancelOnStatus(i)
          PROVE  RetryKind
      BY <2>1, <2>4 DEF CancelOnStatus
    <2> QED
      BY <1>1, <1>6, <2>2, <2>3, <2>4 DEF User, ArchiveAgent, RestoreAgent, SetIssueStatus
  <1>7. ASSUME NEW t \in Rows, GrowOld(t)
        PROVE  RetryKind
    <2>1. \A u \in Rows : task'[u].status = task[u].status
      BY <1>7 DEF GrowOld, TypeOK, Row
    <2> QED
      BY <1>2, <1>7, <2>1 DEF GrowOld
  <1>8. CASE Crash
    BY <1>8 DEF RetryKind
  <1> QED
    BY <1>1, <1>3, <1>4, <1>5, <1>6, <1>7, <1>8, SweepKind
    DEF Next, Heartbeat, Deregister, Reconcile, vars

(* A pipeline that becomes idle or waits to fail offline rows holds nothing. *)
LEMMA IdleEmptyStep == ASSUME IInv, IdleEmpty, [Next]_vars PROVE IdleEmpty'
  <1> USE DEF IInv
  <1> DEFINE W == [pc : WorkerPC, todo : SUBSET Rows, cur : Nat, agents : SUBSET Agents,
                   processed : SUBSET Links, retried : SUBSET Links]
  <1>1. work \in [Workers -> W]
    BY DEF TypeOK
  <1>2. ASSUME NEW w \in Workers, \A v \in Workers \ {w} : work'[v] = work[v],
               work'[w].pc \in {"idle", "offline"} => work'[w].todo = {} /\ work'[w].agents = {}
        PROVE  IdleEmpty'
    BY <1>2 DEF IdleEmpty
  <1>3. IdleWorker.todo = {} /\ IdleWorker.agents = {} /\ IdleWorker.pc = "idle"
    BY DEF IdleWorker
  <1>4. CASE Sweep
    <2>1. PICK w \in Workers :
             \/ \E stale \in SUBSET Runtimes : MarkOffline(w, stale)
             \/ \E r \in Runtimes : RecoverOrphans(w, r)
             \/ FailOffline(w) \/ NothingOffline(w)
             \/ FailStale(w) \/ ExpireQueued(w)
             \/ \E t \in Rows : RetryNext(w, t)
             \/ CheckIssue(w) \/ ResetIssue(w)
      BY <1>4 DEF Sweep
    <2>2. ASSUME NEW stale \in SUBSET Runtimes, MarkOffline(w, stale)
          PROVE  IdleEmpty'
      BY <1>1, <1>2, <1>3, <2>2 DEF MarkOffline
    <2>3. ASSUME NEW S, NEW reason, Batch(w, S, reason)
          PROVE  IdleEmpty'
      <3>1. work'[w].pc = "next" /\ \A v \in Workers \ {w} : work'[v] = work[v]
        BY <1>1, <2>3 DEF Batch, IdleWorker
      <3> QED
        BY <1>2, <3>1
    <2>4. CASE NothingOffline(w)
      BY <1>1, <1>2, <1>3, <2>4 DEF NothingOffline
    <2>5. ASSUME NEW t \in Rows, RetryNext(w, t)
          PROVE  IdleEmpty'
      <3>1. work'[w].pc = "check" /\ \A v \in Workers \ {w} : work'[v] = work[v]
        BY <1>1, <2>5 DEF RetryNext
      <3> QED
        BY <1>2, <3>1
    <2>6. ASSUME NEW processed, NextFailed(w, processed)
          PROVE  IdleEmpty'
      <3>1. /\ work'[w].pc = "next" \/ work'[w] = IdleWorker
            /\ \A v \in Workers \ {w} : work'[v] = work[v]
        BY <1>1, <2>6 DEF NextFailed
      <3> QED
        BY <1>2, <1>3, <3>1
    <2>7. CASE CheckIssue(w)
      <3>1. CASE work' = [work EXCEPT ![w] = [@ EXCEPT !.pc = "reset",
                            !.processed = work[w].processed \cup {task[work[w].cur].link}]]
        <4>1. work'[w].pc = "reset" /\ \A v \in Workers \ {w} : work'[v] = work[v]
          BY <1>1, <3>1
        <4> QED
          BY <1>2, <4>1
      <3> QED
        BY <2>6, <2>7, <3>1 DEF CheckIssue
    <2> QED
      BY <2>1, <2>2, <2>3, <2>4, <2>5, <2>6, <2>7
      DEF RecoverOrphans, FailOffline, FailStale, ExpireQueued, ResetIssue
  <1>5. CASE Crash
    BY <1>3, <1>5 DEF Crash, IdleEmpty
  <1>6. CASE UNCHANGED work
    BY <1>6 DEF IdleEmpty
  <1> QED
    BY <1>4, <1>5, <1>6
    DEF Next, Enqueue, Admit, InsertAdmitted, Claim, Reclaim, ListCandidates, CountRunning,
        SelectRow, CommitClaim, ClaimFails, Daemon, StartTask, CompleteTask, FailTask,
        RetryAfterFail, User, Cancel, ArchiveAgent, CancelOnArchive, RestoreAgent, CancelOnStatus,
        SetIssueStatus, Heartbeat, Deregister, Reconcile, GrowOld, vars

(* Some procedure will offer the row a retry. *)
Waiting(t) == t \in failing \/ \E w \in Workers : t \in TodoOf(w)

(* A row that waits has one owner, has failed and has no retry yet. *)
OneOwner ==
    /\ \A w \in Workers : failing \cap TodoOf(w) = {}
    /\ \A v, w \in Workers : v # w => TodoOf(v) \cap TodoOf(w) = {}
Childless ==
    \A t \in Rows : Waiting(t) => task[t].status = "failed" /\ \A u \in Rows : task[u].parent # t

(* Only rows of issues and chats are retried. *)
ChildLink == \A t \in Rows : task[t].parent # 0 => task[t].link \in Issues \cup Chats

Lineage == RetryLineage /\ ChildLink /\ OneOwner /\ Childless

LEMMA AwaitingIsWaiting == \A t : t \in AwaitingRetry <=> Waiting(t)
  BY DEF AwaitingRetry, Waiting, TodoOf

(* What Retry does, with every part named. *)
LEMMA RetryEffect ==
    ASSUME TypeOK, NEW t \in Rows, Retry(t)
    PROVE  \/ ~ Retries(t) /\ UNCHANGED <<created, task>> /\ Rows' = Rows
           \/ /\ Retries(t)
              /\ Rows' = Rows \cup {created + 1} /\ created + 1 \notin Rows
              /\ \A u \in Rows : task'[u] = task[u] /\ u < created + 1
              /\ task'[created + 1] = NewRow(task[t].agent, task[t].runtime, task[t].link,
                                             task[t].attempt + 1, t)
  <1>1. CASE Retries(t)
    <2>1. /\ task[t].agent \in Agents /\ task[t].runtime \in Runtimes
          /\ task[t].link \in Links /\ task[t].attempt + 1 \in Nat /\ t \in Nat
      BY DEF TypeOK, Row, Rows
    <2>2. \A u \in Rows : u < created + 1
      BY DEF TypeOK, Rows
    <2> QED
      BY <1>1, <2>1, <2>2, NewRowType, InsertType DEF Retry, TypeOK
  <1>2. CASE ~ Retries(t)
    BY <1>2 DEF Retry, Rows
  <1> QED
    BY <1>1, <1>2

(* Lineage of rows that exist is kept by any step that keeps the rows. *)
LEMMA LineageKept ==
    ASSUME IInv, Lineage, \A t \in Rows : Kept(t), Rows' = Rows
    PROVE  RetryLineage' /\ ChildLink'
  <1>1. ChildLink'
    BY DEF Lineage, ChildLink, Kept
  <1>2. ASSUME NEW t \in Rows, task'[t].parent # 0
        PROVE  /\ task'[t].parent \in Rows
               /\ LET p == task'[task'[t].parent] IN
                  /\ p.status = "failed" /\ p.reason \in retryableReasons
                  /\ task'[t].attempt = p.attempt + 1 /\ task'[t].attempt <= MaxAttempts
                  /\ task'[t].agent = p.agent /\ task'[t].link = p.link
               /\ \A u \in Rows : task'[u].parent = task'[t].parent => u = t
    <2> DEFINE p == task[t].parent
    <2>1. /\ p \in Rows /\ task[p].status = "failed" /\ task[p].reason \in retryableReasons
          /\ task[t].attempt = task[p].attempt + 1 /\ task[t].attempt <= MaxAttempts
          /\ task[t].agent = task[p].agent /\ task[t].link = task[p].link
          /\ \A u \in Rows : task[u].parent = p => u = t
          /\ task[t].link \in Issues \cup Chats
      BY <1>2 DEF Lineage, RetryLineage, ChildLink, Kept
    <2>2. Kept(t) /\ Kept(p) /\ \A u \in Rows : task'[u].parent = task[u].parent
      BY <2>1 DEF Kept
    <2> QED
      BY <2>1, <2>2 DEF Kept, Terminal
  <1>3. RetryLineage'
    BY <1>2 DEF RetryLineage
  <1> QED
    BY <1>1, <1>3

(* A row that is nobody's retry changes nothing in the lineage. *)
LEMMA LineageAdds ==
    ASSUME IInv, Lineage, AddsTriggered
    PROVE  Lineage'
  <1>1. PICK row \in Row : row.parent = 0 /\ Insert(row)
    BY DEF AddsTriggered
  <1> DEFINE n == created + 1
  <1>2. /\ Rows' = Rows \cup {n} /\ n \notin Rows /\ task'[n] = row
        /\ \A t \in Rows : task'[t] = task[t]
    BY <1>1, InsertType DEF IInv, TypeOK
  <1>3. \A w \in Workers : TodoOf(w)' = TodoOf(w)
    BY DEF AddsTriggered, TodoOf
  <1>4. failing' = failing /\ failing \subseteq Rows /\ \A w \in Workers : TodoOf(w) \subseteq Rows
    BY DEF AddsTriggered, IInv, TypeOK, TodoOf
  <1> HIDE DEF n
  <1>5. \A t \in Rows' : Waiting(t)' => t \in Rows /\ Waiting(t)
    BY <1>3, <1>4 DEF Waiting
  <1>6. 0 \notin Rows
    BY DEF Rows
  <1>7. ChildLink' /\ OneOwner'
    BY <1>1, <1>2, <1>3, <1>4 DEF Lineage, ChildLink, OneOwner
  <1>8. Childless'
    BY <1>1, <1>2, <1>5, <1>6 DEF Lineage, Childless
  <1>9. RetryLineage'
    BY <1>1, <1>2, <1>6 DEF Lineage, RetryLineage
  <1> QED
    BY <1>7, <1>8, <1>9 DEF Lineage

(* Live rows fail and get an owner: they had none, and no retry. *)
LEMMA LineageFails ==
    ASSUME IInv, Lineage, \A t \in Rows : Kept(t), NEW S \in SUBSET Rows,
           \A t \in S : Live(t), \A t \in S : task'[t].status = "failed", Rows' = Rows,
           \A t \in Rows : Waiting(t)' => Waiting(t) \/ t \in S
    PROVE  RetryLineage' /\ ChildLink' /\ Childless'
  <1>1. RetryLineage' /\ ChildLink'
    BY LineageKept
  <1>2. ASSUME NEW t \in S
        PROVE  \A u \in Rows : task[u].parent # t
    <2>1. task[t].status # "failed" /\ t # 0
      BY DEF Live, QueuedRow, Active, Rows
    <2> QED
      BY <2>1 DEF Lineage, RetryLineage
  <1>3. Childless'
    BY <1>2 DEF Lineage, Childless, Kept, Terminal
  <1> QED
    BY <1>1, <1>3

(* A waiting row is treated and taken from its only owner. *)
LEMMA LineageTreats ==
    ASSUME IInv, Lineage, NEW t \in Rows, Waiting(t), Retry(t),
           \A u \in Rows' : Waiting(u)' => Waiting(u) /\ u \in Rows /\ u # t
    PROVE  RetryLineage' /\ ChildLink' /\ Childless'
  <1>1. task[t].status = "failed" /\ \A u \in Rows : task[u].parent # t
    BY DEF Lineage, Childless
  <1>2. CASE ~ Retries(t) /\ UNCHANGED <<created, task>> /\ Rows' = Rows
    <2>1. task' = task /\ Rows' = Rows
      BY <1>2
    <2> QED
      BY <2>1 DEF Lineage, RetryLineage, ChildLink, Childless
  <1>3. CASE Retries(t)
    <2> DEFINE n == created + 1
    <2>1. /\ Rows' = Rows \cup {n} /\ n \notin Rows
          /\ \A u \in Rows : task'[u] = task[u]
          /\ task'[n] = NewRow(task[t].agent, task[t].runtime, task[t].link, task[t].attempt + 1, t)
      BY <1>3, RetryEffect DEF IInv
    <2> HIDE DEF n
    <2>2. /\ task'[n].parent = t /\ task'[n].agent = task[t].agent /\ task'[n].link = task[t].link
          /\ task'[n].attempt = task[t].attempt + 1
      BY <2>1 DEF NewRow
    <2>3. /\ task[t].reason \in retryableReasons /\ task[t].attempt + 1 <= MaxAttempts
          /\ task[t].link \in Issues \cup Chats
      <3>1. task[t].attempt \in Nat /\ MaxAttempts \in Nat /\ task[t].attempt < MaxAttempts
        BY <1>3, NumbersAssumption DEF Retries, CanRetry, IInv, TypeOK, Row
      <3> QED
        BY <1>3, <3>1 DEF Retries, CanRetry
    <2>4. ChildLink'
      BY <2>1, <2>2, <2>3 DEF Lineage, ChildLink
    <2>5. Childless'
      BY <2>1, <2>2 DEF Lineage, Childless
    <2>6. ASSUME NEW x \in Rows', task'[x].parent # 0
          PROVE  /\ task'[x].parent \in Rows'
                 /\ LET p == task'[task'[x].parent] IN
                    /\ p.status = "failed" /\ p.reason \in retryableReasons
                    /\ task'[x].attempt = p.attempt + 1 /\ task'[x].attempt <= MaxAttempts
                    /\ task'[x].agent = p.agent /\ task'[x].link = p.link
                 /\ \A u \in Rows' : task'[u].parent = task'[x].parent => u = x
      <3>1. CASE x = n
        BY <1>1, <2>1, <2>2, <2>3, <3>1
      <3>2. CASE x \in Rows
        <4>1. /\ task[x].parent \in Rows /\ task'[x] = task[x]
              /\ LET p == task[task[x].parent] IN
                 /\ p.status = "failed" /\ p.reason \in retryableReasons
                 /\ task[x].attempt = p.attempt + 1 /\ task[x].attempt <= MaxAttempts
                 /\ task[x].agent = p.agent /\ task[x].link = p.link
              /\ \A u \in Rows : task[u].parent = task[x].parent => u = x
          BY <2>1, <2>6, <3>2 DEF Lineage, RetryLineage
        <4>2. task[x].parent # t
          BY <1>1, <3>2
        <4> QED
          BY <2>1, <2>2, <4>1, <4>2
      <3> QED
        BY <2>1, <3>1, <3>2
    <2>7. RetryLineage'
      BY <2>6 DEF RetryLineage
    <2> QED
      BY <2>4, <2>5, <2>7
  <1> QED
    BY <1>2, <1>3, RetryEffect DEF IInv

LEMMA LineageStep ==
    ASSUME IInv, IdleEmpty, Lineage, [Next]_vars
    PROVE  Lineage'
  <1>1. RetryKind /\ \A t \in Rows : Kept(t)
    BY StepKind, StepKeeps
  <1>2. failing \subseteq Rows /\ \A w \in Workers : TodoOf(w) \subseteq Rows
    BY DEF IInv, TypeOK, TodoOf
  <1>3. CASE Still
    <2>1. OneOwner' /\ Rows' = Rows
      BY <1>3 DEF Still, Lineage, OneOwner
    <2>2. Childless'
      BY <1>1, <1>3 DEF Still, Lineage, Childless, Waiting, Kept, Terminal
    <2> QED
      BY <1>1, <2>1, <2>2, LineageKept DEF Lineage
  <1>4. ASSUME NEW t \in Rows, FailsOne(t)
        PROVE  Lineage'
    <2>1. /\ failing' = failing \cup {t} /\ Rows' = Rows
          /\ \A w \in Workers : TodoOf(w)' = TodoOf(w)
      BY <1>4 DEF FailsOne, Rows, TodoOf
    <2>2. task'[t].status = "failed" /\ Live(t)
      <3>1. PICK reason \in Reasons : Finish({t}, "failed", reason)
        BY <1>4 DEF FailsOne
      <3>2. UNCHANGED created /\ {t} \in SUBSET Rows /\ t \in {t}
        BY <1>4 DEF FailsOne
      <3> QED
        BY <1>4, <3>1, <3>2, FailedRows DEF FailsOne, IInv
    <2>3. \A w \in Workers : t \notin TodoOf(w)
      BY <2>2 DEF Lineage, Childless, Waiting, Live, QueuedRow, Active
    <2>4. OneOwner'
      BY <2>1, <2>3 DEF Lineage, OneOwner
    <2>5. \A u \in Rows : Waiting(u)' => Waiting(u) \/ u \in {t}
      BY <2>1 DEF Waiting
    <2>6. RetryLineage' /\ ChildLink' /\ Childless'
      <3> DEFINE S == {t}
      <3>1. S \in SUBSET Rows /\ \A u \in S : Live(u) /\ task'[u].status = "failed"
        BY <2>2
      <3>2. \A u \in Rows : Waiting(u)' => Waiting(u) \/ u \in S
        BY <2>5
      <3> HIDE DEF S
      <3> QED
        BY <1>1, <2>1, <3>1, <3>2, LineageFails
    <2> QED
      BY <2>4, <2>6 DEF Lineage
  <1>5. ASSUME NEW w \in Workers, NEW S \in SUBSET Rows, FailsBatch(w, S)
        PROVE  Lineage'
    <2>1. /\ failing' = failing /\ Rows' = Rows /\ TodoOf(w)' = S /\ TodoOf(w) = {}
          /\ \A v \in Workers \ {w} : TodoOf(v)' = TodoOf(v)
      BY <1>5 DEF FailsBatch, Rows
    <2>2. \A t \in S : task'[t].status = "failed" /\ Live(t)
      <3>1. PICK reason \in Reasons : Finish(S, "failed", reason)
        BY <1>5 DEF FailsBatch
      <3>2. UNCHANGED created
        BY <1>5 DEF FailsBatch
      <3> QED
        BY <1>5, <3>1, <3>2, FailedRows DEF FailsBatch, IInv
    <2>3. \A t \in S : ~ Waiting(t)
      BY <2>2 DEF Lineage, Childless, Live, QueuedRow, Active
    <2>4. OneOwner'
      BY <2>1, <2>3 DEF Lineage, OneOwner, Waiting
    <2>5. \A u \in Rows : Waiting(u)' => Waiting(u) \/ u \in S
      BY <2>1 DEF Waiting
    <2> QED
      BY <1>1, <2>1, <2>2, <2>4, <2>5, LineageFails DEF Lineage
  <1>6. ASSUME NEW t \in Rows, TreatsOne(t)
        PROVE  Lineage'
    <2>1. /\ failing' = failing \ {t} /\ t \in failing /\ Retry(t)
          /\ \A w \in Workers : TodoOf(w)' = TodoOf(w)
      BY <1>6 DEF TreatsOne, TodoOf
    <2>2. OneOwner'
      BY <2>1 DEF Lineage, OneOwner
    <2>3. Waiting(t) /\ \A u \in Rows' : Waiting(u)' => Waiting(u) /\ u \in Rows /\ u # t
      BY <1>2, <2>1 DEF Waiting, Lineage, OneOwner
    <2> QED
      BY <2>1, <2>2, <2>3, LineageTreats DEF Lineage
  <1>7. ASSUME NEW w \in Workers, NEW t \in Rows, TreatsNext(w, t)
        PROVE  Lineage'
    <2>1. /\ failing' = failing /\ t \in TodoOf(w) /\ Retry(t) /\ TodoOf(w)' = TodoOf(w) \ {t}
          /\ \A v \in Workers \ {w} : TodoOf(v)' = TodoOf(v)
      BY <1>7 DEF TreatsNext
    <2>2. OneOwner'
      BY <2>1 DEF Lineage, OneOwner
    <2>3. Waiting(t) /\ \A u \in Rows' : Waiting(u)' => Waiting(u) /\ u \in Rows /\ u # t
      BY <1>2, <2>1 DEF Waiting, Lineage, OneOwner
    <2> QED
      BY <2>1, <2>2, <2>3, LineageTreats DEF Lineage
  <1>8. CASE Crash
    <2>1. /\ failing' = {} /\ \A w \in Workers : TodoOf(w)' = {}
          /\ Rows' = Rows
      BY <1>8 DEF Crash, TodoOf, IdleWorker, Rows
    <2>2. OneOwner' /\ Childless'
      BY <2>1 DEF OneOwner, Childless, Waiting
    <2> QED
      BY <1>1, <2>1, <2>2, LineageKept DEF Lineage
  <1> QED
    BY <1>1, <1>3, <1>4, <1>5, <1>6, <1>7, <1>8, LineageAdds DEF RetryKind

(* Why a refused retry is not a lost one: the row the unique index refuses it
   for was created later, since a pending row admits no other of its pair. *)
PendingIsLast ==
    \A t, u \in Rows :
       (/\ task[t].agent = task[u].agent /\ task[t].link = task[u].link
        /\ task[u].link \in Issues /\ Pending(u) /\ task[t].status # "completed") => t <= u

LEMMA PendingIsLastInsert ==
    ASSUME IInv, PendingIsLast, NEW row, row.status = "queued", UniqueFree(row.agent, row.link),
           Rows' = Rows \cup {created + 1}, created + 1 \notin Rows,
           \A u \in Rows : task'[u] = task[u] /\ u < created + 1,
           task'[created + 1] = row
    PROVE  PendingIsLast'
  <1> DEFINE n == created + 1
  <1>1. n \in Nat /\ \A u \in Rows : u < n /\ u <= n
    BY DEF IInv, TypeOK, Rows
  <1>2. /\ Rows' = Rows \cup {n} /\ n \notin Rows /\ task'[n] = row
        /\ \A u \in Rows : task'[u] = task[u]
    OBVIOUS
  <1>3. n <= n
    BY <1>1
  <1> HIDE DEF n
  <1>4. ASSUME NEW t \in Rows', NEW u \in Rows',
               task'[t].agent = task'[u].agent, task'[t].link = task'[u].link,
               task'[u].link \in Issues, Pending(u)', task'[t].status # "completed"
        PROVE  t <= u
    <2>1. CASE u = n
      BY <1>1, <1>2, <1>3, <2>1
    <2>2. CASE u \in Rows /\ t = n
      BY <1>2, <1>4, <2>2 DEF UniqueFree, Pending
    <2>3. CASE u \in Rows /\ t \in Rows
      BY <1>2, <1>4, <2>3 DEF PendingIsLast, Pending
    <2> QED
      BY <1>2, <2>1, <2>2, <2>3
  <1> QED
    BY <1>4 DEF PendingIsLast

LEMMA PendingIsLastStep ==
    ASSUME IInv, IdleEmpty, PendingIsLast, [Next]_vars
    PROVE  PendingIsLast'
  <1>1. RetryKind /\ \A t \in Rows : Kept(t)
    BY StepKind, StepKeeps
  <1>2. CASE Rows' = Rows
    <2>1. \A t \in Rows : task'[t].status # "completed" =>
                             task'[t].link = task[t].link /\ task[t].status # "completed"
      BY <1>1 DEF Kept, Terminal
    <2>2. \A t \in Rows : Pending(t)' => Pending(t) /\ task'[t].status # "completed"
      BY <1>1 DEF Kept, Pending
    <2> QED
      BY <1>1, <1>2, <2>1, <2>2 DEF PendingIsLast, Kept
  <1>3. CASE AddsTriggered
    <2>1. PICK row \in Row : /\ row.status = "queued" /\ UniqueFree(row.agent, row.link)
                             /\ Insert(row)
      BY <1>3 DEF AddsTriggered
    <2>2. \A u \in Rows : u < created + 1
      BY DEF IInv, TypeOK, Rows
    <2> QED
      BY <2>1, <2>2, InsertType, PendingIsLastInsert DEF IInv, TypeOK
  <1>4. ASSUME NEW t \in Rows, Retry(t)
        PROVE  PendingIsLast'
    <2>1. CASE Retries(t)
      <3> DEFINE row == NewRow(task[t].agent, task[t].runtime, task[t].link,
                               task[t].attempt + 1, t)
      <3>1. row.status = "queued" /\ UniqueFree(row.agent, row.link)
        BY <2>1 DEF NewRow, Retries
      <3>2. /\ Rows' = Rows \cup {created + 1} /\ created + 1 \notin Rows
            /\ \A u \in Rows : task'[u] = task[u] /\ u < created + 1
            /\ task'[created + 1] = row
        BY <1>4, <2>1, RetryEffect DEF IInv
      <3> HIDE DEF row
      <3> QED
        BY <3>1, <3>2, PendingIsLastInsert
    <2>2. CASE ~ Retries(t)
      BY <1>2, <1>4, <2>2, RetryEffect DEF IInv
    <2> QED
      BY <2>1, <2>2
  <1> QED
    BY <1>1, <1>2, <1>3, <1>4
    DEF RetryKind, Still, FailsOne, FailsBatch, TreatsOne, TreatsNext, Crash, Rows

(* A failed row that qualifies for a retry waits for it or has a successor. *)
Followed(t) == \E u \in Rows : /\ u > t /\ task[u].agent = task[t].agent
                               /\ task[u].link = task[t].link

LEMMA FollowedKept ==
    ASSUME IInv, NEW t \in Rows, task[t].link \in Issues \cup Chats, Followed(t),
           \A u \in Rows : Kept(u), Rows \subseteq Rows'
    PROVE  Followed(t)'
  <1>1. PICK u \in Rows : u > t /\ task[u].agent = task[t].agent /\ task[u].link = task[t].link
    BY DEF Followed
  <1>2. u \in Rows' /\ task'[u].agent = task'[t].agent /\ task'[u].link = task'[t].link
    BY <1>1 DEF Kept
  <1> QED
    BY <1>1, <1>2 DEF Followed

(* Treating a row serves it: its retry follows it, or the row it is refused for. *)
LEMMA TreatedIsFollowed ==
    ASSUME IInv, PendingIsLast, NEW t \in Rows, Retry(t), CanRetry(t),
           task[t].status = "failed"
    PROVE  Followed(t)'
  <1>1. CASE Retries(t)
    <2> DEFINE n == created + 1
    <2>1. /\ Rows' = Rows \cup {n} /\ \A u \in Rows : task'[u] = task[u] /\ u < n
          /\ task'[n] = NewRow(task[t].agent, task[t].runtime, task[t].link, task[t].attempt + 1, t)
      BY <1>1, RetryEffect DEF IInv
    <2>2. n > t
      BY <2>1 DEF IInv, TypeOK, Rows
    <2> HIDE DEF n
    <2>3. n \in Rows' /\ task'[n].agent = task'[t].agent /\ task'[n].link = task'[t].link
      BY <2>1 DEF NewRow
    <2> QED
      BY <2>2, <2>3 DEF Followed
  <1>2. CASE ~ Retries(t)
    <2>1. Rows' = Rows /\ task' = task
      BY <1>2, RetryEffect DEF IInv
    <2>2. PICK u \in Rows : /\ task[u].agent = task[t].agent /\ task[u].link = task[t].link
                            /\ task[t].link \in Issues /\ Pending(u)
      BY <1>2 DEF Retries, UniqueFree
    <2>3. t <= u /\ t # u
      BY <2>2 DEF PendingIsLast, Pending
    <2>4. u > t
      BY <2>3 DEF Rows, IInv, TypeOK
    <2> QED
      BY <2>1, <2>2, <2>4 DEF Followed
  <1> QED
    BY <1>1, <1>2

NoneLost ==
    crashes = 0 => \A t \in Rows : (task[t].status = "failed" /\ CanRetry(t)) =>
                                      Waiting(t) \/ Followed(t)

LEMMA NoneLostStep ==
    ASSUME IInv, IdleEmpty, PendingIsLast, NoneLost, [Next]_vars
    PROVE  NoneLost'
  <1>1. RetryKind /\ \A t \in Rows : Kept(t)
    BY StepKind, StepKeeps
  <1>2. CASE Crash
    BY <1>2 DEF Crash, NoneLost, IInv, TypeOK
  <1> SUFFICES ASSUME ~ Crash, crashes' = 0, NEW t \in Rows',
                      task'[t].status = "failed", CanRetry(t)'
               PROVE  Waiting(t)' \/ Followed(t)'
    BY <1>2 DEF NoneLost
  <1>3. crashes = 0
    BY <1>1 DEF RetryKind, Still, AddsTriggered, FailsOne, FailsBatch, TreatsOne, TreatsNext
  <1>4. t \in Rows /\ Rows \subseteq Rows'
    <2>1. CASE Rows' = Rows
      BY <2>1
    <2>2. CASE AddsTriggered
      <3>1. PICK row \in Row : row.status = "queued" /\ Insert(row)
        BY <2>2 DEF AddsTriggered
      <3> QED
        BY <3>1, InsertType DEF IInv, TypeOK
    <2>3. ASSUME NEW u \in Rows, Retry(u)
          PROVE  t \in Rows /\ Rows \subseteq Rows'
      <3>1. CASE Rows' = Rows
        BY <3>1
      <3>2. CASE Retries(u)
        <4>1. /\ Rows' = Rows \cup {created + 1}
              /\ task'[created + 1] = NewRow(task[u].agent, task[u].runtime, task[u].link,
                                             task[u].attempt + 1, u)
          BY <2>3, <3>2, RetryEffect DEF IInv
        <4>2. task'[created + 1].status = "queued"
          BY <4>1 DEF NewRow
        <4> QED
          BY <4>1, <4>2
      <3> QED
        BY <2>3, <3>1, <3>2, RetryEffect DEF IInv
    <2> QED
      BY <1>1, <2>1, <2>2, <2>3
      DEF RetryKind, Still, FailsOne, FailsBatch, TreatsOne, TreatsNext, Rows
  <1>5. task[t].status = "failed" => CanRetry(t)
    BY <1>1, <1>4 DEF Kept, CanRetry, Terminal
  <1>6. task[t].status = "failed" => Waiting(t) \/ Followed(t)
    BY <1>3, <1>4, <1>5 DEF NoneLost
  <1>7. task[t].status = "failed" /\ Followed(t) => Followed(t)'
    BY <1>1, <1>4, <1>5, FollowedKept DEF CanRetry
  <1>8. CASE Still
    BY <1>4, <1>6, <1>7, <1>8 DEF Still, Waiting
  <1>9. CASE AddsTriggered
    <2>1. \A w \in Workers : TodoOf(w)' = TodoOf(w)
      BY <1>9 DEF AddsTriggered, TodoOf
    <2>2. task'[t] = task[t]
      <3>1. PICK row \in Row : Insert(row)
        BY <1>9 DEF AddsTriggered
      <3> QED
        BY <1>4, <3>1, InsertType DEF IInv, TypeOK
    <2> QED
      BY <1>6, <1>7, <1>9, <2>1, <2>2 DEF AddsTriggered, Waiting
  <1>10. ASSUME NEW S \in SUBSET Rows, NEW reason \in Reasons, Finish(S, "failed", reason),
                UNCHANGED created, \A u \in Rows : Waiting(u) => Waiting(u)',
                \A u \in S : Waiting(u)'
         PROVE  Waiting(t)' \/ Followed(t)'
    <2>1. t \notin S => task'[t] = task[t]
      <3>1. task' = [u \in Rows |-> IF u \in S THEN [task[u] EXCEPT !.status = "failed",
                                            !.reason = reason, !.age = 0] ELSE task[u]]
        BY <1>10 DEF Finish
      <3> QED
        BY <1>4, <3>1
    <2> QED
      BY <1>4, <1>6, <1>7, <1>10, <2>1
  <1>11. ASSUME NEW u \in Rows, FailsOne(u)
         PROVE  Waiting(t)' \/ Followed(t)'
    <2>1. PICK reason \in Reasons : Finish({u}, "failed", reason)
      BY <1>11 DEF FailsOne
    <2>2. \A x \in Rows : Waiting(x) => Waiting(x)'
      BY <1>11 DEF FailsOne, Waiting, TodoOf
    <2>3. \A x \in {u} : Waiting(x)'
      BY <1>11 DEF FailsOne, Waiting
    <2>4. {u} \in SUBSET Rows /\ UNCHANGED created
      BY <1>11 DEF FailsOne
    <2> QED
      BY <1>10, <2>1, <2>2, <2>3, <2>4
  <1>12. ASSUME NEW w \in Workers, NEW S \in SUBSET Rows, FailsBatch(w, S)
         PROVE  Waiting(t)' \/ Followed(t)'
    <2>1. PICK reason \in Reasons : Finish(S, "failed", reason)
      BY <1>12 DEF FailsBatch
    <2>2. \A x \in Rows : Waiting(x) => Waiting(x)'
      BY <1>12 DEF FailsBatch, Waiting
    <2>3. \A x \in S : Waiting(x)'
      BY <1>12 DEF FailsBatch, Waiting
    <2>4. UNCHANGED created
      BY <1>12 DEF FailsBatch
    <2> QED
      BY <1>10, <2>1, <2>2, <2>3, <2>4
  <1>13. ASSUME NEW u \in Rows, Retry(u), \A x \in Rows \ {u} : Waiting(x) => Waiting(x)'
         PROVE  Waiting(t)' \/ Followed(t)'
    <2>1. task'[t] = task[t]
      BY <1>4, <1>13, RetryEffect DEF IInv
    <2>2. CASE t = u
      BY <1>4, <1>5, <1>13, <2>1, <2>2, TreatedIsFollowed
    <2>3. CASE t # u
      BY <1>4, <1>6, <1>7, <1>13, <2>1, <2>3
    <2> QED
      BY <2>2, <2>3
  <1>14. ASSUME NEW u \in Rows, TreatsOne(u)
         PROVE  Waiting(t)' \/ Followed(t)'
    <2>1. \A x \in Rows \ {u} : Waiting(x) => Waiting(x)'
      BY <1>14 DEF TreatsOne, Waiting, TodoOf
    <2> QED
      BY <1>13, <1>14, <2>1 DEF TreatsOne
  <1>15. ASSUME NEW w \in Workers, NEW u \in Rows, TreatsNext(w, u)
         PROVE  Waiting(t)' \/ Followed(t)'
    <2>1. \A x \in Rows \ {u} : Waiting(x) => Waiting(x)'
      BY <1>15 DEF TreatsNext, Waiting
    <2> QED
      BY <1>13, <1>15, <2>1 DEF TreatsNext
  <1> QED
    BY <1>1, <1>8, <1>9, <1>11, <1>12, <1>14, <1>15 DEF RetryKind

(* The invariant of the retries, beside the one of the lanes. *)
IRetry == IdleEmpty /\ Lineage /\ PendingIsLast /\ NoneLost

LEMMA InitRetry == Init => IRetry
  <1> SUFFICES ASSUME Init PROVE IRetry
    OBVIOUS
  <1>1. Rows = {} /\ failing = {} /\ \A w \in Workers : work[w] = IdleWorker
    BY DEF Init, Rows
  <1>2. \A w \in Workers : TodoOf(w) = {}
    BY <1>1 DEF TodoOf, IdleWorker
  <1> QED
    BY <1>1, <1>2 DEF IRetry, IdleEmpty, IdleWorker, Lineage, RetryLineage, ChildLink, OneOwner,
                      Childless, PendingIsLast, NoneLost

(* Failed rows, their retries and the pipelines that hold them stay in step. *)
THEOREM InductiveRetry == Spec => []IRetry
  <1>1. IInv /\ IRetry /\ [Next]_vars => IRetry'
    BY IdleEmptyStep, LineageStep, PendingIsLastStep, NoneLostStep DEF IRetry
  <1> QED
    BY <1>1, InitRetry, Inductive, PTL DEF Spec

(* A retry continues a failed row within max_attempts and no row is retried
   twice, for any number of pipelines and daemons failing the same rows. *)
THEOREM RetriesHaveLineage == Spec => []RetryLineage
  <1>1. IRetry => RetryLineage
    BY DEF IRetry, Lineage
  <1> QED
    BY <1>1, InductiveRetry, PTL

(* While the server stays up no failure that qualifies for a retry is dropped. *)
THEOREM NoFailureDropped == Spec => []NoRetryLost
  <1>1. IRetry => NoRetryLost
    BY AwaitingIsWaiting DEF IRetry, NoneLost, NoRetryLost, Followed
  <1> QED
    BY <1>1, InductiveRetry, PTL

-----------------------------------------------------------------------------
(* The status of agents. Only the rows an archive cancels are reconciled by
   nobody, and agents nobody may archive are never archived. *)
NeverArchived == \A a \in Agents \ Archivable : agent[a] = "active"

LEMMA NeverArchivedStep == ASSUME IInv, NeverArchived, [Next]_vars PROVE NeverArchived'
  <1>1. CASE \E a \in Agents : ArchiveAgent(a) \/ CancelOnArchive(a) \/ RestoreAgent(a)
    BY <1>1 DEF NeverArchived, ArchiveAgent, CancelOnArchive, RestoreAgent, IInv, TypeOK
  <1>2. CASE Crash
    BY <1>2 DEF NeverArchived, Crash
  <1>3. CASE UNCHANGED agent
    BY <1>3 DEF NeverArchived
  <1> QED
    BY <1>1, <1>2, <1>3
    DEF Next, Enqueue, Admit, InsertAdmitted, Claim, Reclaim, ListCandidates, CountRunning,
        SelectRow, CommitClaim, ClaimFails, Daemon, StartTask, CompleteTask, FailTask,
        RetryAfterFail, User, Cancel, CancelOnStatus, SetIssueStatus, Sweep, MarkOffline,
        FailOffline, NothingOffline, FailStale, ExpireQueued, RecoverOrphans, Batch, RetryNext,
        CheckIssue, ResetIssue, NextFailed, Heartbeat, Deregister, Reconcile, GrowOld, vars

Faithful(a) == Reconciling(a) \/ working[a] = (ActiveOf(a) # {})

(* A step that does not concern the agent. *)
Unconcerned(a) ==
    /\ working'[a] = working[a]
    /\ ActiveOf(a)' = ActiveOf(a)
    /\ Reconciling(a) => Reconciling(a)'

LEMMA UnconcernedFaithful ==
    ASSUME NEW a, Unconcerned(a), Faithful(a)
    PROVE  Faithful(a)'
  BY DEF Unconcerned, Faithful

LEMMA ActiveKept ==
    ASSUME NEW a, Rows' = Rows,
           \A t \in Rows : /\ task'[t].agent = task[t].agent
                           /\ task[t].agent = a => (Active(t)' <=> Active(t))
    PROVE  ActiveOf(a)' = ActiveOf(a)
  BY DEF ActiveOf

LEMMA ActiveInsert ==
    ASSUME NEW a, NEW n, Rows' = Rows \cup {n}, \A t \in Rows : task'[t] = task[t],
           task'[n].status = "queued"
    PROVE  ActiveOf(a)' = ActiveOf(a)
  BY DEF ActiveOf, Active

(* What is owed an agent stays owed unless it is paid. *)
LEMMA ReconcilingKept ==
    ASSUME IInv, NEW a, Reconciling(a),
           \A t \in Rows : task'[t].agent = task[t].agent,
           a \in owed => a \in owed',
           \A w \in Workers : a \in work[w].agents => a \in work'[w].agents \/ a \in owed',
           \A t \in failing : task[t].agent = a => t \in failing'
    PROVE  Reconciling(a)'
  <1>1. CASE a \in owed \/ \E w \in Workers : a \in work[w].agents
    BY <1>1 DEF Reconciling
  <1>2. ASSUME NEW t \in failing, task[t].agent = a
        PROVE  Reconciling(a)'
    <2>1. t \in Rows /\ t \in failing' /\ task'[t].agent = a
      BY <1>2 DEF IInv, TypeOK
    <2> QED
      BY <2>1 DEF Reconciling
  <1> QED
    BY <1>1, <1>2 DEF Reconciling

(* Rows of S end; whoever ends them sees to it that their agents are owed. *)
LEMMA FinishFaithful ==
    ASSUME IInv, NEW a \in Agents, NEW S \in SUBSET Rows, NEW st \in Terminal, NEW reason \in Reasons,
           Finish(S, st, reason), UNCHANGED created, UNCHANGED working,
           Faithful(a),
           a \in AgentsOf(S) => Reconciling(a)',
           Reconciling(a) => Reconciling(a)'
    PROVE  Faithful(a)'
  <1>1. CASE a \in AgentsOf(S)
    BY <1>1 DEF Faithful
  <1>2. CASE a \notin AgentsOf(S)
    <2>0. st \in Status
      BY DEF Terminal, Status
    <2>1. /\ Rows' = Rows
          /\ task' \in [Rows' -> Row]
          /\ \A t \in Rows :
                /\ task'[t].agent = task[t].agent /\ task'[t].link = task[t].link
                /\ t \in S => task'[t].status = st
                /\ t \notin S => task'[t] = task[t]
      BY <2>0, FinishType DEF IInv, TypeOK
    <2>2. \A t \in Rows : task[t].agent = a => task'[t] = task[t]
      BY <1>2, <2>1 DEF AgentsOf
    <2>3. ActiveOf(a)' = ActiveOf(a)
      BY <2>1, <2>2, ActiveKept DEF Active
    <2> QED
      BY <2>3, UnconcernedFaithful DEF Unconcerned
  <1> QED
    BY <1>1, <1>2

(* Rows change without becoming active or ceasing to be. *)
LEMMA RowsFaithful ==
    ASSUME IInv, NEW a \in Agents, Faithful(a), UNCHANGED <<failing, work, owed, working>>,
           ActiveOf(a)' = ActiveOf(a), \A t \in Rows : task'[t].agent = task[t].agent
    PROVE  Faithful(a)'
  <1>1. Reconciling(a) => Reconciling(a)'
    BY ReconcilingKept
  <1> QED
    BY <1>1, UnconcernedFaithful DEF Unconcerned

LEMMA RetryActive ==
    ASSUME IInv, NEW t \in Rows, NEW a, Retry(t)
    PROVE  ActiveOf(a)' = ActiveOf(a) /\ \A u \in Rows : task'[u] = task[u]
  <1>1. CASE Retries(t)
    <2> DEFINE n == created + 1
    <2>1. /\ Rows' = Rows \cup {n} /\ \A u \in Rows : task'[u] = task[u]
          /\ task'[n] = NewRow(task[t].agent, task[t].runtime, task[t].link, task[t].attempt + 1, t)
      BY <1>1, RetryEffect DEF IInv
    <2> HIDE DEF n
    <2>2. task'[n].status = "queued"
      BY <2>1 DEF NewRow
    <2> QED
      BY <2>1, <2>2, ActiveInsert
  <1>2. CASE ~ Retries(t)
    <2>1. Rows' = Rows /\ task' = task
      BY <1>2, RetryEffect DEF IInv
    <2> QED
      BY <2>1 DEF ActiveOf, Active
  <1> QED
    BY <1>1, <1>2

LEMMA ClaimFaithful ==
    ASSUME IInv, NEW a \in Agents, Faithful(a), Claim
    PROVE  Faithful(a)'
  <1> USE DEF IInv
  <1>1. CASE UNCHANGED <<created, task, failing, work, owed, working>>
    BY <1>1 DEF Faithful, Reconciling, ActiveOf, Active, Rows
  <1>2. ASSUME NEW q \in Requests, NEW t \in Rows, Reclaim(q, t)
        PROVE  Faithful(a)'
    <2>1. /\ Rows' = Rows
          /\ \A u \in Rows : task'[u].status = task[u].status /\ task'[u].agent = task[u].agent
      BY <1>2 DEF Reclaim, TypeOK, Row, Rows
    <2>2. ActiveOf(a)' = ActiveOf(a)
      BY <2>1, ActiveKept DEF Active
    <2> QED
      BY <1>2, <2>1, <2>2, RowsFaithful DEF Reclaim
  <1>3. ASSUME NEW q \in Requests, CommitClaim(q)
        PROVE  Faithful(a)'
    <2> DEFINE t == claim[q].row
    <2>1. /\ task' = [task EXCEPT ![t] = [@ EXCEPT !.status = "dispatched", !.age = 0]]
          /\ owed' = owed \cup {task[t].agent} /\ UNCHANGED <<created, failing, work, working>>
      BY <1>3 DEF CommitClaim
    <2>2. /\ Rows' = Rows /\ \A u \in Rows : task'[u].agent = task[u].agent
          /\ \A u \in Rows \ {t} : task'[u] = task[u]
      BY <2>1 DEF TypeOK, Row, Rows
    <2>3. CASE a = task[t].agent
      BY <2>1, <2>3 DEF Faithful, Reconciling
    <2>4. CASE a # task[t].agent
      <3> HIDE DEF t
      <3>1. ActiveOf(a)' = ActiveOf(a)
        BY <2>2, <2>4, ActiveKept DEF Active
      <3>2. Reconciling(a) => Reconciling(a)'
        BY <2>1, <2>2, ReconcilingKept
      <3> QED
        BY <2>1, <3>1, <3>2, UnconcernedFaithful DEF Unconcerned
    <2> QED
      BY <2>3, <2>4
  <1> QED
    BY <1>1, <1>2, <1>3 DEF Claim, ListCandidates, CountRunning, SelectRow, ClaimFails

LEMMA DaemonFaithful ==
    ASSUME IInv, NEW a \in Agents, Faithful(a), Daemon
    PROVE  Faithful(a)'
  <1> USE DEF IInv
  <1>1. ASSUME NEW t \in Rows, StartTask(t)
        PROVE  Faithful(a)'
    <2>1. task' = [task EXCEPT ![t] = [@ EXCEPT !.status = "running", !.age = 0]]
      BY <1>1 DEF StartTask
    <2>2. /\ Rows' = Rows
          /\ \A u \in Rows : task'[u].agent = task[u].agent /\ (Active(u)' <=> Active(u))
      BY <1>1, <2>1 DEF StartTask, TypeOK, Row, Rows, Active
    <2>3. ActiveOf(a)' = ActiveOf(a)
      BY <2>2, ActiveKept
    <2> QED
      BY <1>1, <2>2, <2>3, RowsFaithful DEF StartTask
  <1>2. ASSUME NEW t \in Rows, CompleteTask(t)
        PROVE  Faithful(a)'
    <2>1. PICK l \in {task[t].link} \cup (IF task[t].link = QuickCreate THEN Issues ELSE {}) :
            task' = [task EXCEPT ![t] = [@ EXCEPT !.status = "completed", !.age = 0, !.link = l]]
      BY <1>2 DEF CompleteTask
    <2>2. /\ owed' = owed \cup {task[t].agent} /\ UNCHANGED <<created, failing, work, working>>
      BY <1>2 DEF CompleteTask
    <2>3. /\ Rows' = Rows /\ \A u \in Rows : task'[u].agent = task[u].agent
          /\ \A u \in Rows \ {t} : task'[u] = task[u]
      BY <2>1, <2>2 DEF TypeOK, Row, Rows
    <2>4. CASE a = task[t].agent
      BY <2>2, <2>4 DEF Faithful, Reconciling
    <2>5. CASE a # task[t].agent
      <3>1. ActiveOf(a)' = ActiveOf(a)
        BY <2>3, <2>5, ActiveKept DEF Active
      <3>2. Reconciling(a) => Reconciling(a)'
        BY <2>2, <2>3, ReconcilingKept
      <3> QED
        BY <2>2, <3>1, <3>2, UnconcernedFaithful DEF Unconcerned
    <2> QED
      BY <2>4, <2>5
  <1>3. ASSUME NEW t \in Rows, NEW reason \in DaemonReasons, FailTask(t, reason)
        PROVE  Faithful(a)'
    <2>1. /\ UNCHANGED created /\ UNCHANGED working /\ failing' = failing \cup {t}
          /\ work' = work /\ owed' = owed
          /\ reason \in Reasons /\ "failed" \in Terminal /\ {t} \in SUBSET Rows
      BY <1>3 DEF FailTask, Reasons, Terminal
    <2>2. Finish({t}, "failed", reason)
      BY <1>3 DEF FailTask
    <2>3. \A u \in Rows : task'[u].agent = task[u].agent
      BY <1>3, FinishKeeps DEF FailTask, Live, Kept, Terminal
    <2>4. a \in AgentsOf({t}) => Reconciling(a)'
      BY <2>1, <2>3 DEF AgentsOf, Reconciling
    <2>5. Reconciling(a) => Reconciling(a)'
      BY <2>1, <2>3, ReconcilingKept
    <2> QED
      BY <2>1, <2>2, <2>4, <2>5, FinishFaithful
  <1>4. ASSUME NEW t \in Rows, RetryAfterFail(t)
        PROVE  Faithful(a)'
    <2>1. /\ Retry(t) /\ failing' = failing \ {t} /\ owed' = owed \cup {task[t].agent}
          /\ work' = work /\ working' = working
      BY <1>4 DEF RetryAfterFail
    <2>2. ActiveOf(a)' = ActiveOf(a) /\ \A u \in Rows : task'[u].agent = task[u].agent
      BY <2>1, RetryActive
    <2>3. CASE a = task[t].agent
      BY <2>1, <2>3 DEF Faithful, Reconciling
    <2>4. CASE a # task[t].agent
      <3>1. Reconciling(a) => Reconciling(a)'
        BY <2>1, <2>2, <2>4, ReconcilingKept
      <3> QED
        BY <2>1, <2>2, <3>1, UnconcernedFaithful DEF Unconcerned
    <2> QED
      BY <2>3, <2>4
  <1> QED
    BY <1>1, <1>2, <1>3, <1>4 DEF Daemon

LEMMA UserFaithful ==
    ASSUME IInv, NeverArchived, NEW a \in Agents \ Archivable, Faithful(a), User
    PROVE  Faithful(a)'
  <1> USE DEF IInv
  <1>1. CASE UNCHANGED <<created, task, failing, work, owed, working>>
    BY <1>1 DEF Faithful, Reconciling, ActiveOf, Active, Rows
  <1>2. ASSUME NEW S \in SUBSET Rows, \A t \in S : Live(t), Finish(S, "cancelled", "none"),
               UNCHANGED created, UNCHANGED failing, UNCHANGED work, UNCHANGED working,
               owed \subseteq owed', a \in AgentsOf(S) => a \in owed'
        PROVE  Faithful(a)'
    <2>1. "cancelled" \in Terminal /\ "none" \in Reasons
      BY DEF Terminal, Reasons
    <2>2. \A u \in Rows : task'[u].agent = task[u].agent
      BY <1>2, <2>1, FinishKeeps DEF Kept
    <2>3. a \in AgentsOf(S) => Reconciling(a)'
      BY <1>2 DEF Reconciling
    <2>4. Reconciling(a) => Reconciling(a)'
      BY <1>2, <2>2, ReconcilingKept
    <2> QED
      BY <1>2, <2>1, <2>3, <2>4, FinishFaithful
  <1>3. ASSUME NEW scope \in CancelScope, Cancel(scope)
        PROVE  Faithful(a)'
    <2> DEFINE S == {t \in scope : Live(t)}
    <2>1. scope \subseteq Rows
      BY DEF CancelScope
    <2>2. /\ S \in SUBSET Rows /\ \A t \in S : Live(t)
      BY <2>1
    <2>3. /\ Finish(S, "cancelled", "none") /\ owed' = OwedFor(S)
          /\ UNCHANGED created /\ UNCHANGED failing /\ UNCHANGED work /\ UNCHANGED working
      BY <1>3 DEF Cancel
    <2> HIDE DEF S
    <2> QED
      BY <1>2, <2>2, <2>3 DEF OwedFor
  <1>4. ASSUME NEW i \in Issues, CancelOnStatus(i)
        PROVE  Faithful(a)'
    <2>1. LiveOn(i) \in SUBSET Rows /\ \A t \in LiveOn(i) : Live(t)
      BY DEF LiveOn
    <2>2. /\ Finish(LiveOn(i), "cancelled", "none") /\ owed' = OwedFor(LiveOn(i))
          /\ UNCHANGED created /\ UNCHANGED failing /\ UNCHANGED work /\ UNCHANGED working
      BY <1>4 DEF CancelOnStatus
    <2> QED
      BY <1>2, <2>1, <2>2 DEF OwedFor
  <1>5. ASSUME NEW b \in Agents, CancelOnArchive(b)
        PROVE  Faithful(a)'
    <2> DEFINE S == {t \in Rows : task[t].agent = b /\ Live(t)}
    <2>1. a # b
      BY <1>5 DEF CancelOnArchive, NeverArchived
    <2>2. S \in SUBSET Rows /\ (\A t \in S : Live(t)) /\ a \notin AgentsOf(S)
      BY <2>1 DEF AgentsOf
    <2>3. /\ Finish(S, "cancelled", "none") /\ owed' = owed
          /\ UNCHANGED created /\ UNCHANGED failing /\ UNCHANGED work /\ UNCHANGED working
      BY <1>5 DEF CancelOnArchive
    <2> HIDE DEF S
    <2> QED
      BY <1>2, <2>2, <2>3
  <1> QED
    BY <1>1, <1>3, <1>4, <1>5 DEF User, ArchiveAgent, RestoreAgent, SetIssueStatus

LEMMA SweepFaithful ==
    ASSUME IInv, IdleEmpty, NEW a \in Agents, Faithful(a), Sweep
    PROVE  Faithful(a)'
  <1> USE DEF IInv
  <1> DEFINE W == [pc : WorkerPC, todo : SUBSET Rows, cur : Nat, agents : SUBSET Agents,
                   processed : SUBSET Links, retried : SUBSET Links]
  <1>0. work \in [Workers -> W]
    BY DEF TypeOK
  <1>1. PICK w \in Workers :
           \/ \E stale \in SUBSET Runtimes : MarkOffline(w, stale)
           \/ \E r \in Runtimes : RecoverOrphans(w, r)
           \/ FailOffline(w) \/ NothingOffline(w)
           \/ FailStale(w) \/ ExpireQueued(w)
           \/ \E t \in Rows : RetryNext(w, t)
           \/ CheckIssue(w) \/ ResetIssue(w)
    BY DEF Sweep
  <1>2. IdleWorker.pc = "idle" /\ IdleWorker.agents = {}
    BY DEF IdleWorker
  (* A bulk failure: the pipeline owes the agents of its batch. *)
  <1>3. ASSUME NEW S \in SUBSET Rows, \A t \in S : Live(t), NEW reason \in Reasons,
               work[w].pc \in {"idle", "offline"}, Batch(w, S, reason)
        PROVE  Faithful(a)'
    <2>1. /\ Finish(S, "failed", reason) /\ "failed" \in Terminal
          /\ UNCHANGED created /\ UNCHANGED working /\ owed' = owed /\ failing' = failing
      BY <1>3 DEF Batch, Terminal
    <2>2. /\ work'[w].agents = AgentsOf(S)
          /\ \A v \in Workers \ {w} : work'[v] = work[v]
      BY <1>0, <1>3 DEF Batch, IdleWorker
    <2>3. \A u \in Rows : task'[u].agent = task[u].agent
      BY <1>3, <2>1, FinishKeeps DEF Kept
    <2>4. work[w].agents = {}
      BY <1>3 DEF IdleEmpty
    <2>5. a \in AgentsOf(S) => Reconciling(a)'
      BY <2>2 DEF Reconciling
    <2>6. Reconciling(a) => Reconciling(a)'
      BY <2>1, <2>2, <2>3, <2>4, ReconcilingKept
    <2> QED
      BY <1>3, <2>1, <2>5, <2>6, FinishFaithful
  <1>4. /\ "runtime_offline" \in Reasons /\ "timeout" \in Reasons
        /\ "queued_expired" \in Reasons /\ "runtime_recovery" \in Reasons
    BY DEF Reasons, retryableReasons
  <1>5. ASSUME NEW r \in Runtimes, RecoverOrphans(w, r)
        PROVE  Faithful(a)'
    <2> DEFINE S == {t \in Rows : Active(t) /\ task[t].runtime = r}
    <2>1. S \in SUBSET Rows /\ \A t \in S : Live(t)
      BY DEF Live
    <2>2. Batch(w, S, "runtime_recovery") /\ work[w].pc = "idle"
      BY <1>2, <1>5 DEF RecoverOrphans
    <2> HIDE DEF S
    <2> QED
      BY <1>3, <1>4, <2>1, <2>2
  <1>6. ASSUME FailOffline(w)
        PROVE  Faithful(a)'
    <2>1. OfflineRows \in SUBSET Rows /\ \A t \in OfflineRows : Live(t)
      BY DEF Live, OfflineRows
    <2> QED
      BY <1>3, <1>4, <1>6, <2>1 DEF FailOffline
  <1>7. ASSUME FailStale(w)
        PROVE  Faithful(a)'
    <2> DEFINE S == {t \in Rows : Overdue(t)}
    <2>1. S \in SUBSET Rows /\ \A t \in S : Live(t)
      BY DEF Live, Overdue
    <2>2. Batch(w, S, "timeout") /\ work[w].pc = "idle"
      BY <1>2, <1>7 DEF FailStale
    <2> HIDE DEF S
    <2> QED
      BY <1>3, <1>4, <2>1, <2>2
  <1>8. ASSUME ExpireQueued(w)
        PROVE  Faithful(a)'
    <2> DEFINE S == {t \in Rows : Expired(t) /\ t \notin Locked}
    <2>1. S \in SUBSET Rows /\ \A t \in S : Live(t)
      BY DEF Live, Expired
    <2>2. Batch(w, S, "queued_expired") /\ work[w].pc = "idle"
      BY <1>2, <1>8 DEF ExpireQueued
    <2> HIDE DEF S
    <2> QED
      BY <1>3, <1>4, <2>1, <2>2
  <1>9. ASSUME NEW t \in Rows, RetryNext(w, t)
        PROVE  Faithful(a)'
    <2>1. /\ Retry(t) /\ failing' = failing /\ owed' = owed /\ working' = working
      BY <1>9 DEF RetryNext
    <2>2. \A v \in Workers : work'[v].agents = work[v].agents
      BY <1>0, <1>9 DEF RetryNext
    <2>3. ActiveOf(a)' = ActiveOf(a) /\ \A u \in Rows : task'[u].agent = task[u].agent
      BY <2>1, RetryActive
    <2>4. Reconciling(a) => Reconciling(a)'
      BY <2>1, <2>2, <2>3, ReconcilingKept
    <2> QED
      BY <2>1, <2>3, <2>4, UnconcernedFaithful DEF Unconcerned
  (* The steps that leave the rows alone. *)
  <1>10. ASSUME UNCHANGED <<created, task, failing, working>>, owed \subseteq owed',
                \A v \in Workers : a \in work[v].agents => a \in work'[v].agents \/ a \in owed'
         PROVE  Faithful(a)'
    <2>1. ActiveOf(a)' = ActiveOf(a)
      BY <1>10 DEF ActiveOf, Active, Rows
    <2>2. Reconciling(a) => Reconciling(a)'
      BY <1>10, ReconcilingKept
    <2> QED
      BY <1>10, <2>1, <2>2, UnconcernedFaithful DEF Unconcerned
  <1>11. ASSUME NEW processed, NextFailed(w, processed),
                UNCHANGED <<created, task, failing, working>>
         PROVE  Faithful(a)'
    <2> DEFINE rest == work[w].todo \ {work[w].cur}
    <2>1. \A v \in Workers \ {w} : work'[v] = work[v]
      BY <1>0, <1>11 DEF NextFailed
    <2>2. CASE rest = {}
      BY <1>10, <1>11, <2>1, <2>2 DEF NextFailed
    <2>3. CASE rest # {}
      <3>1. work'[w].agents = work[w].agents /\ owed' = owed
        BY <1>0, <1>11, <2>3 DEF NextFailed
      <3> QED
        BY <1>10, <1>11, <2>1, <3>1
    <2> QED
      BY <2>2, <2>3
  <1>12. CASE NothingOffline(w)
    <2>1. /\ \A v \in Workers \ {w} : work'[v] = work[v]
          /\ work[w].agents = {}
      BY <1>0, <1>12 DEF NothingOffline, IdleEmpty
    <2> QED
      BY <1>10, <1>12, <2>1 DEF NothingOffline
  <1>13. ASSUME NEW stale \in SUBSET Runtimes, MarkOffline(w, stale)
         PROVE  Faithful(a)'
    <2>1. \A v \in Workers : work'[v].agents = work[v].agents
      BY <1>0, <1>13 DEF MarkOffline
    <2> QED
      BY <1>10, <1>13, <2>1 DEF MarkOffline
  <1>14. CASE CheckIssue(w)
    <2>1. CASE UNCHANGED owed /\
               work' = [work EXCEPT ![w] = [@ EXCEPT !.pc = "reset",
                          !.processed = work[w].processed \cup {task[work[w].cur].link}]]
      <3>1. \A v \in Workers : work'[v].agents = work[v].agents
        BY <1>0, <2>1
      <3> QED
        BY <1>10, <1>14, <2>1, <3>1 DEF CheckIssue
    <2> QED
      BY <1>11, <1>14, <2>1 DEF CheckIssue
  <1>15. CASE ResetIssue(w)
    BY <1>11, <1>15 DEF ResetIssue
  <1> QED
    BY <1>1, <1>5, <1>6, <1>7, <1>8, <1>9, <1>12, <1>13, <1>14, <1>15

AllFaithful == crashes = 0 => \A a \in Agents \ Archivable : Faithful(a)

LEMMA FaithfulStep ==
    ASSUME IInv, IdleEmpty, NeverArchived, AllFaithful, [Next]_vars
    PROVE  AllFaithful'
  <1> SUFFICES ASSUME crashes' = 0, NEW a \in Agents \ Archivable
               PROVE  Faithful(a)'
    BY DEF AllFaithful
  <1>1. crashes' = crashes
    <2>1. RetryKind
      BY StepKind
    <2>2. ~ Crash
      BY DEF Crash, IInv, TypeOK
    <2> QED
      BY <2>1, <2>2
      DEF RetryKind, Still, AddsTriggered, FailsOne, FailsBatch, TreatsOne, TreatsNext
  <1>2. Faithful(a) /\ a \in Agents
    BY <1>1 DEF AllFaithful
  <1>3. CASE UNCHANGED <<created, task, failing, work, owed, working>>
    BY <1>2, <1>3 DEF Faithful, Reconciling, ActiveOf, Active, Rows
  <1>4. CASE Enqueue
    <2>1. ASSUME NEW e \in admitted, InsertAdmitted(e), UniqueFree(e.agent, e.link)
          PROVE  Faithful(a)'
      <3> DEFINE row == NewRow(e.agent, e.runtime, e.link, 1, 0)
                 n == created + 1
      <3>1. row \in Row /\ row.status = "queued"
        BY NewRowType DEF IInv, TypeOK, NewRow
      <3>2. Insert(row)
        BY <2>1 DEF InsertAdmitted
      <3>3. /\ Rows' = Rows \cup {n} /\ \A t \in Rows : task'[t] = task[t]
            /\ task'[n] = row
        BY <3>1, <3>2, InsertType DEF IInv, TypeOK
      <3> HIDE DEF row, n
      <3>4. ActiveOf(a)' = ActiveOf(a)
        BY <3>1, <3>3, ActiveInsert
      <3> QED
        BY <1>2, <2>1, <3>3, <3>4, RowsFaithful DEF InsertAdmitted
    <2> QED
      BY <1>3, <1>4, <2>1 DEF Enqueue, Admit, InsertAdmitted
  <1>5. ASSUME NEW t \in Rows, GrowOld(t)
        PROVE  Faithful(a)'
    <2>1. /\ Rows' = Rows
          /\ \A u \in Rows : task'[u].status = task[u].status /\ task'[u].agent = task[u].agent
      BY <1>5 DEF GrowOld, IInv, TypeOK, Row, Rows
    <2>2. ActiveOf(a)' = ActiveOf(a)
      BY <2>1, ActiveKept DEF Active
    <2> QED
      BY <1>2, <1>5, <2>1, <2>2, RowsFaithful DEF GrowOld
  <1>6. ASSUME NEW b \in Agents, Reconcile(b)
        PROVE  Faithful(a)'
    <2>1. ActiveOf(a)' = ActiveOf(a)
      BY <1>6 DEF Reconcile, ActiveOf, Active, Rows
    <2>2. CASE a = b
      <3>1. working'[a] = (ActiveOf(a) # {})
        BY <1>2, <1>6, <2>2 DEF Reconcile, IInv, TypeOK
      <3> QED
        BY <2>1, <3>1 DEF Faithful
    <2>3. CASE a # b
      <3>1. working'[a] = working[a]
        BY <1>2, <1>6, <2>3 DEF Reconcile, IInv, TypeOK
      <3>2. Reconciling(a) => Reconciling(a)'
        BY <1>6, <2>3 DEF Reconcile, Reconciling
      <3> QED
        BY <1>2, <2>1, <3>1, <3>2, UnconcernedFaithful DEF Unconcerned
    <2> QED
      BY <2>2, <2>3
  <1>7. ~ Crash
    BY <1>1 DEF Crash, IInv, TypeOK
  <1> QED
    BY <1>2, <1>3, <1>4, <1>5, <1>6, <1>7, ClaimFaithful, DaemonFaithful, UserFaithful, SweepFaithful
    DEF Next, Heartbeat, Deregister, vars

(* While the server stays up, the status of an agent nobody may archive says
   whether it has active rows or some procedure will still correct it. *)
THEOREM StatusesFaithful == Spec => []StatusFaithful
  <1> DEFINE I == NeverArchived /\ AllFaithful
  <1>1. Init => I
    <2> SUFFICES ASSUME Init PROVE I
      OBVIOUS
    <2>1. NeverArchived
      BY DEF Init, NeverArchived
    <2>2. ASSUME NEW a \in Agents
          PROVE  Faithful(a)
      <3>1. ActiveOf(a) = {} /\ working[a] = FALSE
        BY DEF Init, ActiveOf, Rows
      <3> QED
        BY <3>1 DEF Faithful
    <2> QED
      BY <2>1, <2>2 DEF AllFaithful
  <1>2. IInv /\ IRetry /\ I /\ [Next]_vars => I'
    BY NeverArchivedStep, FaithfulStep DEF IRetry
  <1>3. I => StatusFaithful
    BY DEF AllFaithful, Faithful, StatusFaithful
  <1> HIDE DEF I
  <1> QED
    BY <1>1, <1>2, <1>3, Inductive, InductiveRetry, PTL DEF Spec

-----------------------------------------------------------------------------
(* Overshoot. A row becomes active only when a claim commits, and a claim that
   has counted stands for the row it may commit: the sum grows only when a
   claim finds the agent below its limit. *)
Bounded(a) == Cardinality(ActiveOf(a)) + Cardinality(Claiming(a))
                 <= MaxConcurrent + Cardinality(Requests) - 1

LEMMA Sizes ==
    ASSUME IInv, NEW a
    PROVE  /\ IsFiniteSet(ActiveOf(a)) /\ Cardinality(ActiveOf(a)) \in Nat
           /\ IsFiniteSet(Claiming(a)) /\ Cardinality(Claiming(a)) \in Nat
           /\ Cardinality(Claiming(a)) <= Cardinality(Requests)
           /\ Cardinality(Requests) \in Nat
  <1>1. IsFiniteSet(Rows)
    <2>1. 1 \in Int /\ created \in Int
      BY DEF IInv, TypeOK
    <2> QED
      BY <2>1, FS_Interval DEF Rows
  <1>2. ActiveOf(a) \in SUBSET Rows /\ Claiming(a) \in SUBSET Requests
    BY DEF ActiveOf, Claiming
  <1>3. IsFiniteSet(ActiveOf(a))
    BY <1>1, <1>2, FS_Subset
  <1>4. IsFiniteSet(Claiming(a)) /\ Cardinality(Claiming(a)) <= Cardinality(Requests)
    BY <1>2, FiniteAssumption, FS_Subset
  <1> QED
    BY <1>3, <1>4, FiniteAssumption, FS_CardinalityType

LEMMA Shrinks ==
    ASSUME IInv, NEW a, Bounded(a),
           ActiveOf(a)' \subseteq ActiveOf(a), Claiming(a)' \subseteq Claiming(a)
    PROVE  Bounded(a)'
  <1> DEFINE A == ActiveOf(a)
             C == Claiming(a)
             B == ActiveOf(a)'
             D == Claiming(a)'
  <1>1. /\ IsFiniteSet(A) /\ Cardinality(A) \in Nat
        /\ IsFiniteSet(C) /\ Cardinality(C) \in Nat /\ Cardinality(Requests) \in Nat
    BY Sizes
  <1>2. B \in SUBSET A /\ D \in SUBSET C
    OBVIOUS
  <1>3. Cardinality(A) + Cardinality(C) <= MaxConcurrent + Cardinality(Requests) - 1
    BY DEF Bounded
  <1>4. Cardinality(B) + Cardinality(D) <= MaxConcurrent + Cardinality(Requests) - 1
    <2> HIDE DEF A, B, C, D
    <2>1. IsFiniteSet(B) /\ Cardinality(B) <= Cardinality(A)
      BY <1>1, <1>2, FS_Subset
    <2>2. IsFiniteSet(D) /\ Cardinality(D) <= Cardinality(C)
      BY <1>1, <1>2, FS_Subset
    <2>3. Cardinality(B) \in Nat /\ Cardinality(D) \in Nat
      BY <2>1, <2>2, FS_CardinalityType
    <2> QED
      BY <1>1, <1>3, <2>1, <2>2, <2>3, NumbersAssumption
  <1> QED
    BY <1>4 DEF Bounded

(* The order of the candidates is total: a claim is at one agent at a time. *)
LEMMA OneAgent ==
    ASSUME IInv, NEW q \in Requests, NEW a, NEW b, AtAgent(q, a), AtAgent(q, b)
    PROVE  a = b
  <1>1. claim[q].cands \subseteq Rows
    BY DEF IInv, TypeOK
  <1>2. PICK t \in First(claim[q].cands) : task[t].agent = a
    BY DEF AtAgent
  <1>3. PICK u \in First(claim[q].cands) : task[u].agent = b
    BY DEF AtAgent
  <1>4. t \in Rows /\ u \in Rows /\ Before(t, u) /\ Before(u, t)
    BY <1>1, <1>2, <1>3 DEF First
  <1>5. t \in Nat /\ u \in Nat /\ task[t].priority \in Nat /\ task[u].priority \in Nat
    BY <1>4 DEF IInv, TypeOK, Row, Rows
  <1>6. t = u
    BY <1>4, <1>5 DEF Before
  <1> QED
    BY <1>2, <1>3, <1>6

(* Claims that do not move stay where they are, whatever happens to rows. *)
LEMMA AtAgentKept ==
    ASSUME IInv, NEW q \in Requests, NEW a, claim'[q] = claim[q], \A t \in Rows : Kept(t)
    PROVE  AtAgent(q, a)' <=> AtAgent(q, a)
  <1>1. claim[q].cands \subseteq Rows
    BY DEF IInv, TypeOK
  <1>2. \A t \in Rows : task'[t].agent = task[t].agent /\ task'[t].priority = task[t].priority
    BY DEF Kept
  <1> QED
    BY <1>1, <1>2 DEF AtAgent, First, Before

LEMMA ClaimingKept ==
    ASSUME IInv, NEW a, \A t \in Rows : Kept(t),
           \A q \in Requests : claim'[q] = claim[q] \/ claim'[q].pc \in {"idle", "loop"}
    PROVE  Claiming(a)' \subseteq Claiming(a)
  <1> SUFFICES ASSUME NEW q \in Requests,
                      \/ claim'[q].pc = "counted" /\ AtAgent(q, a)'
                      \/ claim'[q].pc = "locked" /\ task'[claim'[q].row].agent = a
               PROVE  q \in Claiming(a)
    BY DEF Claiming
  <1>1. claim'[q] = claim[q]
    OBVIOUS
  <1>2. claim[q].pc = "locked" => task'[claim[q].row].agent = task[claim[q].row].agent
    BY DEF IInv, Lanes, LockedRowFree, Kept
  <1>3. AtAgent(q, a)' => AtAgent(q, a)
    BY <1>1, AtAgentKept
  <1> QED
    BY <1>1, <1>2, <1>3 DEF Claiming

(* A row that is added is queued, and a row that a claim still holds is not active. *)
LEMMA NewRowsQueued ==
    ASSUME IInv, IdleEmpty, [Next]_vars
    PROVE  \A t \in Rows' : t \in Rows \/ task'[t].status = "queued"
  <1>1. RetryKind
    BY StepKind
  <1>2. CASE Rows' = Rows
    BY <1>2
  <1>3. CASE AddsTriggered
    <2>1. PICK row \in Row : row.status = "queued" /\ Insert(row)
      BY <1>3 DEF AddsTriggered
    <2>2. Rows' = Rows \cup {created + 1} /\ task'[created + 1] = row
      BY <2>1, InsertType DEF IInv, TypeOK
    <2> QED
      BY <2>1, <2>2
  <1>4. ASSUME NEW u \in Rows, Retry(u)
        PROVE  \A t \in Rows' : t \in Rows \/ task'[t].status = "queued"
    <2>1. CASE Rows' = Rows
      BY <2>1
    <2>2. CASE Retries(u)
      <3>1. /\ Rows' = Rows \cup {created + 1}
            /\ task'[created + 1] = NewRow(task[u].agent, task[u].runtime, task[u].link,
                                           task[u].attempt + 1, u)
        BY <1>4, <2>2, RetryEffect DEF IInv
      <3>2. task'[created + 1].status = "queued"
        BY <3>1 DEF NewRow
      <3> QED
        BY <3>1, <3>2
    <2> QED
      BY <1>4, <2>1, <2>2, RetryEffect DEF IInv
  <1> QED
    BY <1>1, <1>2, <1>3, <1>4
    DEF RetryKind, Still, FailsOne, FailsBatch, TreatsOne, TreatsNext, Crash, Rows

LEMMA ActiveShrinks ==
    ASSUME IInv, IInv', IdleEmpty, [Next]_vars, NEW a, claim' = claim
    PROVE  ActiveOf(a)' \subseteq ActiveOf(a)
  <1>1. \A t \in Rows : Kept(t)
    BY StepKeeps
  <1>2. \A t \in Rows' : t \in Rows \/ task'[t].status = "queued"
    BY NewRowsQueued
  <1>3. \A t \in Locked : task'[t].status = "queued"
    BY DEF Locked, IInv, Lanes, LockedRowFree, QueuedRow
  <1>4. ASSUME NEW t \in Rows', Active(t)'
        PROVE  t \in Rows /\ Active(t)
    BY <1>1, <1>2, <1>3, <1>4 DEF Kept, Active
  <1> QED
    BY <1>1, <1>4 DEF ActiveOf, Kept

LEMMA CommitBounded ==
    ASSUME IInv, [Next]_vars, NEW a, Bounded(a), NEW q \in Requests, CommitClaim(q)
    PROVE  Bounded(a)'
  <1> DEFINE t == claim[q].row
  <1>1. claim[q].pc = "locked" /\ t \in Rows
    BY DEF CommitClaim, IInv, Lanes, LockedRowFree
  <1>2. task' = [task EXCEPT ![t] = [@ EXCEPT !.status = "dispatched", !.age = 0]]
        /\ UNCHANGED created
    BY DEF CommitClaim
  <1>3. /\ Rows' = Rows /\ \A u \in Rows : task'[u].agent = task[u].agent
        /\ \A u \in Rows \ {t} : task'[u] = task[u]
    BY <1>2 DEF IInv, TypeOK, Row, Rows
  <1>4. claim'[q].pc \in {"idle", "loop"} /\ \A p \in Requests \ {q} : claim'[p] = claim[p]
    <2>1. PICK c \in {IdleClaim, NextAgent(q, task[t].agent)} : claim' = [claim EXCEPT ![q] = c]
      BY DEF CommitClaim
    <2>2. claim[q] \in [pc : ClaimPC, runtime : Runtimes \cup {"none"}, cands : SUBSET Rows, row : Nat]
      BY DEF IInv, TypeOK
    <2>3. NextAgent(q, task[t].agent).pc \in {"idle", "loop"} /\ IdleClaim.pc = "idle"
      BY <2>2 DEF NextAgent, IdleClaim
    <2> QED
      BY <2>1, <2>3 DEF IInv, TypeOK
  <1>5. Claiming(a)' \subseteq Claiming(a)
    <2>1. \A u \in Rows : Kept(u)
      BY StepKeeps
    <2> HIDE DEF t
    <2> QED
      BY <1>4, <2>1, ClaimingKept
  <1> HIDE DEF t
  <1>6. CASE task[t].agent # a
    <2>1. ActiveOf(a)' \subseteq ActiveOf(a)
      BY <1>3, <1>6 DEF ActiveOf, Active
    <2> QED
      BY <1>5, <2>1, Shrinks
  <1>7. CASE task[t].agent = a
    <2> DEFINE A == ActiveOf(a)
               C == Claiming(a)
               B == ActiveOf(a)'
               D == Claiming(a)'
    <2>1. /\ IsFiniteSet(A) /\ Cardinality(A) \in Nat
          /\ IsFiniteSet(C) /\ Cardinality(C) \in Nat /\ Cardinality(Requests) \in Nat
      BY Sizes
    <2>2. B \in SUBSET (A \cup {t})
      BY <1>3 DEF ActiveOf, Active
    <2>3. q \in C
      BY <1>1, <1>7 DEF Claiming, t
    <2>4. D \in SUBSET (C \ {q})
      <3>1. q \notin D
        BY <1>4 DEF Claiming
      <3> QED
        BY <1>5, <3>1
    <2>5. Cardinality(A) + Cardinality(C) <= MaxConcurrent + Cardinality(Requests) - 1
      BY DEF Bounded
    <2>6. Cardinality(B) + Cardinality(D) <= MaxConcurrent + Cardinality(Requests) - 1
      <3> HIDE DEF A, B, C, D
      <3>1. /\ IsFiniteSet(A \cup {t}) /\ Cardinality(A \cup {t}) <= Cardinality(A) + 1
            /\ Cardinality(A \cup {t}) \in Nat
        <4>1. /\ IsFiniteSet(A \cup {t})
              /\ Cardinality(A \cup {t}) = IF t \in A THEN Cardinality(A) ELSE Cardinality(A) + 1
          BY <2>1, FS_AddElement
        <4> QED
          BY <2>1, <4>1
      <3>2. /\ IsFiniteSet(C \ {q}) /\ Cardinality(C \ {q}) = Cardinality(C) - 1
        BY <2>1, <2>3, FS_RemoveElement
      <3>3. IsFiniteSet(B) /\ Cardinality(B) <= Cardinality(A \cup {t})
        BY <2>2, <3>1, FS_Subset
      <3>4. IsFiniteSet(D) /\ Cardinality(D) <= Cardinality(C \ {q})
        BY <2>4, <3>2, FS_Subset
      <3>5. Cardinality(B) \in Nat /\ Cardinality(D) \in Nat
        BY <3>3, <3>4, FS_CardinalityType
      <3> QED
        BY <2>1, <2>5, <3>1, <3>2, <3>3, <3>4, <3>5, NumbersAssumption
    <2> QED
      BY <2>6 DEF Bounded
  <1> QED
    BY <1>6, <1>7

(* The count itself: an agent below its limit can take all the other claims. *)
LEMMA CountBounded ==
    ASSUME IInv, NEW a, HasCapacity(a), ActiveOf(a)' = ActiveOf(a)
    PROVE  Bounded(a)'
  <1> DEFINE D == Claiming(a)'
  <1>1. D \in SUBSET Requests
    BY DEF Claiming
  <1>2. Cardinality(D) <= Cardinality(Requests) /\ IsFiniteSet(D)
    <2> HIDE DEF D
    <2> QED
      BY <1>1, FiniteAssumption, FS_Subset
  <1>3. Cardinality(D) \in Nat
    BY <1>2, FS_CardinalityType
  <1>4. Cardinality(ActiveOf(a)) < MaxConcurrent /\ Cardinality(ActiveOf(a)) \in Nat
        /\ Cardinality(Requests) \in Nat
    BY Sizes DEF HasCapacity
  <1>5. Cardinality(ActiveOf(a)) + Cardinality(D) <= MaxConcurrent + Cardinality(Requests) - 1
    <2> HIDE DEF D
    <2> QED
      BY <1>2, <1>3, <1>4, NumbersAssumption
  <1> QED
    BY <1>5 DEF Bounded

LEMMA BoundedStep ==
    ASSUME IInv, IInv', IdleEmpty, [Next]_vars, NEW a \in Agents, Bounded(a)
    PROVE  Bounded(a)'
  <1>1. \A t \in Rows : Kept(t)
    BY StepKeeps
  <1>2. CASE claim' = claim
    <2>1. ActiveOf(a)' \subseteq ActiveOf(a)
      BY <1>2, ActiveShrinks
    <2>2. Claiming(a)' \subseteq Claiming(a)
      BY <1>1, <1>2, ClaimingKept
    <2> QED
      BY <2>1, <2>2, Shrinks
  <1>3. ASSUME UNCHANGED <<created, task>>, Claiming(a)' \subseteq Claiming(a)
        PROVE  Bounded(a)'
    <2>1. ActiveOf(a)' \subseteq ActiveOf(a)
      BY <1>3 DEF ActiveOf, Active, Rows
    <2> QED
      BY <1>3, <2>1, Shrinks
  <1>4. CASE Crash
    <2>1. \A q \in Requests : claim'[q].pc = "idle"
      BY <1>4 DEF Crash, IdleClaim
    <2>2. Claiming(a)' \subseteq Claiming(a)
      BY <1>1, <2>1, ClaimingKept
    <2> QED
      BY <1>3, <1>4, <2>2 DEF Crash
  <1>5. CASE Claim
    <2>1. PICK q \in Requests :
             \/ \E t \in Rows : Reclaim(q, t)
             \/ \E r \in Runtimes : ListCandidates(q, r)
             \/ \E b \in Agents : CountRunning(q, b) \/ SelectRow(q, b)
             \/ CommitClaim(q)
             \/ ClaimFails(q)
      BY <1>5 DEF Claim
    <2>2. claim[q] \in [pc : ClaimPC, runtime : Runtimes \cup {"none"}, cands : SUBSET Rows, row : Nat]
      BY DEF IInv, TypeOK
    <2>3. \A b : NextAgent(q, b).pc \in {"idle", "loop"} /\ IdleClaim.pc = "idle"
      BY <2>2 DEF NextAgent, IdleClaim
    <2>4. ASSUME claim'[q].pc \in {"idle", "loop"},
                 \A p \in Requests \ {q} : claim'[p] = claim[p],
                 UNCHANGED <<created, task>>
          PROVE  Bounded(a)'
      <3>1. \A p \in Requests : claim'[p] = claim[p] \/ claim'[p].pc \in {"idle", "loop"}
        BY <2>4
      <3>2. Claiming(a)' \subseteq Claiming(a)
        BY <1>1, <3>1, ClaimingKept
      <3> QED
        BY <1>3, <2>4, <3>2
    <2>5. ASSUME NEW r \in Runtimes, ListCandidates(q, r)
          PROVE  Bounded(a)'
      <3>1. claim'[q].pc = "loop" /\ \A p \in Requests \ {q} : claim'[p] = claim[p]
        BY <2>5 DEF ListCandidates, IInv, TypeOK
      <3> QED
        BY <2>4, <2>5, <3>1 DEF ListCandidates
    <2>6. CASE ClaimFails(q)
      <3>1. claim'[q].pc = "idle" /\ \A p \in Requests \ {q} : claim'[p] = claim[p]
        BY <2>3, <2>6 DEF ClaimFails, IInv, TypeOK
      <3> QED
        BY <2>4, <2>6, <3>1 DEF ClaimFails
    <2>7. ASSUME NEW b \in Agents, CountRunning(q, b)
          PROVE  Bounded(a)'
      <3>1. UNCHANGED <<created, task>> /\ AtAgent(q, b)
        BY <2>7 DEF CountRunning
      <3>2. CASE ~ HasCapacity(b)
        <4>1. claim' = [claim EXCEPT ![q] = NextAgent(q, b)]
          BY <2>7, <3>2 DEF CountRunning
        <4>2. claim'[q] = NextAgent(q, b) /\ \A p \in Requests \ {q} : claim'[p] = claim[p]
          BY <4>1 DEF IInv, TypeOK
        <4> QED
          BY <2>3, <2>4, <3>1, <4>2
      <3>3. CASE HasCapacity(b) /\ a = b
        <4>1. ActiveOf(a)' = ActiveOf(a)
          BY <3>1 DEF ActiveOf, Active, Rows
        <4> QED
          BY <3>3, <4>1, CountBounded
      <3>4. CASE HasCapacity(b) /\ a # b
        <4>1. claim' = [claim EXCEPT ![q] = [@ EXCEPT !.pc = "counted"]]
          BY <2>7, <3>4 DEF CountRunning
        <4>2. /\ claim'[q].cands = claim[q].cands /\ claim'[q].pc = "counted"
              /\ \A p \in Requests \ {q} : claim'[p] = claim[p]
          BY <2>2, <4>1 DEF IInv, TypeOK
        <4>3. ~ AtAgent(q, a)
          BY <3>1, <3>4, OneAgent
        <4>4. ~ AtAgent(q, a)'
          BY <3>1, <4>2, <4>3 DEF AtAgent, First, Before
        <4>5. \A p \in Requests \ {q} : p \in Claiming(a)' => p \in Claiming(a)
          BY <3>1, <4>2 DEF Claiming, AtAgent, First, Before
        <4>6. q \notin Claiming(a)'
          BY <4>2, <4>4 DEF Claiming
        <4>7. Claiming(a)' \subseteq Requests
          BY DEF Claiming
        <4>8. Claiming(a)' \subseteq Claiming(a)
          BY <4>5, <4>6, <4>7
        <4> QED
          BY <1>3, <3>1, <4>8
      <3> QED
        BY <3>2, <3>3, <3>4
    <2>8. ASSUME NEW b \in Agents, SelectRow(q, b)
          PROVE  Bounded(a)'
      <3>1. UNCHANGED <<created, task>> /\ AtAgent(q, b) /\ claim[q].pc = "counted"
        BY <2>8 DEF SelectRow
      <3>2. CASE claim' = [claim EXCEPT ![q] = NextAgent(q, b)]
        <4>1. claim'[q] = NextAgent(q, b) /\ \A p \in Requests \ {q} : claim'[p] = claim[p]
          BY <3>2 DEF IInv, TypeOK
        <4> QED
          BY <2>3, <2>4, <3>1, <4>1
      <3>3. ASSUME NEW t \in First(Claimable(b)),
                   claim' = [claim EXCEPT ![q] = [@ EXCEPT !.pc = "locked", !.row = t]]
            PROVE  Bounded(a)'
        <4>1. /\ claim'[q].row = t /\ claim'[q].pc = "locked"
              /\ \A p \in Requests \ {q} : claim'[p] = claim[p]
          BY <2>2, <3>3 DEF IInv, TypeOK
        <4>2. task[t].agent = b
          BY DEF First, Claimable
        <4>3. q \in Claiming(a)' => q \in Claiming(a)
          BY <3>1, <4>1, <4>2 DEF Claiming
        <4>4. \A p \in Requests \ {q} : p \in Claiming(a)' => p \in Claiming(a)
          BY <3>1, <4>1 DEF Claiming, AtAgent, First, Before
        <4>5. Claiming(a)' \subseteq Requests
          BY DEF Claiming
        <4>6. Claiming(a)' \subseteq Claiming(a)
          BY <4>3, <4>4, <4>5
        <4> QED
          BY <1>3, <3>1, <4>6
      <3> QED
        BY <2>8, <3>2, <3>3 DEF SelectRow
    <2>9. CASE CommitClaim(q)
      BY <2>9, CommitBounded
    <2>10. ASSUME NEW t \in Rows, Reclaim(q, t)
           PROVE  Bounded(a)'
      BY <1>2, <2>10 DEF Reclaim
    <2> QED
      BY <2>1, <2>5, <2>6, <2>7, <2>8, <2>9, <2>10
  <1> QED
    BY <1>2, <1>4, <1>5
    DEF Next, Enqueue, Admit, InsertAdmitted, Daemon, StartTask, CompleteTask, FailTask,
        RetryAfterFail, User, Cancel, CancelOnStatus, SetIssueStatus, ArchiveAgent,
        CancelOnArchive, RestoreAgent, Sweep, MarkOffline, FailOffline, NothingOffline,
        FailStale, ExpireQueued, RecoverOrphans, Batch, RetryNext, CheckIssue, ResetIssue,
        Heartbeat, Deregister, Reconcile, GrowOld, vars

(* Concurrent claims that count before they commit never take an agent past its
   limit by more than the number of other claims in flight, for any limit. *)
THEOREM BoundedOvershoot == Spec => []OvershootBounded
  <1>1. Init => \A a \in Agents : Bounded(a)
    <2> SUFFICES ASSUME Init, NEW a \in Agents PROVE Bounded(a)
      OBVIOUS
    <2>1. ActiveOf(a) = {} /\ Claiming(a) = {}
      BY DEF Init, ActiveOf, Claiming, Rows, IdleClaim
    <2>2. Cardinality({}) = 0 /\ Cardinality(Requests) \in Nat
      BY FS_EmptySet, FS_CardinalityType, FiniteAssumption
    <2> QED
      BY <2>1, <2>2, NumbersAssumption DEF Bounded
  <1>2. IInv /\ IInv' /\ IRetry /\ (\A a \in Agents : Bounded(a)) /\ [Next]_vars
           => (\A a \in Agents : Bounded(a))'
    BY BoundedStep DEF IRetry
  <1>3. (\A a \in Agents : Bounded(a)) => OvershootBounded
    BY DEF Bounded, OvershootBounded
  <1> QED
    BY <1>1, <1>2, <1>3, Inductive, InductiveRetry, PTL DEF Spec
=============================================================================
