------------------------------ MODULE TaskQueue ------------------------------
(***************************************************************************)
(* The agent task queue: the rows of agent_task_queue and every server     *)
(* procedure of server/internal/service/task.go that moves them, with the  *)
(* SQL of server/pkg/db/queries/agent.sql as the atomic steps.             *)
(*                                                                         *)
(* A procedure that issues several statements outside a transaction is     *)
(* several actions here, and any other procedure may run between them:     *)
(*   - an enqueue reads the agent, then inserts;                           *)
(*   - a claim lists candidates, counts the agent's active rows, selects   *)
(*     (and row-locks) a queued row on its snapshot, then commits;         *)
(*   - a failure sweep updates in bulk, then handles each failed row:      *)
(*     retry, look at the issue, maybe reset the issue;                    *)
(*   - an archive marks the agent, and a status change the issue, and then  *)
(*     cancels the rows;                                                   *)
(*   - every procedure that changes the active set of an agent reconciles  *)
(*     the agent's status in a later statement.                            *)
(* Time is the age of a row: 0, then 1 (only while dispatched: past the    *)
(* claim-response recovery window), then 2 (past the row's timeout).       *)
(***************************************************************************)
EXTENDS Naturals, FiniteSets

CONSTANTS
    Agents,
    Runtimes,
    Issues,
    Chats,
    QuickCreate,     \* link of a task with no issue, chat or autopilot run
    Autopilot,       \* link of a run_only autopilot task
    Priority,        \* the priority column a task with this link is created with
    Requests,        \* claim requests the server may serve at the same time
    Workers,         \* sweeper ticks and recover-orphans calls in flight
    MaxConcurrent,   \* agent.max_concurrent_tasks
    MaxAttempts,     \* the max_attempts column
    Triggers,        \* links users and automations enqueue tasks for
    UserStatuses,    \* issue statuses users and agents write
    DaemonReasons,   \* failure reasons a daemon reports
    Archivable,      \* agents a user may archive
    MaxEnqueued,     \* bound: rows created by a trigger, retries not counted
    MaxAdmitted,     \* bound: enqueues in flight
    MaxCrashes       \* bound: server crashes

Links == Issues \cup Chats \cup {QuickCreate, Autopilot}
IssueStatus == {"todo", "in_progress", "done", "cancelled"}

ASSUME LinksAssumption ==
    /\ Issues \cap Chats = {}
    /\ QuickCreate \notin Issues \cup Chats
    /\ Autopilot \notin Issues \cup Chats \cup {QuickCreate}
ASSUME NumbersAssumption ==
    /\ MaxConcurrent \in Nat \ {0}
    /\ MaxAttempts \in Nat \ {0}
    /\ MaxEnqueued \in Nat /\ MaxAdmitted \in Nat /\ MaxCrashes \in Nat
    /\ Priority \in [Links -> Nat]
ASSUME FiniteAssumption == IsFiniteSet(Requests)
ASSUME ChoicesAssumption ==
    /\ Triggers \subseteq Links /\ UserStatuses \subseteq IssueStatus
    /\ DaemonReasons \subseteq STRING /\ Archivable \subseteq Agents

VARIABLES
    created,    \* number of rows inserted; rows are 1..created, in created_at order
    task,       \* the rows
    admitted,   \* enqueues that have read the agent and not inserted yet
    known,      \* rows some claim response has delivered to a daemon
    claim,      \* progress of each claim request
    work,       \* progress of each post-failure pipeline
    failing,    \* rows FailTask has failed and not yet considered for retry
    owed,       \* agents some running procedure has yet to reconcile
    working,    \* agent.status = 'working'
    agent,      \* archival state of each agent
    issue,      \* issue.status
    cancelling, \* issues moved to cancelled whose rows are not cancelled yet
    online,     \* runtimes whose status is 'online'
    crashes

vars == <<created, task, admitted, known, claim, work, failing, owed,
          working, agent, issue, cancelling, online, crashes>>

-----------------------------------------------------------------------------
(* Rows *)

Status == {"queued", "dispatched", "running", "completed", "failed", "cancelled"}
Terminal == {"completed", "failed", "cancelled"}
retryableReasons ==
    {"runtime_offline", "runtime_recovery", "timeout", "codex_semantic_inactivity"}
Reasons == {"none", "queued_expired"} \cup retryableReasons \cup DaemonReasons

Rows == 1 .. created
Row == [status : Status, agent : Agents, runtime : Runtimes, link : Links, priority : Nat,
        attempt : Nat, parent : Nat, reason : Reasons, age : 0 .. 2]

QueuedRow(t)  == task[t].status = "queued"
Active(t)     == task[t].status \in {"dispatched", "running"}
Pending(t)    == task[t].status \in {"queued", "dispatched"}
Live(t)       == QueuedRow(t) \/ Active(t)
ActiveOf(a)   == {t \in Rows : task[t].agent = a /\ Active(t)}
LiveOn(i)     == {t \in Rows : task[t].link = i /\ Live(t)}

IdleClaim  == [pc |-> "idle", runtime |-> "none", cands |-> {}, row |-> 0]
IdleWorker == [pc |-> "idle", todo |-> {}, cur |-> 0, agents |-> {},
               processed |-> {}, retried |-> {}]

(* Rows a claim statement has locked: other statements on them wait, or skip
   them when they say SKIP LOCKED. *)
Locked == {claim[q].row : q \in {p \in Requests : claim[p].pc = "locked"}}

NewRow(a, r, l, n, p) ==
    [status |-> "queued", agent |-> a, runtime |-> r, link |-> l, priority |-> Priority[l],
     attempt |-> n, parent |-> p, reason |-> "none", age |-> 0]

(* Mutant: the unique index forgets dispatched rows. *)
UniqueFreeQueuedOnly(a, l) ==
    l \in Issues => \A t \in Rows : ~ (task[t].agent = a /\ task[t].link = l /\ QueuedRow(t))

(* The partial unique index on (issue_id, agent_id). *)
UniqueFree(a, l) ==
    l \in Issues => \A t \in Rows : ~ (task[t].agent = a /\ task[t].link = l /\ Pending(t))

Insert(row) ==
    /\ created' = created + 1
    /\ task' = [t \in 1 .. (created + 1) |-> IF t \in Rows THEN task[t] ELSE row]

(* The rows of S leave the live set. *)
Finish(S, status, reason) ==
    task' = [t \in Rows |->
               IF t \in S THEN [task[t] EXCEPT !.status = status, !.reason = reason, !.age = 0]
                          ELSE task[t]]

AgentsOf(S) == {task[t].agent : t \in S}

Init ==
    /\ created = 0
    /\ task = << >>
    /\ admitted = {}
    /\ known = {}
    /\ claim = [q \in Requests |-> IdleClaim]
    /\ work = [w \in Workers |-> IdleWorker]
    /\ failing = {}
    /\ owed = {}
    /\ working = [a \in Agents |-> FALSE]
    /\ agent = [a \in Agents |-> "active"]
    /\ issue = [i \in Issues |-> "todo"]
    /\ cancelling = {}
    /\ online = Runtimes
    /\ crashes = 0

-----------------------------------------------------------------------------
(* Enqueue: enqueueIssueTask, enqueueMentionTask, EnqueueQuickCreateTask,
   EnqueueChatTask. The agent is read first; the insert comes later and may
   fail on the unique index. *)

Triggered == {t \in Rows : task[t].parent = 0}

Admit(a, r, l) ==
    /\ agent[a] = "active"
    /\ Cardinality(Triggered) + Cardinality(admitted) < MaxEnqueued
    /\ Cardinality(admitted) < MaxAdmitted
    /\ admitted' = admitted \cup {[agent |-> a, runtime |-> r, link |-> l]}
    /\ UNCHANGED <<created, task, known, claim, work, failing, owed,
                   working, agent, issue, cancelling, online, crashes>>

InsertAdmitted(e) ==
    /\ admitted' = admitted \ {e}
    /\ IF UniqueFree(e.agent, e.link)
         THEN Insert(NewRow(e.agent, e.runtime, e.link, 1, 0))
         ELSE UNCHANGED <<created, task>>
    /\ UNCHANGED <<known, claim, work, failing, owed, working, agent, issue, cancelling, online, crashes>>

-----------------------------------------------------------------------------
(* Claim: ClaimTaskForRuntime and ClaimTask. *)

Recoverable(t, r) ==
    task[t].runtime = r /\ task[t].status = "dispatched" /\ task[t].age >= 1

(* ReclaimStaleDispatchedTaskForRuntime redelivers a dispatched row whose claim
   response was probably lost; the response may be lost again. *)
Reclaim(q, t) ==
    /\ claim[q] = IdleClaim
    /\ Recoverable(t, task[t].runtime)
    /\ \A u \in Rows : Recoverable(u, task[t].runtime) =>
                          task[u].priority <= task[t].priority
    /\ task' = [task EXCEPT ![t].age = 0]
    /\ known' \in {known, known \cup {t}}
    /\ UNCHANGED <<created, admitted, claim, work, failing, owed, working, agent,
                   issue, cancelling, online, crashes>>

(* Nothing to redeliver: list the runtime's queued rows. *)
ListCandidates(q, r) ==
    LET cands == {t \in Rows : task[t].runtime = r /\ QueuedRow(t)} IN
    /\ claim[q] = IdleClaim
    /\ \A t \in Rows : ~ Recoverable(t, r)
    /\ cands # {}
    /\ claim' = [claim EXCEPT ![q] = [pc |-> "loop", runtime |-> r, cands |-> cands, row |-> 0]]
    /\ UNCHANGED <<created, task, admitted, known, work, failing, owed, working,
                   agent, issue, cancelling, online, crashes>>

(* ORDER BY priority DESC, created_at ASC *)
Before(t, u) ==
    \/ task[t].priority > task[u].priority
    \/ task[t].priority = task[u].priority /\ t <= u
First(S) == {t \in S : \A u \in S : Before(t, u)}

(* The agent the loop of ClaimTaskForRuntime is at. *)
AtAgent(q, a) == \E t \in First(claim[q].cands) : task[t].agent = a

(* The loop goes on to the next agent, or the request returns no task. *)
NextAgent(q, a) ==
    LET rest == {t \in claim[q].cands : task[t].agent # a} IN
    IF rest = {} THEN IdleClaim ELSE [claim[q] EXCEPT !.pc = "loop", !.cands = rest, !.row = 0]

(* Mutant: the comparison with max_concurrent_tasks is off by one. *)
HasCapacityOffByOne(a) == Cardinality(ActiveOf(a)) <= MaxConcurrent

HasCapacity(a) == Cardinality(ActiveOf(a)) < MaxConcurrent

(* ClaimTask: CountRunningTasks against agent.max_concurrent_tasks. *)
CountRunning(q, a) ==
    /\ claim[q].pc = "loop"
    /\ AtAgent(q, a)
    /\ claim' = [claim EXCEPT ![q] = IF HasCapacity(a) THEN [@ EXCEPT !.pc = "counted"]
                                                       ELSE NextAgent(q, a)]
    /\ UNCHANGED <<created, task, admitted, known, work, failing, owed, working,
                   agent, issue, cancelling, online, crashes>>

(* Mutant: the NOT EXISTS of ClaimAgentTask looks at dispatched rows only. *)
LaneBusyDispatchedOnly(t) ==
    \E u \in Rows : /\ task[u].agent = task[t].agent
                    /\ task[u].status = "dispatched"
                    /\ task[u].link = task[t].link
                    /\ task[t].link # Autopilot

(* The NOT EXISTS of ClaimAgentTask: an active row of the agent on the same
   issue, on the same chat session, or another quick-create. *)
LaneBusy(t) ==
    \E u \in Rows : /\ task[u].agent = task[t].agent
                    /\ Active(u)
                    /\ task[u].link = task[t].link
                    /\ task[t].link # Autopilot

Claimable(a) ==
    {t \in Rows : task[t].agent = a /\ QueuedRow(t) /\ ~ LaneBusy(t) /\ t \notin Locked}

(* ClaimAgentTask on its snapshot: the agent's first claimable row, whatever
   its runtime, is locked; or there is none. *)
SelectRow(q, a) ==
    /\ claim[q].pc = "counted"
    /\ AtAgent(q, a)
    /\ \/ /\ Claimable(a) = {}
          /\ claim' = [claim EXCEPT ![q] = NextAgent(q, a)]
       \/ \E t \in First(Claimable(a)) :
             claim' = [claim EXCEPT ![q] = [@ EXCEPT !.pc = "locked", !.row = t]]
    /\ UNCHANGED <<created, task, admitted, known, work, failing, owed, working,
                   agent, issue, cancelling, online, crashes>>

(* ClaimAgentTask commits. A row of this request's runtime is the response,
   which may be lost; the loop goes on past a row of another runtime. *)
CommitClaim(q) ==
    LET t == claim[q].row
        a == task[t].agent IN
    /\ claim[q].pc = "locked"
    /\ task' = [task EXCEPT ![t] = [@ EXCEPT !.status = "dispatched", !.age = 0]]
    /\ owed' = owed \cup {a}
    /\ IF task[t].runtime = claim[q].runtime
         THEN /\ claim' = [claim EXCEPT ![q] = IdleClaim]
              /\ known' \in {known, known \cup {t}}
         ELSE /\ claim' = [claim EXCEPT ![q] = NextAgent(q, a)]
              /\ UNCHANGED known
    /\ UNCHANGED <<created, admitted, work, failing, working, agent, issue, cancelling, online, crashes>>

(* A statement fails or the daemon hangs up: the request ends with an error and
   an update that has not committed is rolled back. *)
ClaimFails(q) ==
    /\ claim[q].pc # "idle"
    /\ claim' = [claim EXCEPT ![q] = IdleClaim]
    /\ UNCHANGED <<created, task, admitted, known, work, failing, owed, working,
                   agent, issue, cancelling, online, crashes>>

-----------------------------------------------------------------------------
(* What a daemon asks for the rows it was given. A call may come late, twice
   or after another daemon's: the status in each WHERE clause decides. *)

StartTask(t) ==
    /\ t \in known
    /\ task[t].status = "dispatched"
    /\ task' = [task EXCEPT ![t] = [@ EXCEPT !.status = "running", !.age = 0]]
    /\ UNCHANGED <<created, admitted, known, claim, work, failing, owed, working,
                   agent, issue, cancelling, online, crashes>>

(* Mutant: CompleteAgentTask without its status = 'running'. *)
CanCompleteAny(t) == t \in known

CanComplete(t) == t \in known /\ task[t].status = "running"

(* A completed quick-create task may be linked to the issue it produced. *)
CompleteTask(t) ==
    /\ CanComplete(t)
    /\ \E l \in {task[t].link} \cup (IF task[t].link = QuickCreate THEN Issues ELSE {}) :
          task' = [task EXCEPT ![t] = [@ EXCEPT !.status = "completed", !.age = 0, !.link = l]]
    /\ owed' = owed \cup {task[t].agent}
    /\ UNCHANGED <<created, admitted, known, claim, work, failing, working, agent,
                   issue, cancelling, online, crashes>>

(* FailTask's transaction; the retry comes after its commit. *)
FailTask(t, reason) ==
    /\ t \in known
    /\ Active(t)
    /\ Finish({t}, "failed", reason)
    /\ failing' = failing \cup {t}
    /\ UNCHANGED <<created, admitted, known, claim, work, owed, working, agent,
                   issue, cancelling, online, crashes>>

(* Mutant: one attempt too many. *)
CanRetryOnceMore(t) ==
    /\ task[t].reason \in retryableReasons
    /\ task[t].attempt <= MaxAttempts
    /\ task[t].link \in Issues \cup Chats

(* MaybeRetryFailedTask. *)
CanRetry(t) ==
    /\ task[t].reason \in retryableReasons
    /\ task[t].attempt < MaxAttempts
    /\ task[t].link \in Issues \cup Chats

(* Mutant: no retry onto a runtime that is offline. *)
RetriesOnline(t) ==
    /\ CanRetry(t) /\ UniqueFree(task[t].agent, task[t].link)
    /\ task[t].runtime \in online

Retries(t) == CanRetry(t) /\ UniqueFree(task[t].agent, task[t].link)

(* CreateRetryTask: the child takes the parent's agent, runtime and link; when
   the unique index refuses it there is no retry. *)
Retry(t) ==
    IF Retries(t)
      THEN Insert(NewRow(task[t].agent, task[t].runtime, task[t].link, task[t].attempt + 1, t))
      ELSE UNCHANGED <<created, task>>

RetryAfterFail(t) ==
    /\ t \in failing
    /\ Retry(t)
    /\ failing' = failing \ {t}
    /\ owed' = owed \cup {task[t].agent}
    /\ UNCHANGED <<admitted, known, claim, work, working, agent, issue, cancelling, online, crashes>>

-----------------------------------------------------------------------------
(* Cancellation: one bulk UPDATE over a task, an issue or chat session, an
   (issue, agent) pair, an agent, a runtime or the rows a comment on an issue
   triggered. RerunIssue is the cancel of the pair followed by an enqueue. *)

CancelScope ==
    {{t} : t \in Rows}
      \cup {{t \in Rows : task[t].link = l} : l \in Links}
      \cup {{t \in Rows : task[t].agent = a} : a \in Agents}
      \cup {{t \in Rows : task[t].link = l /\ task[t].agent = a} : l \in Links, a \in Agents}
      \cup {{t \in Rows : task[t].runtime = r} : r \in Runtimes}
      \cup UNION {SUBSET {t \in Rows : task[t].link = i} : i \in Issues}

(* Mutant: the cancelled tasks are taken for the agents to reconcile. *)
OwedForTasks(S) == owed \cup S

(* Mutant: the cancel that reconciles nobody (#1587). *)
OwedForNobody(S) == owed

OwedFor(S) == owed \cup AgentsOf(S)

Cancel(scope) ==
    LET S == {t \in scope : Live(t)} IN
    /\ S # {}
    /\ S \cap Locked = {}
    /\ Finish(S, "cancelled", "none")
    /\ owed' = OwedFor(S)
    /\ UNCHANGED <<created, admitted, known, claim, work, failing, working, agent,
                   issue, cancelling, online, crashes>>

(* ArchiveAgent sets archived_at, then cancels in a second statement, and
   reconciles nothing. *)
ArchiveAgent(a) ==
    /\ a \in Archivable /\ agent[a] = "active"
    /\ agent' = [agent EXCEPT ![a] = "archiving"]
    /\ UNCHANGED <<created, task, admitted, known, claim, work, failing, owed,
                   working, issue, cancelling, online, crashes>>

CancelOnArchive(a) ==
    LET S == {t \in Rows : task[t].agent = a /\ Live(t)} IN
    /\ agent[a] = "archiving"
    /\ S \cap Locked = {}
    /\ Finish(S, "cancelled", "none")
    /\ agent' = [agent EXCEPT ![a] = "archived"]
    /\ UNCHANGED <<created, admitted, known, claim, work, failing, owed, working,
                   issue, cancelling, online, crashes>>

RestoreAgent(a) ==
    /\ agent[a] = "archived"
    /\ agent' = [agent EXCEPT ![a] = "active"]
    /\ UNCHANGED <<created, task, admitted, known, claim, work, failing, owed,
                   working, issue, cancelling, online, crashes>>

(* UpdateIssue, called by a user or by an agent's CLI: moving an issue to
   cancelled cancels its live rows in a second statement. *)
SetIssueStatus(i, s) ==
    /\ issue[i] # s
    /\ issue' = [issue EXCEPT ![i] = s]
    /\ cancelling' = IF s = "cancelled" THEN cancelling \cup {i} ELSE cancelling
    /\ UNCHANGED <<created, task, admitted, known, claim, work, failing, owed,
                   working, agent, online, crashes>>

CancelOnStatus(i) ==
    /\ i \in cancelling
    /\ LiveOn(i) \cap Locked = {}
    /\ cancelling' = cancelling \ {i}
    /\ Finish(LiveOn(i), "cancelled", "none")
    /\ owed' = OwedFor(LiveOn(i))
    /\ UNCHANGED <<created, admitted, known, claim, work, failing, working, agent,
                   issue, online, crashes>>

-----------------------------------------------------------------------------
(* Sweeps and recovery. Each fails rows in bulk and hands them to
   HandleFailedTasks, which treats them one at a time. *)

Batch(w, S, reason) ==
    /\ S # {}
    /\ Finish(S, "failed", reason)
    /\ work' = [work EXCEPT ![w] = [IdleWorker EXCEPT !.pc = "next", !.todo = S,
                                                      !.agents = AgentsOf(S)]]
    /\ UNCHANGED <<created, admitted, known, claim, failing, owed, working, agent,
                   issue, cancelling, online, crashes>>

(* sweepStaleRuntimes: the runtimes whose heartbeats are old go offline ... *)
MarkOffline(w, stale) ==
    /\ work[w] = IdleWorker
    /\ stale # {} /\ stale \subseteq online
    /\ online' = online \ stale
    /\ work' = [work EXCEPT ![w].pc = "offline"]
    /\ UNCHANGED <<created, task, admitted, known, claim, failing, owed, working,
                   agent, issue, cancelling, crashes>>

(* ... and the active rows of every offline runtime fail. *)
OfflineRows == {t \in Rows : Active(t) /\ task[t].runtime \notin online}

FailOffline(w) ==
    /\ work[w].pc = "offline"
    /\ Batch(w, OfflineRows, "runtime_offline")

NothingOffline(w) ==
    /\ work[w].pc = "offline"
    /\ OfflineRows = {}
    /\ work' = [work EXCEPT ![w] = IdleWorker]
    /\ UNCHANGED <<created, task, admitted, known, claim, failing, owed, working,
                   agent, issue, cancelling, online, crashes>>

(* Mutant: the running timeout is forgotten. *)
OverdueDispatched(t) == task[t].status = "dispatched" /\ task[t].age = 2

Overdue(t) == Active(t) /\ task[t].age = 2

(* FailStaleTasks: dispatched or running past its timeout. *)
FailStale(w) ==
    /\ work[w] = IdleWorker
    /\ Batch(w, {t \in Rows : Overdue(t)}, "timeout")

(* Mutant: only the queue of an offline runtime expires. *)
ExpiredOfOffline(t) == QueuedRow(t) /\ task[t].age = 2 /\ task[t].runtime \notin online

Expired(t) == QueuedRow(t) /\ task[t].age = 2

(* ExpireStaleQueuedTasks skips locked rows. *)
ExpireQueued(w) ==
    /\ work[w] = IdleWorker
    /\ Batch(w, {t \in Rows : Expired(t) /\ t \notin Locked}, "queued_expired")

(* RecoverOrphanedTasks: a daemon comes back and disowns what it was running. *)
RecoverOrphans(w, r) ==
    /\ work[w] = IdleWorker
    /\ Batch(w, {t \in Rows : Active(t) /\ task[t].runtime = r}, "runtime_recovery")

(* HandleFailedTasks on row t: the retry first ... *)
RetryNext(w, t) ==
    /\ work[w].pc = "next"
    /\ t \in work[w].todo
    /\ Retry(t)
    /\ work' = [work EXCEPT ![w] =
                  [@ EXCEPT !.pc = "check", !.cur = t,
                            !.retried = IF Retries(t) THEN work[w].retried \cup {task[t].link}
                                                      ELSE work[w].retried]]
    /\ UNCHANGED <<admitted, known, claim, failing, owed, working, agent, issue, cancelling,
                   online, crashes>>

(* ... the next row, or after the last one the agents are reconciled. *)
NextFailed(w, processed) ==
    LET rest == work[w].todo \ {work[w].cur} IN
    /\ work' = [work EXCEPT ![w] =
                  IF rest = {} THEN IdleWorker
                  ELSE [@ EXCEPT !.pc = "next", !.todo = rest, !.cur = 0,
                                 !.processed = processed]]
    /\ owed' = IF rest = {} THEN owed \cup work[w].agents ELSE owed

(* ... then GetIssue and HasActiveTaskForIssue decide on a reset ... *)
CheckIssue(w) ==
    LET i == task[work[w].cur].link
        fresh == /\ i \in Issues
                 /\ issue[i] = "in_progress"
                 /\ i \notin work[w].processed \cup work[w].retried IN
    /\ work[w].pc = "check"
    /\ \/ /\ ~ fresh
          /\ NextFailed(w, work[w].processed)
       \/ /\ fresh /\ LiveOn(i) # {}
          /\ NextFailed(w, work[w].processed \cup {i})
       \/ /\ fresh /\ LiveOn(i) = {}
          /\ work' = [work EXCEPT ![w] = [@ EXCEPT !.pc = "reset", !.processed = work[w].processed \cup {i}]]
          /\ UNCHANGED owed
    /\ UNCHANGED <<created, task, admitted, known, claim, failing, working, agent,
                   issue, cancelling, online, crashes>>

(* ... and UpdateIssueStatus writes it, whatever the status is by now. *)
ResetIssue(w) ==
    /\ work[w].pc = "reset"
    /\ issue' = [issue EXCEPT ![task[work[w].cur].link] = "todo"]
    /\ NextFailed(w, work[w].processed)
    /\ UNCHANGED <<created, task, admitted, known, claim, failing, working, agent,
                   cancelling, online, crashes>>

(* A heartbeat or a registration; a deregistration, which fails no row. *)
Heartbeat(r) ==
    /\ r \notin online
    /\ online' = online \cup {r}
    /\ UNCHANGED <<created, task, admitted, known, claim, work, failing, owed,
                   working, agent, issue, cancelling, crashes>>

Deregister(r) ==
    /\ r \in online
    /\ online' = online \ {r}
    /\ UNCHANGED <<created, task, admitted, known, claim, work, failing, owed,
                   working, agent, issue, cancelling, crashes>>

(* ReconcileAgentStatus: one UPDATE from the rows active at that moment. *)
Reconcile(a) ==
    /\ a \in owed
    /\ owed' = owed \ {a}
    /\ working' = [working EXCEPT ![a] = ActiveOf(a) # {}]
    /\ UNCHANGED <<created, task, admitted, known, claim, work, failing, agent,
                   issue, cancelling, online, crashes>>

-----------------------------------------------------------------------------
(* Time and crashes *)

GrowOld(t) ==
    /\ Live(t) /\ task[t].age < 2
    /\ task' = [task EXCEPT ![t].age = IF task[t].status = "dispatched" THEN @ + 1 ELSE 2]
    /\ UNCHANGED <<created, admitted, known, claim, work, failing, owed, working,
                   agent, issue, cancelling, online, crashes>>

(* The server dies: every procedure in flight is lost where it stands, a
   locked row is rolled back to queued. *)
Crash ==
    /\ crashes < MaxCrashes
    /\ crashes' = crashes + 1
    /\ admitted' = {}
    /\ claim' = [q \in Requests |-> IdleClaim]
    /\ work' = [w \in Workers |-> IdleWorker]
    /\ failing' = {}
    /\ owed' = {}
    /\ cancelling' = {}
    /\ agent' = [a \in Agents |-> IF agent[a] = "archiving" THEN "archived" ELSE agent[a]]
    /\ UNCHANGED <<created, task, known, working, issue, online>>

-----------------------------------------------------------------------------
Enqueue ==
    \/ \E a \in Agents, r \in Runtimes, l \in Triggers : Admit(a, r, l)
    \/ \E e \in admitted : InsertAdmitted(e)

Claim ==
    \E q \in Requests :
       \/ \E t \in Rows : Reclaim(q, t)
       \/ \E r \in Runtimes : ListCandidates(q, r)
       \/ \E a \in Agents : CountRunning(q, a) \/ SelectRow(q, a)
       \/ CommitClaim(q)
       \/ ClaimFails(q)

Daemon ==
    \E t \in Rows :
       \/ StartTask(t)
       \/ CompleteTask(t)
       \/ \E reason \in DaemonReasons : FailTask(t, reason)
       \/ RetryAfterFail(t)

User ==
    \/ \E scope \in CancelScope : Cancel(scope)
    \/ \E a \in Agents : ArchiveAgent(a) \/ CancelOnArchive(a) \/ RestoreAgent(a)
    \/ \E i \in Issues : CancelOnStatus(i) \/ \E s \in UserStatuses : SetIssueStatus(i, s)

Sweep ==
    \E w \in Workers :
       \/ \E stale \in SUBSET Runtimes : MarkOffline(w, stale)
       \/ \E r \in Runtimes : RecoverOrphans(w, r)
       \/ FailOffline(w) \/ NothingOffline(w)
       \/ FailStale(w) \/ ExpireQueued(w)
       \/ \E t \in Rows : RetryNext(w, t)
       \/ CheckIssue(w) \/ ResetIssue(w)

Next ==
    \/ Enqueue \/ Claim \/ Daemon \/ User \/ Sweep
    \/ \E r \in Runtimes : Heartbeat(r) \/ Deregister(r)
    \/ \E a \in Agents : Reconcile(a)
    \/ \E t \in Rows : GrowOld(t)
    \/ Crash

Spec == Init /\ [][Next]_vars

-----------------------------------------------------------------------------
(* Invariants *)

ClaimPC  == {"idle", "loop", "counted", "locked"}
WorkerPC == {"idle", "offline", "next", "check", "reset"}

(* Every variable has its type. *)
TypeOK ==
    /\ created \in Nat
    /\ task \in [Rows -> Row]
    /\ admitted \subseteq [agent : Agents, runtime : Runtimes, link : Links]
    /\ known \subseteq Rows
    /\ claim \in [Requests -> [pc : ClaimPC, runtime : Runtimes \cup {"none"},
                               cands : SUBSET Rows, row : Nat]]
    /\ work \in [Workers -> [pc : WorkerPC, todo : SUBSET Rows, cur : Nat,
                             agents : SUBSET Agents, processed : SUBSET Links,
                             retried : SUBSET Links]]
    /\ failing \subseteq Rows
    /\ owed \subseteq Agents
    /\ working \in [Agents -> BOOLEAN]
    /\ agent \in [Agents -> {"active", "archiving", "archived"}]
    /\ issue \in [Issues -> IssueStatus]
    /\ cancelling \subseteq Issues
    /\ online \subseteq Runtimes
    /\ crashes \in Nat

(* At most one row per (issue, agent) waits to be started, whatever enqueues,
   retries and claims run at once: what the partial unique index is for. *)
OnePendingPerPair ==
    \A t, u \in Rows :
       (/\ task[t].agent = task[u].agent /\ task[t].link = task[u].link
        /\ task[t].link \in Issues /\ Pending(t) /\ Pending(u)) => t = u

(* An agent never has two dispatched or running rows on one issue, although
   concurrent claims decide on snapshots: ClaimAgentTask's per-(issue, agent)
   serialization. *)
IssueSerialization ==
    \A t, u \in Rows :
       (/\ task[t].agent = task[u].agent /\ task[t].link = task[u].link
        /\ task[t].link \in Issues /\ Active(t) /\ Active(u)) => t = u

(* While a claim holds a row, the row stays queued, no other claim holds it,
   and no row of the same agent on the same issue becomes active: the guard the
   claim evaluated on its snapshot is still true when it commits. *)
LockedRowFree ==
    \A q \in Requests : claim[q].pc = "locked" =>
       LET t == claim[q].row IN
       /\ t \in Rows /\ QueuedRow(t)
       /\ \A p \in Requests : claim[p].pc = "locked" /\ claim[p].row = t => p = q
       /\ \A u \in Rows :
             (task[u].agent = task[t].agent /\ task[u].link = task[t].link
                /\ task[t].link \in Issues) => ~ Active(u)

(* The same for the rows of one chat session, which no index protects. *)
ChatSerialization ==
    \A t, u \in Rows :
       (/\ task[t].agent = task[u].agent /\ task[t].link = task[u].link
        /\ task[t].link \in Chats /\ Active(t) /\ Active(u)) => t = u

(* A retry is a child of a failed row with a retryable reason, continues its
   attempt count within max_attempts, stays with its agent and link, and no
   row is retried twice, although the sweeper, orphan recovery and FailTask
   may all fail rows of the same runtime. *)
RetryLineage ==
    \A t \in Rows : task[t].parent # 0 =>
       /\ task[t].parent \in Rows
       /\ LET p == task[task[t].parent] IN
          /\ p.status = "failed" /\ p.reason \in retryableReasons
          /\ task[t].attempt = p.attempt + 1 /\ task[t].attempt <= MaxAttempts
          /\ task[t].agent = p.agent /\ task[t].link = p.link
       /\ \A u \in Rows : task[u].parent = task[t].parent => u = t

(* Rows some procedure has failed and not yet offered a retry. *)
AwaitingRetry ==
    failing \cup UNION {IF work[w].pc = "next" THEN work[w].todo ELSE work[w].todo \ {work[w].cur}
                          : w \in Workers}

(* No infrastructure failure is lost while the server stays up: a failed row
   that qualifies for a retry is still awaiting it or has been followed by a
   later row of the same agent on the same link. *)
NoRetryLost ==
    crashes = 0 =>
       \A t \in Rows :
          (task[t].status = "failed" /\ CanRetry(t)) =>
             \/ t \in AwaitingRetry
             \/ \E u \in Rows : /\ u > t /\ task[u].agent = task[t].agent
                               /\ task[u].link = task[t].link

(* Some running procedure will reconcile the agent. *)
Reconciling(a) ==
    \/ a \in owed
    \/ \E w \in Workers : a \in work[w].agents
    \/ \E t \in failing : task[t].agent = a

(* The status of an agent says whether it has active rows, except while a
   procedure that changed them has yet to reconcile it. Agents that are never
   archived; a crash loses what is owed. *)
StatusFaithful ==
    crashes = 0 =>
       \A a \in Agents \ Archivable : Reconciling(a) \/ working[a] = (ActiveOf(a) # {})

(* The same for every agent, archived and restored ones included. *)
StatusFaithfulOnceRestored ==
    crashes = 0 =>
       \A a \in Agents : agent[a] = "active" =>
                            Reconciling(a) \/ working[a] = (ActiveOf(a) # {})

(* Claims that count and claim in two statements overshoot the limit by at
   most the number of other claims in flight. *)
Claiming(a) == {q \in Requests : \/ claim[q].pc = "counted" /\ AtAgent(q, a)
                                 \/ claim[q].pc = "locked" /\ task[claim[q].row].agent = a}
OvershootBounded ==
    \A a \in Agents :
       Cardinality(ActiveOf(a)) + Cardinality(Claiming(a))
          <= MaxConcurrent + Cardinality(Requests) - 1

-----------------------------------------------------------------------------
(* Action properties *)

(* A terminal row is final: no late or repeated daemon call, sweep, cancel or
   retry changes its outcome, and no row changes agent, issue, chat or lineage. *)
TerminalFinal ==
    [][\A t \in Rows :
          /\ task[t].status \in Terminal =>
                task'[t].status = task[t].status /\ task'[t].reason = task[t].reason
          /\ task'[t].agent = task[t].agent
          /\ task[t].link \in Issues \cup Chats => task'[t].link = task[t].link
          /\ task'[t].attempt = task[t].attempt /\ task'[t].parent = task[t].parent]_vars

(* A claim for a runtime dispatches rows of that runtime only. *)
ClaimForOwnRuntime ==
    [][\A q \in Requests :
          claim[q].pc = "locked" /\ task'[claim[q].row].status = "dispatched"
             => task[claim[q].row].runtime = claim[q].runtime]_vars

(* HandleFailedTasks resets an issue only while it is in progress and has no
   live row. *)
ResetOnlyStuck ==
    [][\A w \in Workers :
          (work[w].pc = "reset" /\ work'[w].pc # "reset" /\ issue' # issue) =>
             LET i == task[work[w].cur].link IN issue[i] = "in_progress" /\ LiveOn(i) = {}]_vars

(* When FailTask is done with a row, its issue is not left in progress with
   nothing live on it. *)
FailTaskLeavesNoStuckIssue ==
    [][\A t \in failing \ failing' :
          LET i == task'[t].link IN
          i \in Issues /\ issue'[i] = "in_progress" /\ crashes' = crashes =>
             \E u \in 1 .. created' :
                task'[u].link = i /\ task'[u].status \in {"queued", "dispatched", "running"}]_vars

-----------------------------------------------------------------------------
(* Liveness *)

RowBound == 1 .. (MaxEnqueued * MaxAttempts)

(* Rows age; a server that is up runs its procedures to the end, and a claim that
   is tried again and again commits in the end; the sweeper's loop comes round to
   each of its statements again and again. *)
Fairness ==
    /\ \A t \in RowBound : WF_vars(t \in Rows /\ GrowOld(t))
    /\ \A q \in Requests : WF_vars(\E a \in Agents : CountRunning(q, a) \/ SelectRow(q, a))
                           /\ SF_vars(CommitClaim(q))
    /\ \A w \in Workers :
          /\ WF_vars(FailOffline(w) \/ NothingOffline(w) \/ CheckIssue(w) \/ ResetIssue(w)
                       \/ \E t \in Rows : RetryNext(w, t))
          /\ SF_vars(FailStale(w))
          /\ SF_vars(ExpireQueued(w))
    /\ \A t \in RowBound : WF_vars(t \in Rows /\ RetryAfterFail(t))
    /\ \A a \in Agents : WF_vars(Reconcile(a))

FairSpec == Spec /\ Fairness

(* No row waits in the queue for ever, whether its runtime is online or not. *)
QueuedLeaves ==
    \A t \in RowBound : (t \in Rows /\ QueuedRow(t)) ~> ~ (t \in Rows /\ QueuedRow(t))

(* No row runs for ever, even if its daemon is never heard of again. *)
RunningLeaves ==
    \A t \in RowBound : (t \in Rows /\ task[t].status = "running")
                           ~> (t \in Rows /\ task[t].status \in Terminal)
=============================================================================
