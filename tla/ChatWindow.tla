------------------------------- MODULE ChatWindow -------------------------------
(***************************************************************************)
(* The chat window of one client (packages/views/chat) with the server's   *)
(* chat handlers: a session made on the first message, the pending task    *)
(* the status pill and the input lock are drawn from, stop, a change of    *)
(* agent or session, and deletion. The pending task of a session is a      *)
(* query entry that four parties write: the optimistic step of a send, the *)
(* answer to that send, the events of the task, and refetches. Answers and *)
(* events travel on different connections.                                 *)
(*                                                                         *)
(* A message is its call, a task its number in the order of creation; a    *)
(* task is in flight (queued, dispatched or running) or has ended. Query   *)
(* entries follow TanStack Query 5 (external), as in IssueCache.           *)
(***************************************************************************)
EXTENDS Naturals, Sequences

CONSTANTS
    Agents,
    Sessions,
    Calls,        \* handleSend and handleUploadFile in flight in this window
    MaxTasks,     \* bound: tasks created
    MaxEvents,    \* bound: clicks, ends of tasks, deletions elsewhere, entries collected,
                  \* answers, requests and connections lost, reloads
    None,         \* no session; no task
    Draft         \* the temporary id of an optimistic pending task

ASSUME IdsAssumption == /\ None \notin Sessions \cup Agents /\ Agents # {}
                        /\ {None, Draft} \cap Nat = {} /\ None # Draft
ASSUME BoundsAssumption == MaxTasks \in Nat /\ MaxEvents \in Nat

VARIABLES
    active,       \* activeSessionId
    agent,        \* selectedAgentId
    dropped,      \* sessions taken out of the session list
    deleting,     \* the session whose deletion the modal dialog waits for
    pend,         \* the query cache: chatKeys.pendingTask
    call,         \* the asynchronous handlers in flight
    stops,        \* cancel requests in flight
    conn,         \* whether the websocket is open
    chan,         \* events on their way to this client
    unsent,       \* what handlers of the server have still to publish
    agentOf,      \* the sessions made, with their agent
    gone,         \* sessions deleted
    tasks,        \* chat rows of agent_task_queue
    crossed,      \* history: a landing has put a session beside another agent
    ghosts,       \* history: deleted sessions the window was not or is no more told of
    lapse,        \* history: sessions whose pending task may be stale for good
    events

window  == <<active, agent, dropped, deleting>>
net     == <<conn, chan, unsent>>
server  == <<agentOf, gone, tasks>>
history == <<crossed, ghosts, lapse>>
vars    == <<window, pend, call, stops, net, server, history, events>>

TaskIds == 1..MaxTasks
Task    == [session : Sessions, live : BOOLEAN]
Shown   == TaskIds \cup {None, Draft}
Entry   == [has : BOOLEAN, val : Shown, invalid : BOOLEAN,
            fetch : {"none", "sent", "read"}, snap : TaskIds \cup {None}, over : BOOLEAN]
NoEntry == [has |-> FALSE, val |-> None, invalid |-> FALSE,
            fetch |-> "none", snap |-> None, over |-> FALSE]

Ending == {"done", "failed", "cancelled"}
Kinds  == {"queued", "message", "deleted"} \cup Ending
Event  == [kind : Kinds, session : Sessions, task : TaskIds \cup {None}, late : BOOLEAN]

Stages == {"idle", "creating", "made", "unmade", "waiting", "sent", "stored", "refused"}
Frame  == [stage : Stages, kind : {"send", "upload"}, agent : Agents \cup {None},
           session : Sessions \cup {None}, task : TaskIds \cup {None}, astray : BOOLEAN]

Alive(s)  == agentOf[s] # None /\ s \notin gone
Live(t)   == t \in DOMAIN tasks /\ tasks[t].live
InFlight(s) == {t \in DOMAIN tasks : tasks[t].live /\ tasks[t].session = s}

(* GetPendingChatTask: the most recent task in flight. *)
Latest(s) == IF InFlight(s) = {} THEN None
             ELSE CHOOSE t \in InFlight(s) : \A u \in InFlight(s) : u <= t

Creating(c)  == call[c].stage \in {"creating", "made", "unmade"}
Awaiting(c)  == call[c].stage \in {"sent", "stored", "refused"}

Idle == [stage |-> "idle", kind |-> "send", agent |-> None,
         session |-> None, task |-> None, astray |-> FALSE]

(* The frame of a new call. *)
Free(c) == call[c] = Idle /\ c = CHOOSE d \in Calls : call[d] = Idle

-----------------------------------------------------------------------------
(* The query cache *)

Fetching(e) == [e EXCEPT !.fetch = "sent", !.snap = None, !.over = FALSE]
Rested(e)   == [e EXCEPT !.fetch = "none", !.snap = None, !.over = FALSE]

(* setQueryData: the entry counts as fresh; an answer on its way is overtaken. *)
Overtaken(e) == [e EXCEPT !.over = e.fetch = "read"]
Put(e, v) == Overtaken([e EXCEPT !.has = TRUE, !.val = v, !.invalid = FALSE])

(* invalidateQueries refetches the entry on screen and marks another. *)
Invalidate(e, s) ==
    IF s = active /\ (e.has \/ e.fetch = "none") THEN Fetching([e EXCEPT !.invalid = TRUE])
    ELSE Overtaken([e EXCEPT !.invalid = e.has])

(* Mutant: what is cached is shown, marked or not. *)
OpenedCached(p, s) ==
    IF s \in Sessions /\ p[s].fetch = "none" /\ ~ p[s].has
      THEN [p EXCEPT ![s] = Fetching(p[s])] ELSE p

(* setActiveSession: the window subscribes to the session's pending task. *)
Opened(p, s) ==
    IF s \in Sessions /\ p[s].fetch = "none" /\ (~ p[s].has \/ p[s].invalid)
      THEN [p EXCEPT ![s] = Fetching(p[s])] ELSE p

Blamed(s, why) == IF why THEN lapse \cup {s} ELSE lapse

(* A new window shows the first agent that is available. *)
Init ==
    /\ active = None /\ agent = CHOOSE a \in Agents : TRUE
    /\ dropped = {} /\ deleting = None
    /\ pend = [s \in Sessions |-> NoEntry]
    /\ call = [c \in Calls |-> Idle]
    /\ stops = {}
    /\ conn = TRUE /\ chan = <<>> /\ unsent = {}
    /\ agentOf = [s \in Sessions |-> None] /\ gone = {} /\ tasks = <<>>
    /\ crossed = FALSE /\ ghosts = {} /\ lapse = {}
    /\ events = 0

Bounded == events < MaxEvents /\ events' = events + 1

(* The server answers a fetch (404 once the session is gone) ... *)
Read(s) ==
    /\ pend[s].fetch = "sent"
    /\ pend' = [pend EXCEPT ![s] =
                  IF Alive(s) THEN [@ EXCEPT !.fetch = "read", !.snap = Latest(s)]
                  ELSE [Rested(@) EXCEPT !.invalid = pend[s].has]]
    /\ UNCHANGED <<window, call, stops, net, server, history, events>>

(* ... and the answer arrives. *)
Land(s) ==
    /\ pend[s].fetch = "read"
    /\ pend' = [pend EXCEPT ![s] = Rested(Put(pend[s], pend[s].snap))]
    /\ lapse' = IF pend[s].over THEN lapse \cup {s} ELSE lapse \ {s}
    /\ UNCHANGED <<window, call, stops, net, server, crossed, ghosts, events>>

(* gcTime of a session that is not on screen. *)
Collect(s) ==
    /\ s # active /\ pend[s].has /\ pend[s].fetch = "none"
    /\ Bounded
    /\ pend' = [pend EXCEPT ![s] = NoEntry]
    /\ lapse' = lapse \ {s}
    /\ UNCHANGED <<window, call, stops, net, server, crossed, ghosts>>

-----------------------------------------------------------------------------
(* The window *)

(* A clicked handler runs while no dialog is open. *)
Click == deleting = None /\ Bounded

Running == active # None /\ pend[active].val # None

(* handleSend into the session on screen: ChatInput locks while a task is pending.
   The optimistic burst precedes the request. *)
Send(c) ==
    /\ Click /\ active # None /\ ~ Running
    /\ Free(c)
    /\ call' = [call EXCEPT ![c] = [stage |-> "sent", kind |-> "send", agent |-> agent,
                  session |-> active, task |-> None, astray |-> crossed]]
    /\ pend' = [pend EXCEPT ![active] = Put(@, Draft)]
    /\ UNCHANGED <<window, stops, net, server, history>>

(* Mutant: every caller starts a create of its own. *)
EnsureAlways(c, k) ==
    call' = [call EXCEPT ![c] = [stage |-> "creating", kind |-> k, agent |-> agent,
               session |-> None, task |-> None, astray |-> FALSE]]

(* ensureSession without a session: the first caller starts the create, the others
   await the same promise, whosever agent it is for. *)
Ensure(c, k) ==
    call' = [call EXCEPT ![c] =
               [stage |-> IF \E d \in Calls : Creating(d) THEN "waiting" ELSE "creating",
                kind |-> k, agent |-> agent, session |-> None, task |-> None,
                astray |-> \E d \in Calls : Creating(d) /\ call[d].agent # agent]]

(* handleSend and handleUploadFile in a fresh chat. An upload holds back the input, not
   the starter prompts. *)
Begin(c, k) ==
    /\ Click /\ active = None
    /\ Free(c)
    /\ Ensure(c, k)
    /\ UNCHANGED <<window, pend, stops, net, server, history>>

(* The promise settles: the caller and those who wait go on in one turn of the event
   loop. Senders seed the pending task; then the session becomes the active one. *)
Settle(c) ==
    /\ call[c].stage \in {"made", "unmade"}
    /\ LET s    == call[c].session
           all  == {c} \cup {d \in Calls : call[d].stage = "waiting"}
           made == call[c].stage = "made"
           send == {d \in all : made /\ call[d].kind = "send"} IN
         /\ call' = [d \in Calls |->
                       IF d \in send THEN [call[d] EXCEPT !.stage = "sent", !.session = s]
                       ELSE IF d \in all THEN Idle ELSE call[d]]
         /\ IF made
              THEN /\ active' = s
                   /\ pend' = IF send # {} THEN [pend EXCEPT ![s] = Put(@, Draft)]
                              ELSE Opened(pend, s)
                   /\ crossed' = (agentOf[s] # agent)
                   /\ ghosts' = ghosts \cup (gone \cap {s})
              ELSE UNCHANGED <<active, pend, crossed, ghosts>>
    /\ UNCHANGED <<agent, dropped, deleting, stops, net, server, lapse, events>>

(* The rest of handleSend: the real task id, once the handler has published. *)
Answered(c) ==
    /\ call[c].stage = "stored"
    /\ \A sq \in unsent : \A n \in DOMAIN sq :
         sq[n].task = call[c].task => sq[n].kind \in Ending
    /\ LET s == call[c].session IN
         /\ pend' = [pend EXCEPT ![s] = Put(@, call[c].task)]
         /\ lapse' = Blamed(s, call[c].task # Latest(s))
    /\ call' = [call EXCEPT ![c] = Idle]
    /\ UNCHANGED <<window, stops, net, server, crossed, ghosts, events>>

(* handleSend rejects: nothing takes the optimistic pending task away. *)
Rejected(c) ==
    /\ call[c].stage = "refused"
    /\ call' = [call EXCEPT ![c] = Idle]
    /\ lapse' = Blamed(call[c].session, TRUE)
    /\ UNCHANGED <<window, pend, stops, net, server, crossed, ghosts, events>>

(* Mutant: the temporary id is taken for a task's. *)
CancelledAny(v) == {v}

(* The temporary id is no uuid: its request cancels nothing. *)
Cancelled(v) == {v} \ {Draft}

(* handleStop *)
Stop ==
    /\ Click /\ Running
    /\ stops' = stops \cup Cancelled(pend[active].val)
    /\ pend' = [pend EXCEPT ![active] = Put(@, None)]
    /\ UNCHANGED <<window, call, net, server, history>>

(* setActiveSession *)
Open(s) == active' = s /\ pend' = Opened(pend, s) /\ crossed' = FALSE

(* handleSelectAgent *)
SelectAgent(a) ==
    /\ Click /\ a # agent
    /\ agent' = a
    /\ Open(None)
    /\ UNCHANGED <<dropped, deleting, call, stops, net, server, ghosts, lapse>>

(* handleNewChat *)
NewChat ==
    /\ Click /\ active # None
    /\ Open(None)
    /\ UNCHANGED <<agent, dropped, deleting, call, stops, net, server, ghosts, lapse>>

(* Mutant: picking a session of another agent keeps the agent. *)
PickKeepsAgent(s) == Open(s) /\ UNCHANGED agent

Pick(s) == Open(s) /\ agent' = agentOf[s]

(* handleSelectSession *)
SelectSession(s) ==
    /\ Click /\ agentOf[s] # None /\ s \notin dropped
    /\ Pick(s)
    /\ UNCHANGED <<dropped, deleting, call, stops, net, server, ghosts, lapse>>

(* handleConfirmDelete, useDeleteChatSession.onMutate *)
Delete(s) ==
    /\ Click /\ agentOf[s] # None /\ s \notin dropped
    /\ deleting' = s
    /\ dropped' = dropped \cup {s}
    /\ IF active = s THEN Open(None) ELSE UNCHANGED <<active, pend, crossed>>
    /\ UNCHANGED <<agent, call, stops, net, server, ghosts, lapse>>

(* The page is loaded again: the store keeps the session and the agent. *)
Reload ==
    /\ Bounded
    /\ pend' = Opened([s \in Sessions |-> NoEntry], active)
    /\ call' = [c \in Calls |-> Idle]
    /\ stops' = {} /\ deleting' = None
    /\ dropped' = gone
    /\ conn' = FALSE /\ chan' = <<>>
    /\ lapse' = {}
    /\ ghosts' = gone
    /\ UNCHANGED <<active, agent, unsent, server, crossed>>

-----------------------------------------------------------------------------
(* The server's handlers: each commits, then publishes its events in order *)

About(k, s, t) == [kind |-> k, session |-> s, task |-> t, late |-> FALSE]

(* Marks the task:queued events that follow, in their order, what comes later in the
   life of the tasks. *)
Belated(f, e) ==
    /\ f.kind = "queued" /\ f.session = e.session
    /\ \/ f.task = e.task /\ e.kind \in Ending
       \/ e.kind = "queued" /\ f.task < e.task

Delayed(sq, es) ==
    [n \in DOMAIN sq |-> [sq[n] EXCEPT !.late = @ \/ \E e \in es : Belated(sq[n], e)]]

(* A refusal is a fault within the bound, unless there is no other way on. *)
Fault(forced) == IF forced THEN UNCHANGED events ELSE Bounded

(* CreateChatSession; its answer may get lost. *)
MakeSession(c) ==
    /\ call[c].stage = "creating"
    /\ \E s \in Sessions :
         /\ agentOf[s] = None /\ s = CHOOSE x \in Sessions : agentOf[x] = None
         /\ agentOf' = [agentOf EXCEPT ![s] = call[c].agent]
         /\ \/ /\ call' = [call EXCEPT ![c] = [@ EXCEPT !.stage = "made", !.session = s]]
               /\ UNCHANGED events
            \/ /\ call' = [call EXCEPT ![c] = [@ EXCEPT !.stage = "unmade"]]
               /\ Bounded
    /\ UNCHANGED <<window, pend, stops, net, gone, tasks, history>>

RefuseSession(c) ==
    /\ call[c].stage = "creating"
    /\ Fault(\A s \in Sessions : agentOf[s] # None)
    /\ call' = [call EXCEPT ![c] = [@ EXCEPT !.stage = "unmade"]]
    /\ UNCHANGED <<window, pend, stops, net, server, history>>

Enqueued(s) == Append(tasks, [session |-> s, live |-> TRUE])

(* SendChatMessage: the message, EnqueueChatTask with its task:queued, chat:message. *)
Store(c) ==
    /\ call[c].stage = "sent" /\ Alive(call[c].session)
    /\ Len(tasks) < MaxTasks
    /\ LET s == call[c].session  t == Len(tasks) + 1 IN
         /\ tasks' = Enqueued(s)
         /\ unsent' = unsent \cup {<<About("queued", s, t), About("message", s, t)>>}
         /\ call' = [call EXCEPT ![c] = [@ EXCEPT !.stage = "stored", !.task = t]]
    /\ UNCHANGED <<window, pend, stops, conn, chan, agentOf, gone, history, events>>

(* The session is gone, the agent is archived, or the request is not heard of. *)
RefuseSend(c) ==
    /\ call[c].stage = "sent"
    /\ Fault(Len(tasks) = MaxTasks \/ ~ Alive(call[c].session))
    /\ call' = [call EXCEPT ![c] = [@ EXCEPT !.stage = "refused"]]
    /\ UNCHANGED <<window, pend, stops, net, server, history>>

(* The answer to a message that was stored gets lost. *)
LoseAnswer(c) ==
    /\ call[c].stage = "stored"
    /\ Bounded
    /\ call' = [call EXCEPT ![c] = [@ EXCEPT !.stage = "refused"]]
    /\ UNCHANGED <<window, pend, stops, net, server, history>>

Ended(ts, t) == [ts EXCEPT ![t] = [@ EXCEPT !.live = FALSE]]

(* CompleteTask, and CancelTask for another tab or an administrator. *)
Finish(t, k) ==
    /\ Live(t)
    /\ Bounded
    /\ tasks' = Ended(tasks, t)
    /\ unsent' = unsent \cup {<<About(k, tasks[t].session, t)>>}
    /\ UNCHANGED <<window, pend, call, stops, conn, chan, agentOf, gone, history>>

(* A task fails and no event says so. *)
Unheard(s, t) ==
    /\ unsent' = {Delayed(sq, {About("failed", s, t)}) : sq \in unsent}
    /\ chan' = Delayed(chan, {About("failed", s, t)})
    /\ lapse' = Blamed(s, TRUE)
    /\ pend' = [pend EXCEPT ![s] = Overtaken(@)]

(* FailTask: MaybeRetryFailedTask has published the child before the parent fails.
   HandleFailedTasks (sweepers, orphans): its task:failed names no chat session, so
   only a retry is heard of. *)
Fail(t) ==
    /\ Live(t)
    /\ Bounded
    /\ \E retried, swept \in BOOLEAN :
         LET s     == tasks[t].session
             child == IF retried THEN <<About("queued", s, Len(tasks) + 1)>> ELSE <<>>
             told  == IF swept THEN child ELSE Append(child, About("failed", s, t)) IN
           /\ retried => Len(tasks) < MaxTasks
           /\ tasks' = Ended(IF retried THEN Enqueued(s) ELSE tasks, t)
           /\ IF told = <<>> THEN Unheard(s, t)
              ELSE unsent' = unsent \cup {told} /\ UNCHANGED <<chan, lapse, pend>>
    /\ UNCHANGED <<window, call, stops, conn, agentOf, gone, crossed, ghosts>>

(* DeleteChatSession: the row, and its tasks cancelled, in one transaction. The
   task:cancelled events find no session any more and are not published. *)
Removed(s) ==
    /\ gone' = gone \cup {s}
    /\ tasks' = [t \in DOMAIN tasks |->
                   IF tasks[t].session = s THEN [tasks[t] EXCEPT !.live = FALSE] ELSE tasks[t]]
    /\ unsent' = unsent \cup {<<About("deleted", s, None)>>}
    /\ UNCHANGED <<agentOf, conn, chan>>

DeleteElsewhere(s) ==
    /\ Alive(s)
    /\ Bounded
    /\ Removed(s)
    /\ UNCHANGED <<window, pend, call, stops, history>>

(* The request of this window: served, too late, or failed. Then the list is put back,
   with a session that may have been deleted in the meantime. *)
DeleteServed ==
    /\ deleting # None
    /\ deleting' = None
    /\ \/ /\ Alive(deleting) /\ Removed(deleting)
          /\ UNCHANGED <<dropped, ghosts, events>>
       \/ /\ ~ Alive(deleting)
          /\ UNCHANGED <<dropped, ghosts, net, server, events>>
       \/ /\ Bounded
          /\ dropped' = dropped \ {deleting}
          /\ ghosts' = ghosts \cup (gone \cap {deleting})
          /\ UNCHANGED <<net, server>>
    /\ UNCHANGED <<active, agent, pend, call, stops, crossed, lapse>>

(* CancelTaskByUser: a row that has ended is returned as it is. *)
StopServed(t) ==
    /\ t \in stops
    /\ stops' = stops \ {t}
    /\ IF Live(t)
         THEN /\ tasks' = Ended(tasks, t)
              /\ unsent' = unsent \cup {<<About("cancelled", tasks[t].session, t)>>}
         ELSE UNCHANGED <<tasks, unsent>>
    /\ UNCHANGED <<window, pend, call, conn, chan, agentOf, gone, history, events>>

StopLost(t) ==
    /\ t \in stops
    /\ Bounded
    /\ stops' = stops \ {t}
    /\ lapse' = Blamed(tasks[t].session, Live(t))
    /\ UNCHANGED <<window, pend, call, net, server, crossed, ghosts>>

-----------------------------------------------------------------------------
(* The websocket *)

(* What the loss of events leaves behind. *)
Lost(es) ==
    /\ lapse' = lapse \cup {e.session : e \in es}
    /\ pend' = [s \in Sessions |-> IF \E e \in es : e.session = s THEN Overtaken(pend[s])
                                   ELSE pend[s]]
    /\ ghosts' = ghosts \cup {e.session : e \in {f \in es : f.kind = "deleted"}}

(* broadcastTaskEvent finds the workspace through the session's row. *)
Heard(e) == e.kind \in Ending \cup {"queued"} => e.session \notin gone

(* Without the row only the last event of a handler can go out. *)
Published(sq) ==
    IF \A n \in DOMAIN sq : Heard(sq[n]) THEN sq
    ELSE IF Heard(sq[Len(sq)]) THEN <<sq[Len(sq)]>> ELSE <<>>

(* A handler's events go out together. *)
Publish(sq) ==
    LET told == Published(sq)  es == {told[n] : n \in DOMAIN told} IN
      /\ unsent' = {Delayed(o, es) : o \in unsent \ {sq}}
      /\ chan' = IF conn THEN chan \o told ELSE chan
      /\ IF conn THEN UNCHANGED <<pend, lapse, ghosts>> ELSE Lost(es)
      /\ UNCHANGED <<window, call, stops, conn, server, crossed, events>>

(* Mutant: the reply clears the pending task, and nothing fetches it again. *)
DoneTrusted(e, k) ==
    CASE e.kind = "queued"               -> Put(k, e.task)
      [] e.kind = "message"              -> Invalidate(k, e.session)
      [] e.kind = "failed"               -> Invalidate(Put(k, None), e.session)
      [] e.kind \in {"done", "cancelled"} -> Put(k, None)
      [] e.kind = "deleted"              -> NoEntry

(* The handlers of useRealtimeSync. *)
Handled(e, k) ==
    CASE e.kind = "queued"              -> Put(k, e.task)
      [] e.kind = "message"             -> Invalidate(k, e.session)
      [] e.kind \in {"done", "failed"}  -> Invalidate(Put(k, None), e.session)
      [] e.kind = "cancelled"           -> Put(k, None)
      [] e.kind = "deleted"             -> NoEntry

(* Why the pending task may be stale for good afterwards: an old event, or a pill
   taken away while another task is in flight (task:cancelled asks for no task id). *)
Blame(e) == e.late \/ (e.kind = "cancelled" /\ Latest(e.session) # None)

(* Mutant: a deletion leaves the window where it is. *)
StaysOpen(e) == active

Followed(e) == IF e.kind = "deleted" /\ e.session = active THEN None ELSE active

Deliver ==
    /\ chan # <<>>
    /\ LET e == Head(chan)  s == e.session IN
         /\ pend' = [pend EXCEPT ![s] = Handled(e, @)]
         /\ lapse' = Blamed(s, Blame(e))
         /\ active' = Followed(e)
         /\ crossed' = (crossed /\ active' # None)
         /\ dropped' = IF e.kind = "deleted" THEN dropped \cup {s} ELSE dropped
    /\ chan' = Tail(chan)
    /\ UNCHANGED <<agent, deleting, call, stops, conn, unsent, server, ghosts, events>>

(* The connection goes; what was on its way is lost. A reconnection fetches no chat
   query again: invalidateWorkspaceScopedQueries does not name them. *)
Drop ==
    /\ conn
    /\ Bounded
    /\ conn' = FALSE /\ chan' = <<>>
    /\ Lost({chan[n] : n \in DOMAIN chan})
    /\ UNCHANGED <<window, call, stops, unsent, server, crossed>>

Connect ==
    /\ ~ conn
    /\ conn' = TRUE
    /\ UNCHANGED <<window, pend, call, stops, chan, unsent, server, history, events>>

-----------------------------------------------------------------------------

User ==
    \/ \E c \in Calls : Send(c) \/ \E k \in {"send", "upload"} : Begin(c, k)
    \/ \E a \in Agents : SelectAgent(a)
    \/ \E s \in Sessions : SelectSession(s) \/ Delete(s)
    \/ Stop \/ NewChat \/ Reload

Serve(c) == MakeSession(c) \/ RefuseSession(c) \/ Store(c) \/ RefuseSend(c)

Others ==
    \/ \E t \in DOMAIN tasks : Fail(t) \/ \E k \in {"done", "cancelled"} : Finish(t, k)
    \/ \E s \in Sessions : DeleteElsewhere(s)

Next ==
    \/ User \/ Others
    \/ \E c \in Calls : Serve(c) \/ Settle(c) \/ Answered(c) \/ LoseAnswer(c) \/ Rejected(c)
    \/ DeleteServed
    \/ \E t \in stops : StopServed(t) \/ StopLost(t)
    \/ \E sq \in unsent : Publish(sq)
    \/ Deliver \/ Drop \/ Connect
    \/ \E s \in Sessions : Read(s) \/ Land(s) \/ Collect(s)

Spec == Init /\ [][Next]_vars

(* Requests are served and answered, events published and delivered, the socket
   reconnects. No task need ever end. *)
Fairness ==
    /\ \A c \in Calls : /\ WF_vars(Serve(c)) /\ WF_vars(Settle(c))
                        /\ WF_vars(Answered(c)) /\ WF_vars(Rejected(c))
    /\ WF_vars(\E t \in stops : StopServed(t) \/ StopLost(t))
    /\ WF_vars(\E sq \in unsent : Publish(sq)) /\ WF_vars(Deliver) /\ WF_vars(Connect)
    /\ WF_vars(\E s \in Sessions : Read(s) \/ Land(s))

FairSpec == Spec /\ Fairness

-----------------------------------------------------------------------------

(* Every variable keeps to its type. *)
TypeOK ==
    /\ active \in Sessions \cup {None} /\ agent \in Agents
    /\ dropped \subseteq Sessions /\ deleting \in Sessions \cup {None}
    /\ pend \in [Sessions -> Entry]
    /\ call \in [Calls -> Frame]
    /\ stops \subseteq TaskIds
    /\ conn \in BOOLEAN /\ chan \in Seq(Event)
    /\ \A sq \in unsent : sq \in Seq(Event)
    /\ agentOf \in [Sessions -> Agents \cup {None}] /\ gone \subseteq Sessions
    /\ tasks \in Seq(Task)
    /\ crossed \in BOOLEAN /\ ghosts \subseteq Sessions
    /\ lapse \subseteq Sessions
    /\ events \in Nat

(* Callers that find no session share one create ("creating two sessions and orphaning
   the attachment on the wrong one"), and none waits for a create that is over. *)
OneCreate ==
    /\ \A c, d \in Calls : Creating(c) /\ Creating(d) => c = d
    /\ \A c \in Calls : call[c].stage = "waiting" => \E d \in Calls : Creating(d)

(* "Sessions are bound 1:1 to an agent": the session on screen is the selected agent's,
   and a message goes to a session of the agent that was on screen when it was sent,
   unless a create of another agent landed in between. A fresh chat has one create. *)
Addressed ==
    /\ OneCreate
    /\ active # None => agentOf[active] = agent \/ crossed
    /\ \A c \in Calls :
         Awaiting(c) => agentOf[call[c].session] = call[c].agent \/ call[c].astray

Coming(e) ==
    \/ \E n \in DOMAIN chan : chan[n] = e
    \/ \E sq \in unsent : \E n \in DOMAIN sq : sq[n] = e

(* The window never stays on a deleted session, unless the news was lost or came first. *)
ActiveExists ==
    active \in gone => active \in ghosts \/ Coming(About("deleted", active, None))

News(s) == \/ \E n \in DOMAIN chan : chan[n].session = s
           \/ \E sq \in unsent : \E n \in DOMAIN sq : sq[n].session = s

(* Somebody has still to bring the pending task up to date. *)
Owed(s) ==
    \/ pend[s].fetch # "none" \/ pend[s].invalid
    \/ News(s)
    \/ \E c \in Calls : Awaiting(c) /\ call[c].session = s
    \/ \E t \in stops : tasks[t].session = s

(* The pill shows the latest task in flight, and the input is locked for it alone:
   anything else is a debt of an event, an answer, a fetch or a cancel request, or one
   of the causes in "lapse". *)
PillAccounted ==
    \A s \in Sessions :
        pend[s].has /\ s \notin gone
          => pend[s].val = Latest(s) \/ Owed(s) \/ s \in lapse

(* A session that stays on screen ends up with the right pill, however its task ends. *)
PillSettles ==
    \A s \in Sessions :
        <>[](active = s /\ s \notin gone /\ s \notin lapse)
          => <>[](pend[s].has /\ pend[s].val = Latest(s))
=============================================================================
