---------------------------- MODULE ChatWindowProofs ----------------------------
(***************************************************************************)
(* The chat window with any agents, sessions and handlers in flight:       *)
(* messages go to the agent they were written for, the window leaves a     *)
(* deleted session, and the pill is right or somebody is to put it right.  *)
(***************************************************************************)
EXTENDS ChatWindow, TLAPS, SequenceTheorems, WellFoundedInduction

(* What a handler has been given is there in its frame. *)
FramesFilled ==
    \A c \in Calls :
        /\ call[c].stage # "idle" => call[c].agent \in Agents
        /\ call[c].stage \in {"made", "sent", "stored", "refused"} => call[c].session \in Sessions
        /\ call[c].stage = "stored" => call[c].task \in TaskIds

TasksBounded == Len(tasks) <= MaxTasks

TInv == TypeOK /\ FramesFilled /\ TasksBounded

----------------------------------------------------------------------------
(* Types of the operators *)

LEMMA EntryOps ==
    ASSUME NEW e \in Entry
    PROVE  /\ Fetching(e) \in Entry /\ Rested(e) \in Entry /\ Overtaken(e) \in Entry
           /\ \A v \in Shown : Put(e, v) \in Entry
           /\ \A s : Invalidate(e, s) \in Entry
<1>1. Fetching(e) \in Entry /\ Rested(e) \in Entry
  BY DEF Fetching, Rested, Entry
<1>2. \A f \in Entry : Overtaken(f) \in Entry
  BY DEF Overtaken, Entry
<1>3. \A v \in Shown : Put(e, v) \in Entry
  <2> TAKE v \in Shown
  <2>1. [e EXCEPT !.has = TRUE, !.val = v, !.invalid = FALSE] \in Entry
    BY DEF Entry
  <2> QED BY <2>1, <1>2 DEF Put
<1>4. ASSUME NEW s PROVE Invalidate(e, s) \in Entry
  <2>1. [e EXCEPT !.invalid = TRUE] \in Entry /\ [e EXCEPT !.invalid = e.has] \in Entry
    BY DEF Entry
  <2>2. \A f \in Entry : Fetching(f) \in Entry
    BY DEF Fetching, Entry
  <2> QED BY <2>1, <2>2, <1>2 DEF Invalidate
<1> QED BY <1>1, <1>2, <1>3, <1>4

LEMMA NoEntryType == NoEntry \in Entry
BY DEF NoEntry, Entry, Shown

LEMMA OpenedType ==
    ASSUME NEW p \in [Sessions -> Entry], NEW s
    PROVE  Opened(p, s) \in [Sessions -> Entry]
BY EntryOps DEF Opened

(* A nonempty set of rows has a last one. *)
LEMMA LastExists ==
    ASSUME NEW n \in Nat, NEW S \in SUBSET (1..n), S # {}
    PROVE  \E t \in S : \A u \in S : u <= t
<1> DEFINE Above == {m \in Nat : \A u \in S : u <= m}
<1>1. n \in Above
  OBVIOUS
<1>2. PICK m \in Above : \A k \in Above : ~ (<<k, m>> \in OpToRel(<, Nat))
  BY <1>1, WFMin, NatLessThanWellFounded
<1>3. \A k \in Above : ~ (k < m)
  BY <1>2 DEF OpToRel
<1>4. PICK u0 \in S : TRUE
  OBVIOUS
<1>5. m \in Nat /\ m >= 1 /\ \A u \in S : u \in Nat /\ u <= m
  BY <1>4
<1>6. m \in S
  <2> SUFFICES ASSUME m \notin S PROVE FALSE
    OBVIOUS
  <2>1. \A u \in S : u <= m - 1
    BY <1>5
  <2>2. m - 1 \in Above
    BY <1>5, <2>1
  <2> QED BY <2>2, <1>3, <1>5
<1> QED BY <1>5, <1>6

(* A row of the task table. *)
LEMMA RowType ==
    ASSUME TInv, NEW t \in DOMAIN tasks
    PROVE  /\ tasks[t] \in Task /\ tasks[t].session \in Sessions /\ t \in TaskIds
           /\ Len(tasks) \in Nat /\ t \in 1..Len(tasks)
<1>1. tasks \in Seq(Task) /\ Len(tasks) <= MaxTasks
  BY DEF TInv, TypeOK, TasksBounded
<1>2. Len(tasks) \in Nat /\ t \in 1..Len(tasks) /\ tasks[t] \in Task
  BY <1>1
<1>3. t \in TaskIds
  BY <1>1, <1>2, BoundsAssumption DEF TaskIds
<1> QED BY <1>2, <1>3 DEF Task

LEMMA LatestType ==
    ASSUME TInv, NEW s
    PROVE  Latest(s) \in TaskIds \cup {None}
<1>1. CASE InFlight(s) = {}
  BY <1>1 DEF Latest
<1>2. CASE InFlight(s) # {}
  <2>1. Len(tasks) \in Nat /\ Len(tasks) <= MaxTasks /\ DOMAIN tasks = 1..Len(tasks)
    BY DEF TInv, TypeOK, TasksBounded
  <2>2. InFlight(s) \in SUBSET (1..Len(tasks))
    BY <2>1 DEF InFlight
  <2>3. \E t \in InFlight(s) : \A u \in InFlight(s) : u <= t
    BY <1>2, <2>1, <2>2, LastExists
  <2>4. Latest(s) \in InFlight(s)
    BY <1>2, <2>3 DEF Latest
  <2> QED BY <2>1, <2>2, <2>4, BoundsAssumption DEF TaskIds
<1> QED BY <1>1, <1>2

LEMMA DelayedType ==
    ASSUME NEW sq \in Seq(Event), NEW es
    PROVE  /\ Delayed(sq, es) \in Seq(Event)
           /\ DOMAIN Delayed(sq, es) = DOMAIN sq
<1>1. Len(sq) \in Nat /\ DOMAIN sq = 1..Len(sq) /\ \A n \in 1..Len(sq) : sq[n] \in Event
  OBVIOUS
<1>2. \A n \in 1..Len(sq) : \A b \in BOOLEAN : [sq[n] EXCEPT !.late = b] \in Event
  BY <1>1 DEF Event
<1>3. \A n \in 1..Len(sq) :
        [sq[n] EXCEPT !.late = @ \/ \E e \in es : Belated(sq[n], e)] \in Event
  BY <1>1, <1>2 DEF Event
<1>4. Delayed(sq, es) = [n \in 1..Len(sq) |->
        [sq[n] EXCEPT !.late = @ \/ \E e \in es : Belated(sq[n], e)]]
  BY <1>1 DEF Delayed
<1> QED BY <1>1, <1>3, <1>4, IsASeq

LEMMA PublishedType ==
    ASSUME NEW sq \in Seq(Event)
    PROVE  Published(sq) \in Seq(Event)
<1>1. CASE \A n \in DOMAIN sq : Heard(sq[n])
  BY <1>1 DEF Published
<1>2. CASE \E n \in DOMAIN sq : ~ Heard(sq[n])
  <2>1. Len(sq) \in 1..Len(sq)
    BY <1>2
  <2>2. sq[Len(sq)] \in Event
    BY <2>1
  <2> QED BY <1>2, <2>2 DEF Published
<1> QED BY <1>1, <1>2


----------------------------------------------------------------------------
(* Types of the steps *)

LEMMA InitType == Init => TInv
<1> SUFFICES ASSUME Init PROVE TInv
  OBVIOUS
<1>1. agent \in Agents
  BY IdsAssumption DEF Init
<1>2. pend \in [Sessions -> Entry]
  BY NoEntryType DEF Init
<1>3. call \in [Calls -> Frame]
  BY DEF Init, Idle, Frame, Stages
<1>4. chan \in Seq(Event) /\ tasks \in Seq(Task) /\ Len(tasks) = 0
  BY DEF Init
<1>5. TasksBounded
  BY <1>4, BoundsAssumption DEF TasksBounded
<1>6. FramesFilled
  BY DEF Init, Idle, FramesFilled
<1> QED BY <1>1, <1>2, <1>3, <1>4, <1>5, <1>6 DEF TInv, TypeOK, Init

(* The window's own handlers. *)

LEMMA OpenType ==
    ASSUME TInv, NEW s \in Sessions \cup {None}, Open(s)
    PROVE  active' \in Sessions \cup {None} /\ pend' \in [Sessions -> Entry] /\ crossed' \in BOOLEAN
BY OpenedType DEF TInv, TypeOK, Open

LEMMA PutType ==
    ASSUME TInv, NEW s \in Sessions, NEW v \in Shown
    PROVE  [pend EXCEPT ![s] = Put(@, v)] \in [Sessions -> Entry]
<1>1. pend[s] \in Entry /\ Put(pend[s], v) \in Entry
  BY EntryOps DEF TInv, TypeOK
<1> QED BY <1>1 DEF TInv, TypeOK

LEMMA SendType ==
    ASSUME TInv, NEW c \in Calls, Send(c)
    PROVE  TInv'
<1>1. active \in Sessions
  BY DEF TInv, TypeOK, Send
<1>2. pend' \in [Sessions -> Entry]
  BY <1>1, PutType DEF Send, Shown
<1>3. call' \in [Calls -> Frame]
  BY <1>1 DEF TInv, TypeOK, Send, Frame, Stages
<1>4. FramesFilled'
  BY <1>1 DEF TInv, TypeOK, FramesFilled, Send
<1> QED BY <1>2, <1>3, <1>4 DEF TInv, TypeOK, TasksBounded, Send, Click, Bounded, window, net, server, history

LEMMA BeginType ==
    ASSUME TInv, NEW c \in Calls, NEW k \in {"send", "upload"}, Begin(c, k)
    PROVE  TInv'
<1>1. call' \in [Calls -> Frame]
  BY DEF TInv, TypeOK, Begin, Ensure, Frame, Stages
<1>2. FramesFilled'
  BY DEF TInv, TypeOK, FramesFilled, Begin, Ensure
<1> QED BY <1>1, <1>2 DEF TInv, TypeOK, TasksBounded, Begin, Click, Bounded, window, net, server, history

LEMMA SettleType ==
    ASSUME TInv, NEW c \in Calls, Settle(c)
    PROVE  TInv'
<1> DEFINE s == call[c].session
           all == {c} \cup {d \in Calls : call[d].stage = "waiting"}
           made == call[c].stage = "made"
           send == {d \in all : made /\ call[d].kind = "send"}
<1>1. made => s \in Sessions
  BY DEF TInv, FramesFilled
<1>2. call' = [d \in Calls |->
                 IF d \in send THEN [call[d] EXCEPT !.stage = "sent", !.session = s]
                 ELSE IF d \in all THEN Idle ELSE call[d]]
  BY DEF Settle
<1>3. ASSUME NEW d \in Calls PROVE call'[d] \in Frame
  <2>1. call[d] \in Frame
    BY DEF TInv, TypeOK
  <2>2. d \in send => [call[d] EXCEPT !.stage = "sent", !.session = s] \in Frame
    BY <1>1, <2>1 DEF Frame, Stages
  <2>3. Idle \in Frame
    BY DEF Idle, Frame, Stages
  <2> QED BY <1>2, <2>1, <2>2, <2>3
<1>4. call' \in [Calls -> Frame]
  BY <1>2, <1>3
<1>5. FramesFilled'
  <2> SUFFICES ASSUME NEW d \in Calls
               PROVE  /\ call'[d].stage # "idle" => call'[d].agent \in Agents
                      /\ call'[d].stage \in {"made", "sent", "stored", "refused"}
                           => call'[d].session \in Sessions
                      /\ call'[d].stage = "stored" => call'[d].task \in TaskIds
    BY DEF FramesFilled
  <2>1. call[d] \in Frame
    BY DEF TInv, TypeOK
  <2>2. CASE d \in send
    <3>1. call'[d] = [call[d] EXCEPT !.stage = "sent", !.session = s]
      BY <1>2, <2>2
    <3>2. call[d].stage # "idle"
      BY <2>2 DEF Settle
    <3> QED BY <1>1, <2>1, <2>2, <3>1, <3>2 DEF TInv, FramesFilled, Frame
  <2>3. CASE d \notin send
    BY <1>2, <2>3 DEF TInv, FramesFilled, Idle
  <2> QED BY <2>2, <2>3
<1>6. pend' \in [Sessions -> Entry]
  <2>1. CASE made /\ send # {}
    <3>1. pend' = [pend EXCEPT ![s] = Put(@, Draft)]
      BY <2>1 DEF Settle
    <3> QED BY <1>1, <2>1, <3>1, PutType DEF Shown
  <2>2. CASE made /\ send = {}
    <3>1. pend' = Opened(pend, s)
      BY <2>2 DEF Settle
    <3> QED BY <3>1, OpenedType DEF TInv, TypeOK
  <2>3. CASE ~ made
    BY <2>3 DEF Settle, TInv, TypeOK
  <2> QED BY <2>1, <2>2, <2>3
<1>7. active' \in Sessions \cup {None} /\ crossed' \in BOOLEAN /\ ghosts' \subseteq Sessions
  <2>1. CASE made
    <3>1. active' = s /\ crossed' = (agentOf[s] # agent) /\ ghosts' = ghosts \cup (gone \cap {s})
      BY <2>1 DEF Settle
    <3> QED BY <1>1, <2>1, <3>1 DEF TInv, TypeOK
  <2>2. CASE ~ made
    BY <2>2 DEF Settle, TInv, TypeOK
  <2> QED BY <2>1, <2>2
<1> QED BY <1>4, <1>5, <1>6, <1>7 DEF TInv, TypeOK, TasksBounded, Settle, net, server

LEMMA AnsweredType ==
    ASSUME TInv, NEW c \in Calls, Answered(c)
    PROVE  TInv'
<1>1. call[c].session \in Sessions /\ call[c].task \in Shown
  BY DEF TInv, FramesFilled, Answered, Shown
<1>2. pend' \in [Sessions -> Entry]
  BY <1>1, PutType DEF Answered
<1>3. call' \in [Calls -> Frame] /\ FramesFilled'
  BY DEF TInv, TypeOK, FramesFilled, Answered, Idle, Frame, Stages
<1>4. lapse' \subseteq Sessions
  BY <1>1 DEF TInv, TypeOK, Answered, Blamed
<1> QED BY <1>2, <1>3, <1>4 DEF TInv, TypeOK, TasksBounded, Answered, window, net, server

LEMMA RejectedType ==
    ASSUME TInv, NEW c \in Calls, Rejected(c)
    PROVE  TInv'
<1>1. call[c].session \in Sessions
  BY DEF TInv, FramesFilled, Rejected
<1>2. call' \in [Calls -> Frame] /\ FramesFilled'
  BY DEF TInv, TypeOK, FramesFilled, Rejected, Idle, Frame, Stages
<1>3. lapse' \subseteq Sessions
  BY <1>1 DEF TInv, TypeOK, Rejected, Blamed
<1> QED BY <1>2, <1>3 DEF TInv, TypeOK, TasksBounded, Rejected, window, net, server

LEMMA StopType == TInv /\ Stop => TInv'
<1> SUFFICES ASSUME TInv, Stop PROVE TInv'
  OBVIOUS
<1>1. active \in Sessions /\ pend[active].val \in Shown
  BY DEF TInv, TypeOK, Stop, Running, Entry
<1>2. pend' \in [Sessions -> Entry]
  BY <1>1, PutType DEF Stop, Shown
<1>3. stops' \subseteq TaskIds
  BY <1>1 DEF TInv, TypeOK, Stop, Running, Cancelled, Shown
<1> QED BY <1>2, <1>3 DEF TInv, TypeOK, FramesFilled, TasksBounded, Stop, Click, Bounded, window, net,
                          server, history

LEMMA SelectAgentType ==
    ASSUME TInv, NEW a \in Agents, SelectAgent(a)
    PROVE  TInv'
BY OpenType DEF SelectAgent, TInv, TypeOK, FramesFilled, TasksBounded, Click, Bounded, net, server

LEMMA NewChatType == TInv /\ NewChat => TInv'
BY OpenType DEF NewChat, TInv, TypeOK, FramesFilled, TasksBounded, Click, Bounded, net, server

LEMMA SelectSessionType ==
    ASSUME TInv, NEW s \in Sessions, SelectSession(s)
    PROVE  TInv'
<1>1. agent' \in Agents /\ Open(s)
  BY DEF TInv, TypeOK, SelectSession, Pick
<1> QED BY <1>1, OpenType DEF SelectSession, TInv, TypeOK, FramesFilled, TasksBounded, Click, Bounded,
                               net, server

LEMMA DeleteType ==
    ASSUME TInv, NEW s \in Sessions, Delete(s)
    PROVE  TInv'
<1>1. active' \in Sessions \cup {None} /\ pend' \in [Sessions -> Entry] /\ crossed' \in BOOLEAN
  BY OpenType DEF Delete, TInv, TypeOK
<1> QED BY <1>1 DEF Delete, TInv, TypeOK, FramesFilled, TasksBounded, Click, Bounded, net, server

LEMMA ReloadType == TInv /\ Reload => TInv'
<1> SUFFICES ASSUME TInv, Reload PROVE TInv'
  OBVIOUS
<1>1. pend' \in [Sessions -> Entry]
  BY OpenedType, NoEntryType DEF Reload
<1>2. call' \in [Calls -> Frame] /\ FramesFilled'
  BY DEF Reload, FramesFilled, Idle, Frame, Stages
<1>3. chan' \in Seq(Event) /\ conn' \in BOOLEAN
  <2>1. chan' = <<>> /\ conn' = FALSE
    BY DEF Reload
  <2>2. <<>> \in Seq(Event)
    OBVIOUS
  <2>3. FALSE \in BOOLEAN
    OBVIOUS
  <2> QED BY <2>1, <2>2, <2>3, Zenon
<1> QED BY <1>1, <1>2, <1>3 DEF Reload, TInv, TypeOK, TasksBounded, Bounded, server


(* The server's handlers. *)

LEMMA AboutType ==
    ASSUME NEW k \in Kinds, NEW s \in Sessions, NEW t \in TaskIds \cup {None}
    PROVE  About(k, s, t) \in Event
BY DEF About, Event

LEMMA KindsType == {"queued", "message", "deleted", "done", "failed", "cancelled"} \subseteq Kinds
BY DEF Kinds, Ending

LEMMA MakeSessionType ==
    ASSUME TInv, NEW c \in Calls, MakeSession(c)
    PROVE  TInv'
<1>1. PICK s \in Sessions :
        /\ agentOf' = [agentOf EXCEPT ![s] = call[c].agent]
        /\ \/ /\ call' = [call EXCEPT ![c] = [@ EXCEPT !.stage = "made", !.session = s]]
              /\ UNCHANGED events
           \/ /\ call' = [call EXCEPT ![c] = [@ EXCEPT !.stage = "unmade"]]
              /\ Bounded
  BY DEF MakeSession
<1>2. call[c] \in Frame /\ call[c].agent \in Agents /\ call[c].stage = "creating"
  BY DEF TInv, TypeOK, FramesFilled, MakeSession
<1>3. agentOf' \in [Sessions -> Agents \cup {None}]
  BY <1>1, <1>2 DEF TInv, TypeOK
<1>4. call' \in [Calls -> Frame] /\ FramesFilled'
  <2>1. [call[c] EXCEPT !.stage = "made", !.session = s] \in Frame
    BY <1>2 DEF Frame, Stages
  <2>2. [call[c] EXCEPT !.stage = "unmade"] \in Frame
    BY <1>2 DEF Frame, Stages
  <2>3. call' \in [Calls -> Frame]
    BY <1>1, <2>1, <2>2 DEF TInv, TypeOK
  <2>4. ASSUME NEW d \in Calls
        PROVE  /\ call'[d].stage # "idle" => call'[d].agent \in Agents
               /\ call'[d].stage \in {"made", "sent", "stored", "refused"}
                    => call'[d].session \in Sessions
               /\ call'[d].stage = "stored" => call'[d].task \in TaskIds
    <3>1. CASE d = c
      <4>1. \/ call'[c] = [call[c] EXCEPT !.stage = "made", !.session = s]
            \/ call'[c] = [call[c] EXCEPT !.stage = "unmade"]
        BY <1>1 DEF TInv, TypeOK
      <4>2. CASE call'[c] = [call[c] EXCEPT !.stage = "made", !.session = s]
        <5>1. call'[c].stage = "made" /\ call'[c].session = s /\ call'[c].agent = call[c].agent
          BY <1>2, <4>2 DEF Frame
        <5> QED BY <1>2, <3>1, <5>1
      <4>3. CASE call'[c] = [call[c] EXCEPT !.stage = "unmade"]
        <5>1. call'[c].stage = "unmade" /\ call'[c].agent = call[c].agent
          BY <1>2, <4>3 DEF Frame
        <5> QED BY <1>2, <3>1, <5>1
      <4> QED BY <4>1, <4>2, <4>3
    <3>2. CASE d # c
      <4>1. call'[d] = call[d]
        BY <1>1, <3>2 DEF TInv, TypeOK
      <4> QED BY <4>1 DEF TInv, FramesFilled
    <3> QED BY <3>1, <3>2
  <2> QED BY <2>3, <2>4 DEF FramesFilled
<1>5. events' \in Nat
  BY <1>1 DEF TInv, TypeOK, Bounded
<1> QED BY <1>3, <1>4, <1>5 DEF TInv, TypeOK, TasksBounded, MakeSession, window, net, history

LEMMA StageType ==
    ASSUME TInv, NEW c \in Calls, NEW st \in {"unmade", "refused"},
           call[c].stage \in {"creating", "sent", "stored"},
           st = "refused" => call[c].stage # "creating",
           call' = [call EXCEPT ![c] = [@ EXCEPT !.stage = st]]
    PROVE  call' \in [Calls -> Frame] /\ FramesFilled'
<1>1. call[c] \in Frame
  BY DEF TInv, TypeOK
<1>2. [call[c] EXCEPT !.stage = st] \in Frame
  BY <1>1 DEF Frame, Stages
<1>3. call' \in [Calls -> Frame]
  BY <1>2 DEF TInv, TypeOK
<1>4. FramesFilled'
  BY <1>1 DEF TInv, TypeOK, FramesFilled, Frame
<1> QED BY <1>3, <1>4

LEMMA RefuseSessionType ==
    ASSUME TInv, NEW c \in Calls, RefuseSession(c)
    PROVE  TInv'
<1>1. call' \in [Calls -> Frame] /\ FramesFilled'
  BY StageType DEF RefuseSession
<1>2. events' \in Nat
  BY DEF RefuseSession, Fault, Bounded, TInv, TypeOK
<1> QED BY <1>1, <1>2 DEF RefuseSession, TInv, TypeOK, TasksBounded, window, net, server, history

LEMMA RefuseSendType ==
    ASSUME TInv, NEW c \in Calls, RefuseSend(c)
    PROVE  TInv'
<1>1. call' \in [Calls -> Frame] /\ FramesFilled'
  BY StageType DEF RefuseSend
<1>2. events' \in Nat
  BY DEF RefuseSend, Fault, Bounded, TInv, TypeOK
<1> QED BY <1>1, <1>2 DEF RefuseSend, TInv, TypeOK, TasksBounded, window, net, server, history

LEMMA LoseAnswerType ==
    ASSUME TInv, NEW c \in Calls, LoseAnswer(c)
    PROVE  TInv'
<1>1. call' \in [Calls -> Frame] /\ FramesFilled'
  BY StageType DEF LoseAnswer
<1> QED BY <1>1 DEF LoseAnswer, TInv, TypeOK, TasksBounded, Bounded, window, net, server, history

LEMMA EnqueuedType ==
    ASSUME TInv, NEW s \in Sessions, Len(tasks) < MaxTasks
    PROVE  /\ Enqueued(s) \in Seq(Task) /\ Len(Enqueued(s)) = Len(tasks) + 1
           /\ DOMAIN Enqueued(s) = 1..(Len(tasks) + 1)
           /\ Len(tasks) + 1 \in TaskIds
<1>1. [session |-> s, live |-> TRUE] \in Task
  BY DEF Task
<1>2. tasks \in Seq(Task) /\ Len(tasks) \in Nat
  BY DEF TInv, TypeOK
<1> QED BY <1>1, <1>2, BoundsAssumption DEF Enqueued, TaskIds

LEMMA EndedType ==
    ASSUME NEW ts \in Seq(Task), NEW t \in DOMAIN ts
    PROVE  Ended(ts, t) \in Seq(Task) /\ Len(Ended(ts, t)) = Len(ts)
<1>1. ts[t] \in Task
  OBVIOUS
<1>2. [ts[t] EXCEPT !.live = FALSE] \in Task
  BY <1>1 DEF Task
<1> QED BY <1>2, ExceptSeq DEF Ended

LEMMA StoreType ==
    ASSUME TInv, NEW c \in Calls, Store(c)
    PROVE  TInv'
<1> DEFINE s == call[c].session
           t == Len(tasks) + 1
<1>1. s \in Sessions /\ call[c] \in Frame /\ call[c].stage = "sent"
  BY DEF TInv, TypeOK, FramesFilled, Store
<1>2. t \in TaskIds /\ tasks' \in Seq(Task) /\ Len(tasks') = t /\ t <= MaxTasks
  <2>1. Len(tasks) < MaxTasks /\ tasks' = Enqueued(s)
    BY DEF Store
  <2> QED BY <1>1, <2>1, EnqueuedType, BoundsAssumption DEF TaskIds
<1>3. call' \in [Calls -> Frame] /\ FramesFilled'
  <2>1. call' = [call EXCEPT ![c] = [@ EXCEPT !.stage = "stored", !.task = t]]
    BY DEF Store
  <2>2. [call[c] EXCEPT !.stage = "stored", !.task = t] \in Frame
    BY <1>1, <1>2 DEF Frame, Stages
  <2>3. call' \in [Calls -> Frame]
    BY <2>1, <2>2 DEF TInv, TypeOK
  <2>4. ASSUME NEW d \in Calls
        PROVE  /\ call'[d].stage # "idle" => call'[d].agent \in Agents
               /\ call'[d].stage \in {"made", "sent", "stored", "refused"}
                    => call'[d].session \in Sessions
               /\ call'[d].stage = "stored" => call'[d].task \in TaskIds
    BY <1>1, <1>2, <2>1 DEF TInv, TypeOK, FramesFilled, Frame
  <2> QED BY <2>3, <2>4 DEF FramesFilled
<1>4. \A sq \in unsent' : sq \in Seq(Event)
  <2>1. unsent' = unsent \cup {<<About("queued", s, t), About("message", s, t)>>}
    BY DEF Store
  <2>2. About("queued", s, t) \in Event /\ About("message", s, t) \in Event
    BY <1>1, <1>2, AboutType, KindsType
  <2>3. <<About("queued", s, t), About("message", s, t)>> \in Seq(Event)
    BY <2>2
  <2> QED BY <2>1, <2>3 DEF TInv, TypeOK
<1> QED BY <1>2, <1>3, <1>4 DEF TInv, TypeOK, TasksBounded, Store, window, history

LEMMA FinishType ==
    ASSUME TInv, NEW t \in DOMAIN tasks, NEW k \in {"done", "cancelled"}, Finish(t, k)
    PROVE  TInv'
<1>1. tasks[t].session \in Sessions /\ t \in TaskIds
  BY RowType
<1>2. tasks' \in Seq(Task) /\ Len(tasks') = Len(tasks)
  BY EndedType DEF Finish, TInv, TypeOK
<1>3. \A sq \in unsent' : sq \in Seq(Event)
  <2>1. About(k, tasks[t].session, t) \in Event
    BY <1>1, AboutType, KindsType
  <2>2. <<About(k, tasks[t].session, t)>> \in Seq(Event)
    BY <2>1
  <2> QED BY <2>2 DEF TInv, TypeOK, Finish
<1> QED BY <1>2, <1>3 DEF TInv, TypeOK, FramesFilled, TasksBounded, Finish, Bounded, window, history

LEMMA FailType ==
    ASSUME TInv, NEW t \in DOMAIN tasks, Fail(t)
    PROVE  TInv'
<1> DEFINE s == tasks[t].session
           child(r) == IF r THEN <<About("queued", s, Len(tasks) + 1)>> ELSE <<>>
           told(r, w) == IF w THEN child(r) ELSE Append(child(r), About("failed", s, t))
<1>1. PICK r \in BOOLEAN, w \in BOOLEAN :
        /\ r => Len(tasks) < MaxTasks
        /\ tasks' = Ended(IF r THEN Enqueued(s) ELSE tasks, t)
        /\ IF told(r, w) = <<>> THEN Unheard(s, t)
           ELSE unsent' = unsent \cup {told(r, w)} /\ UNCHANGED <<chan, lapse, pend>>
  BY DEF Fail
<1>2. s \in Sessions /\ t \in TaskIds /\ Len(tasks) \in Nat /\ t \in 1..Len(tasks)
  BY RowType
<1>3. tasks' \in Seq(Task) /\ Len(tasks') <= MaxTasks
  <2>1. CASE r
    <3>1. /\ Enqueued(s) \in Seq(Task) /\ Len(Enqueued(s)) = Len(tasks) + 1
          /\ t \in DOMAIN Enqueued(s)
      BY <1>1, <1>2, <2>1, EnqueuedType
    <3> QED BY <1>1, <1>2, <2>1, <3>1, EndedType, BoundsAssumption
  <2>2. CASE ~ r
    BY <1>1, <2>2, EndedType DEF TInv, TypeOK, TasksBounded
  <2> QED BY <2>1, <2>2
<1>4. told(r, w) \in Seq(Event)
  <2>1. child(r) \in Seq(Event)
    <3>1. CASE r
      BY <1>1, <1>2, <3>1, EnqueuedType, AboutType, KindsType
    <3> QED BY <3>1
  <2>2. About("failed", s, t) \in Event
    BY <1>2, AboutType, KindsType
  <2> QED BY <2>1, <2>2
<1>5. /\ \A sq \in unsent' : sq \in Seq(Event)
      /\ chan' \in Seq(Event) /\ lapse' \subseteq Sessions /\ pend' \in [Sessions -> Entry]
  <2>1. CASE told(r, w) = <<>>
    <3>1. Unheard(s, t)
      BY <1>1, <2>1
    <3>2. \A sq \in unsent' : sq \in Seq(Event)
      BY <3>1, DelayedType DEF Unheard, TInv, TypeOK
    <3>3. chan' \in Seq(Event)
      BY <3>1, DelayedType DEF Unheard, TInv, TypeOK
    <3>4. pend' \in [Sessions -> Entry]
      BY <1>2, <3>1, EntryOps DEF Unheard, TInv, TypeOK
    <3> QED BY <1>2, <3>1, <3>2, <3>3, <3>4 DEF Unheard, Blamed, TInv, TypeOK
  <2>2. CASE told(r, w) # <<>>
    BY <1>1, <1>4, <2>2 DEF TInv, TypeOK
  <2> QED BY <2>1, <2>2
<1> QED BY <1>3, <1>5 DEF TInv, TypeOK, FramesFilled, TasksBounded, Fail, Bounded, window

LEMMA RemovedType ==
    ASSUME TInv, NEW s \in Sessions, Removed(s)
    PROVE  /\ gone' \subseteq Sessions /\ tasks' \in Seq(Task) /\ Len(tasks') = Len(tasks)
           /\ \A sq \in unsent' : sq \in Seq(Event)
<1>1. /\ tasks \in Seq(Task) /\ Len(tasks) \in Nat /\ DOMAIN tasks = 1..Len(tasks)
      /\ \A t \in 1..Len(tasks) : tasks[t] \in Task
  BY DEF TInv, TypeOK
<1>2. \A t \in 1..Len(tasks) :
        (IF tasks[t].session = s THEN [tasks[t] EXCEPT !.live = FALSE] ELSE tasks[t]) \in Task
  BY <1>1 DEF Task
<1>3. tasks' = [t \in 1..Len(tasks) |->
        IF tasks[t].session = s THEN [tasks[t] EXCEPT !.live = FALSE] ELSE tasks[t]]
  BY <1>1 DEF Removed
<1>4. tasks' \in Seq(Task) /\ Len(tasks') = Len(tasks)
  BY <1>1, <1>2, <1>3, IsASeq
<1>5. About("deleted", s, None) \in Event
  BY AboutType, KindsType
<1>6. \A sq \in unsent' : sq \in Seq(Event)
  <2>1. <<About("deleted", s, None)>> \in Seq(Event)
    BY <1>5
  <2> QED BY <2>1 DEF Removed, TInv, TypeOK
<1> QED BY <1>4, <1>6 DEF Removed, TInv, TypeOK

LEMMA DeleteElsewhereType ==
    ASSUME TInv, NEW s \in Sessions, DeleteElsewhere(s)
    PROVE  TInv'
<1>1. /\ gone' \subseteq Sessions /\ tasks' \in Seq(Task) /\ Len(tasks') = Len(tasks)
      /\ \A sq \in unsent' : sq \in Seq(Event)
  BY RemovedType DEF DeleteElsewhere
<1> QED BY <1>1 DEF TInv, TypeOK, FramesFilled, TasksBounded, DeleteElsewhere, Removed, Bounded,
                    window, history

LEMMA DeleteServedType == TInv /\ DeleteServed => TInv'
<1> SUFFICES ASSUME TInv, DeleteServed PROVE TInv'
  OBVIOUS
<1>1. deleting \in Sessions
  BY DEF TInv, TypeOK, DeleteServed
<1>2. CASE Removed(deleting) /\ UNCHANGED <<dropped, ghosts, events>>
  BY <1>1, <1>2, RemovedType DEF TInv, TypeOK, FramesFilled, TasksBounded, DeleteServed, Removed
<1>3. CASE UNCHANGED <<dropped, ghosts, net, server, events>>
  BY <1>3 DEF TInv, TypeOK, FramesFilled, TasksBounded, DeleteServed, net, server
<1>4. CASE /\ Bounded
           /\ dropped' = dropped \ {deleting}
           /\ ghosts' = ghosts \cup (gone \cap {deleting})
           /\ UNCHANGED <<net, server>>
  BY <1>4 DEF TInv, TypeOK, FramesFilled, TasksBounded, DeleteServed, Bounded, net, server
<1> QED BY <1>2, <1>3, <1>4 DEF DeleteServed

LEMMA StopServedType ==
    ASSUME TInv, NEW t \in stops, StopServed(t)
    PROVE  TInv'
<1>1. CASE Live(t)
  <2>1. t \in DOMAIN tasks /\ tasks[t].session \in Sessions /\ t \in TaskIds
    BY <1>1, RowType DEF Live
  <2>2. tasks' \in Seq(Task) /\ Len(tasks') = Len(tasks)
    BY <1>1, <2>1, EndedType DEF StopServed, TInv, TypeOK
  <2>3. About("cancelled", tasks[t].session, t) \in Event
    BY <2>1, AboutType, KindsType
  <2>4. \A sq \in unsent' : sq \in Seq(Event)
    <3>1. <<About("cancelled", tasks[t].session, t)>> \in Seq(Event)
      BY <2>3
    <3>2. unsent' = unsent \cup {<<About("cancelled", tasks[t].session, t)>>}
      BY <1>1 DEF StopServed
    <3> QED BY <3>1, <3>2 DEF TInv, TypeOK
  <2> QED BY <2>2, <2>4 DEF TInv, TypeOK, FramesFilled, TasksBounded, StopServed, window, history
<1>2. CASE ~ Live(t)
  BY <1>2 DEF TInv, TypeOK, FramesFilled, TasksBounded, StopServed, window, history
<1> QED BY <1>1, <1>2

LEMMA StopLostType ==
    ASSUME TInv, NEW t \in stops, StopLost(t)
    PROVE  TInv'
<1>1. lapse' \subseteq Sessions
  <2>1. CASE Live(t)
    <3>1. tasks[t].session \in Sessions
      BY <2>1, RowType DEF Live
    <3> QED BY <3>1 DEF StopLost, Blamed, TInv, TypeOK
  <2>2. CASE ~ Live(t)
    BY <2>2 DEF StopLost, Blamed, TInv, TypeOK
  <2> QED BY <2>1, <2>2
<1> QED BY <1>1 DEF TInv, TypeOK, FramesFilled, TasksBounded, StopLost, Bounded, window, net, server

(* The websocket and the query cache. *)

LEMMA LostType ==
    ASSUME TInv, NEW es \in SUBSET Event, Lost(es)
    PROVE  lapse' \subseteq Sessions /\ pend' \in [Sessions -> Entry] /\ ghosts' \subseteq Sessions
<1>1. \A e \in es : e.session \in Sessions
  BY DEF Event
<1>2. \A s \in Sessions : pend[s] \in Entry /\ Overtaken(pend[s]) \in Entry
  BY EntryOps DEF TInv, TypeOK
<1> QED BY <1>1, <1>2 DEF Lost, TInv, TypeOK

LEMMA PublishType ==
    ASSUME TInv, NEW sq \in unsent, Publish(sq)
    PROVE  TInv'
<1> DEFINE told == Published(sq)
           es == {told[n] : n \in DOMAIN told}
<1>1. told \in Seq(Event)
  BY PublishedType DEF TInv, TypeOK
<1>2. es \in SUBSET Event
  BY <1>1
<1>3. \A o \in unsent' : o \in Seq(Event)
  <2>1. \A o \in unsent \ {sq} : Delayed(o, es) \in Seq(Event)
    BY DelayedType DEF TInv, TypeOK
  <2>2. unsent' = {Delayed(o, es) : o \in unsent \ {sq}}
    BY DEF Publish
  <2> QED BY <2>1, <2>2
<1>4. chan' \in Seq(Event)
  BY <1>1 DEF Publish, TInv, TypeOK
<1>5. lapse' \subseteq Sessions /\ pend' \in [Sessions -> Entry] /\ ghosts' \subseteq Sessions
  <2>1. CASE conn
    BY <2>1 DEF Publish, TInv, TypeOK
  <2>2. CASE ~ conn
    BY <1>2, <2>2, LostType DEF Publish
  <2> QED BY <2>1, <2>2
<1> QED BY <1>3, <1>4, <1>5 DEF TInv, TypeOK, FramesFilled, TasksBounded, Publish, window, server

LEMMA HandledType ==
    ASSUME NEW e \in Event, NEW k \in Entry
    PROVE  Handled(e, k) \in Entry
<1>1. e.kind \in Kinds /\ e.task \in Shown /\ None \in Shown
  BY DEF Event, Shown
<1>2. \A v \in Shown : Put(k, v) \in Entry /\ \A s : Invalidate(Put(k, v), s) \in Entry
  BY EntryOps
<1>3. \A s : Invalidate(k, s) \in Entry
  BY EntryOps
<1> QED BY <1>1, <1>2, <1>3, NoEntryType DEF Handled, Kinds, Ending

LEMMA DeliverType == TInv /\ Deliver => TInv'
<1> SUFFICES ASSUME TInv, Deliver PROVE TInv'
  OBVIOUS
<1> DEFINE e == Head(chan)
<1>1. e \in Event /\ e.session \in Sessions /\ Tail(chan) \in Seq(Event)
  <2>1. chan \in Seq(Event) /\ chan # <<>>
    BY DEF TInv, TypeOK, Deliver
  <2>2. e \in Event /\ Tail(chan) \in Seq(Event)
    BY <2>1
  <2> QED BY <2>2 DEF Event
<1>2. pend' \in [Sessions -> Entry]
  BY <1>1, HandledType DEF TInv, TypeOK, Deliver
<1>3. lapse' \subseteq Sessions /\ dropped' \subseteq Sessions
  BY <1>1 DEF TInv, TypeOK, Deliver, Blamed
<1>4. active' \in Sessions \cup {None} /\ crossed' \in BOOLEAN
  BY DEF TInv, TypeOK, Deliver, Followed
<1> QED BY <1>1, <1>2, <1>3, <1>4 DEF TInv, TypeOK, FramesFilled, TasksBounded, Deliver, server

LEMMA DropType == TInv /\ Drop => TInv'
<1> SUFFICES ASSUME TInv, Drop PROVE TInv'
  OBVIOUS
<1>1. {chan[n] : n \in DOMAIN chan} \in SUBSET Event
  BY DEF TInv, TypeOK
<1>2. lapse' \subseteq Sessions /\ pend' \in [Sessions -> Entry] /\ ghosts' \subseteq Sessions
  BY <1>1, LostType DEF Drop
<1>3. chan' \in Seq(Event) /\ conn' \in BOOLEAN
  <2>1. chan' = <<>> /\ conn' = FALSE
    BY DEF Drop
  <2>2. <<>> \in Seq(Event)
    OBVIOUS
  <2>3. FALSE \in BOOLEAN
    OBVIOUS
  <2> QED BY <2>1, <2>2, <2>3, Zenon
<1> QED BY <1>2, <1>3 DEF TInv, TypeOK, FramesFilled, TasksBounded, Drop, Bounded, window, server

LEMMA ConnectType == TInv /\ Connect => TInv'
BY DEF TInv, TypeOK, FramesFilled, TasksBounded, Connect, window, server, history

LEMMA ReadType ==
    ASSUME TInv, NEW s \in Sessions, Read(s)
    PROVE  TInv'
<1>1. pend[s] \in Entry /\ Rested(pend[s]) \in Entry
  BY EntryOps DEF TInv, TypeOK
<1>2. [pend[s] EXCEPT !.fetch = "read", !.snap = Latest(s)] \in Entry
  BY <1>1, LatestType DEF Entry
<1>3. [Rested(pend[s]) EXCEPT !.invalid = pend[s].has] \in Entry
  BY <1>1 DEF Entry
<1>4. pend' \in [Sessions -> Entry]
  BY <1>2, <1>3 DEF Read, TInv, TypeOK
<1> QED BY <1>4 DEF TInv, TypeOK, FramesFilled, TasksBounded, Read, window, net, server, history

LEMMA LandType ==
    ASSUME TInv, NEW s \in Sessions, Land(s)
    PROVE  TInv'
<1>1. pend[s] \in Entry /\ pend[s].snap \in Shown
  BY DEF TInv, TypeOK, Entry, Shown
<1>2. Rested(Put(pend[s], pend[s].snap)) \in Entry
  BY <1>1, EntryOps
<1>3. pend' \in [Sessions -> Entry] /\ lapse' \subseteq Sessions
  BY <1>2 DEF Land, TInv, TypeOK
<1> QED BY <1>3 DEF TInv, TypeOK, FramesFilled, TasksBounded, Land, window, net, server

LEMMA CollectType ==
    ASSUME TInv, NEW s \in Sessions, Collect(s)
    PROVE  TInv'
BY NoEntryType DEF Collect, TInv, TypeOK, FramesFilled, TasksBounded, Bounded, window, net, server

LEMMA StepType == TInv /\ [Next]_vars => TInv'
<1> SUFFICES ASSUME TInv, [Next]_vars PROVE TInv'
  OBVIOUS
<1>1. CASE User
  BY <1>1, SendType, BeginType, SelectAgentType, SelectSessionType, DeleteType, StopType, NewChatType,
     ReloadType DEF User
<1>2. CASE Others
  BY <1>2, FailType, FinishType, DeleteElsewhereType DEF Others
<1>3. CASE \E c \in Calls : Serve(c) \/ Settle(c) \/ Answered(c) \/ LoseAnswer(c) \/ Rejected(c)
  BY <1>3, MakeSessionType, RefuseSessionType, StoreType, RefuseSendType, SettleType, AnsweredType,
     LoseAnswerType, RejectedType DEF Serve
<1>4. CASE DeleteServed \/ Deliver \/ Drop \/ Connect
  BY <1>4, DeleteServedType, DeliverType, DropType, ConnectType
<1>5. CASE (\E t \in stops : StopServed(t) \/ StopLost(t)) \/ \E sq \in unsent : Publish(sq)
  BY <1>5, StopServedType, StopLostType, PublishType
<1>6. CASE \E s \in Sessions : Read(s) \/ Land(s) \/ Collect(s)
  BY <1>6, ReadType, LandType, CollectType
<1>7. CASE UNCHANGED vars
  BY <1>7 DEF TInv, TypeOK, FramesFilled, TasksBounded, vars, window, net, server, history
<1> QED BY <1>1, <1>2, <1>3, <1>4, <1>5, <1>6, <1>7 DEF Next

LEMMA TypesKept == Spec => []TInv
<1> QED BY InitType, StepType, PTL DEF Spec

(* Every variable keeps its type, for any agents, sessions, calls and bounds (chat-window.tsx,
   chat.go). *)
THEOREM TypeCorrect == Spec => []TypeOK
<1>1. TInv => TypeOK
  BY DEF TInv
<1> QED BY <1>1, TypesKept, PTL


----------------------------------------------------------------------------
(* A message goes to the agent it was written for *)

(* Sessions that are used have been made, and the one just made is its caller's. *)
Known ==
    /\ active # None => agentOf[active] # None
    /\ \A c \in Calls :
         /\ call[c].stage = "made" \/ Awaiting(c) => agentOf[call[c].session] # None
         /\ call[c].stage = "made" => agentOf[call[c].session] = call[c].agent

(* Who waits for a create of another agent is marked. *)
WaitersMarked ==
    \A c, d \in Calls :
        call[c].stage = "waiting" /\ Creating(d) => call[d].agent = call[c].agent \/ call[c].astray

AInv == Known /\ WaitersMarked /\ Addressed

LEMMA InitAddressed == Init => AInv
BY DEF Init, Idle, AInv, Known, WaitersMarked, Addressed, OneCreate, Creating, Awaiting

(* Steps that leave the window's place, the handlers and the sessions alone. *)
LEMMA Apart ==
    ASSUME AInv, UNCHANGED <<active, agent, crossed, call, agentOf>>
    PROVE  AInv'
BY DEF AInv, Known, WaitersMarked, Addressed, OneCreate, Creating, Awaiting

(* The window moves to a session of its agent, or to a fresh chat. *)
LEMMA Placed ==
    ASSUME AInv, UNCHANGED <<call, agentOf>>,
           active' # None => agentOf[active'] # None /\ (agentOf[active'] = agent' \/ crossed')
    PROVE  AInv'
BY DEF AInv, Known, WaitersMarked, Addressed, OneCreate, Creating, Awaiting

(* A handler goes on with what it has. *)
LEMMA GoesOn ==
    ASSUME TInv, AInv, UNCHANGED <<active, agent, crossed, agentOf>>,
           NEW c \in Calls, NEW f,
           call' = [call EXCEPT ![c] = f],
           f.agent = call[c].agent, f.session = call[c].session, f.astray = call[c].astray,
           \/ Creating(c) /\ f.stage = "unmade"
           \/ Awaiting(c) /\ f.stage \in {"stored", "refused"}
    PROVE  AInv'
<1>1. call'[c] = f /\ \A d \in Calls : d # c => call'[d] = call[d]
  BY DEF TInv, TypeOK
<1>2. \A d \in Calls : Creating(d)' <=> Creating(d)
  BY <1>1 DEF Creating, Awaiting
<1>3. \A d \in Calls : Awaiting(d)' <=> Awaiting(d)
  BY <1>1 DEF Creating, Awaiting
<1>4. \A d \in Calls : /\ call'[d].agent = call[d].agent /\ call'[d].session = call[d].session
                       /\ call'[d].astray = call[d].astray
                       /\ call'[d].stage = "made" => call[d].stage = "made"
                       /\ call'[d].stage = "waiting" => call[d].stage = "waiting"
  BY <1>1
<1>5. Known'
  BY <1>3, <1>4 DEF AInv, Known
<1>6. WaitersMarked'
  BY <1>2, <1>4 DEF AInv, WaitersMarked
<1>7. OneCreate'
  BY <1>2, <1>4 DEF AInv, Addressed, OneCreate
<1> QED BY <1>3, <1>4, <1>5, <1>6, <1>7 DEF AInv, Addressed

(* A handler that awaits an answer returns. *)
LEMMA Returns ==
    ASSUME TInv, AInv, UNCHANGED <<active, agent, crossed, agentOf>>,
           NEW c \in Calls, Awaiting(c), call' = [call EXCEPT ![c] = Idle]
    PROVE  AInv'
<1>1. call'[c] = Idle /\ \A d \in Calls : d # c => call'[d] = call[d]
  BY DEF TInv, TypeOK
<1>2. \A d \in Calls : Creating(d)' <=> Creating(d)
  BY <1>1 DEF Creating, Awaiting, Idle
<1>3. \A d \in Calls : Awaiting(d)' => Awaiting(d) /\ call'[d] = call[d]
  BY <1>1 DEF Awaiting, Idle
<1>4. \A d \in Calls : call'[d].stage \in {"made", "waiting"} => call'[d] = call[d]
  BY <1>1 DEF Idle
<1>5. Known'
  BY <1>3, <1>4 DEF AInv, Known
<1>6. WaitersMarked'
  <2>1. \A d \in Calls : Creating(d)' => call'[d] = call[d]
    BY <1>1 DEF Creating, Idle
  <2> QED BY <1>2, <1>4, <2>1 DEF AInv, WaitersMarked
<1>7. OneCreate'
  BY <1>2, <1>4 DEF AInv, Addressed, OneCreate
<1> QED BY <1>3, <1>5, <1>6, <1>7 DEF AInv, Addressed

LEMMA SendAddressed ==
    ASSUME TInv, AInv, NEW c \in Calls, Send(c)
    PROVE  AInv'
<1> DEFINE f == [stage |-> "sent", kind |-> "send", agent |-> agent,
                 session |-> active, task |-> None, astray |-> crossed]
<1>1. /\ call' = [call EXCEPT ![c] = f] /\ call[c] = Idle /\ active # None
      /\ UNCHANGED <<active, agent, crossed, agentOf>>
  BY DEF Send, Free, window, server, history
<1>2. call'[c] = f /\ \A d \in Calls : d # c => call'[d] = call[d]
  BY <1>1 DEF TInv, TypeOK
<1>3. \A d \in Calls : (Creating(d)' <=> Creating(d)) /\ (Creating(d)' => call'[d] = call[d])
  BY <1>1, <1>2 DEF Creating, Idle
<1>4. \A d \in Calls : call'[d].stage \in {"made", "waiting"} => call'[d] = call[d]
  BY <1>2
<1>5. \A d \in Calls : d # c => (Awaiting(d)' <=> Awaiting(d)) /\ call'[d] = call[d]
  BY <1>2 DEF Awaiting
<1>6. agentOf[active] # None /\ (agentOf[active] = agent \/ crossed)
  BY <1>1 DEF AInv, Known, Addressed
<1>7. Known'
  <2> SUFFICES ASSUME NEW d \in Calls
               PROVE  /\ call'[d].stage = "made" \/ Awaiting(d)' => agentOf[call'[d].session] # None
                      /\ call'[d].stage = "made" => agentOf[call'[d].session] = call'[d].agent
    BY <1>1, <1>6 DEF Known
  <2>1. CASE d = c
    BY <1>2, <1>6, <2>1
  <2>2. CASE d # c
    BY <1>5, <2>2 DEF AInv, Known
  <2> QED BY <2>1, <2>2
<1>8. WaitersMarked' /\ OneCreate'
  BY <1>3, <1>4 DEF AInv, WaitersMarked, Addressed, OneCreate
<1>9. \A d \in Calls :
        Awaiting(d)' => agentOf[call'[d].session] = call'[d].agent \/ call'[d].astray
  BY <1>2, <1>5, <1>6 DEF AInv, Addressed
<1> QED BY <1>1, <1>6, <1>7, <1>8, <1>9 DEF AInv, Addressed

LEMMA BeginAddressed ==
    ASSUME TInv, AInv, NEW c \in Calls, NEW k \in {"send", "upload"}, Begin(c, k)
    PROVE  AInv'
<1> DEFINE others == \E d \in Calls : Creating(d) /\ call[d].agent # agent
           f == [stage |-> IF \E d \in Calls : Creating(d) THEN "waiting" ELSE "creating",
                 kind |-> k, agent |-> agent, session |-> None, task |-> None, astray |-> others]
<1>1. /\ call' = [call EXCEPT ![c] = f] /\ call[c] = Idle
      /\ UNCHANGED <<active, agent, crossed, agentOf>>
  BY DEF Begin, Ensure, Free, window, server, history
<1>2. call'[c] = f /\ \A d \in Calls : d # c => call'[d] = call[d]
  BY <1>1 DEF TInv, TypeOK
<1>3. ~ Creating(c) /\ call[c].stage = "idle"
  BY <1>1 DEF Creating, Idle
<1>4. \A d \in Calls : Awaiting(d)' => Awaiting(d) /\ call'[d] = call[d]
  BY <1>2 DEF Awaiting
<1>5. \A d \in Calls : call'[d].stage = "made" => call'[d] = call[d]
  BY <1>2
<1>6. Known'
  BY <1>1, <1>4, <1>5 DEF AInv, Known
<1>7. CASE \E d \in Calls : Creating(d)
  <2>1. f.stage = "waiting" /\ f.agent = agent /\ f.astray = others
    BY <1>7
  <2>2. \A d \in Calls : (Creating(d)' <=> Creating(d)) /\ (Creating(d) => call'[d] = call[d])
    BY <1>2, <1>3, <2>1 DEF Creating
  <2>3. WaitersMarked'
    <3> SUFFICES ASSUME NEW a \in Calls, NEW d \in Calls, call'[a].stage = "waiting", Creating(d)'
                 PROVE  call'[d].agent = call'[a].agent \/ call'[a].astray
      BY DEF WaitersMarked, Creating
    <3>1. Creating(d) /\ call'[d] = call[d]
      BY <2>2
    <3>2. CASE a = c
      BY <1>2, <2>1, <3>1, <3>2
    <3>3. CASE a # c
      BY <1>2, <3>1, <3>3 DEF AInv, WaitersMarked
    <3> QED BY <3>2, <3>3
  <2>4. OneCreate'
    BY <1>7, <2>2 DEF AInv, Addressed, OneCreate
  <2> QED BY <1>1, <1>4, <1>6, <2>3, <2>4 DEF AInv, Addressed
<1>8. CASE ~ \E d \in Calls : Creating(d)
  <2>1. f.stage = "creating"
    BY <1>8
  <2>2. \A d \in Calls : Creating(d)' => d = c
    BY <1>2, <1>8 DEF Creating
  <2>3. \A d \in Calls : call'[d].stage # "waiting"
    BY <1>2, <1>8, <2>1 DEF AInv, Addressed, OneCreate
  <2>4. WaitersMarked' /\ OneCreate'
    BY <2>2, <2>3 DEF WaitersMarked, OneCreate
  <2> QED BY <1>1, <1>4, <1>6, <2>4 DEF AInv, Addressed
<1> QED BY <1>7, <1>8

LEMMA MakeSessionAddressed ==
    ASSUME TInv, AInv, NEW c \in Calls, MakeSession(c)
    PROVE  AInv'
<1>1. PICK s \in Sessions :
        /\ agentOf[s] = None
        /\ agentOf' = [agentOf EXCEPT ![s] = call[c].agent]
        /\ \/ call' = [call EXCEPT ![c] = [@ EXCEPT !.stage = "made", !.session = s]]
           \/ call' = [call EXCEPT ![c] = [@ EXCEPT !.stage = "unmade"]]
  BY DEF MakeSession
<1>2. /\ call[c] \in Frame /\ call[c].stage = "creating" /\ call[c].agent \in Agents
      /\ UNCHANGED <<active, agent, crossed>>
  BY DEF TInv, TypeOK, FramesFilled, MakeSession, window, history
<1>3. /\ agentOf'[s] = call[c].agent /\ call[c].agent # None
      /\ \A x \in Sessions : agentOf[x] # None => agentOf'[x] = agentOf[x]
  BY <1>1, <1>2, IdsAssumption DEF TInv, TypeOK
<1>4. \A d \in Calls : d # c => call'[d] = call[d]
  BY <1>1 DEF TInv, TypeOK
<1>5. /\ call'[c].agent = call[c].agent
      /\ \/ call'[c].stage = "made" /\ call'[c].session = s
         \/ call'[c].stage = "unmade"
  <2>1. \/ call'[c] = [call[c] EXCEPT !.stage = "made", !.session = s]
        \/ call'[c] = [call[c] EXCEPT !.stage = "unmade"]
    BY <1>1 DEF TInv, TypeOK
  <2> QED BY <1>2, <2>1 DEF Frame
<1>6. \A d \in Calls : (Creating(d)' <=> Creating(d)) /\ (Awaiting(d)' <=> Awaiting(d))
  BY <1>2, <1>4, <1>5 DEF Creating, Awaiting
<1>7. \A d \in Calls : Awaiting(d)' => d # c
  BY <1>5 DEF Awaiting
<1>8. \A d \in Calls : Awaiting(d) \/ call[d].stage = "made" => call[d].session \in Sessions
  BY DEF Awaiting, TInv, FramesFilled
<1>9. active # None => active \in Sessions
  BY DEF TInv, TypeOK
<1>10. Known'
  <2>1. active' # None => agentOf'[active'] # None
    BY <1>2, <1>3, <1>9 DEF AInv, Known
  <2>2. ASSUME NEW d \in Calls
        PROVE  /\ call'[d].stage = "made" \/ Awaiting(d)' => agentOf'[call'[d].session] # None
               /\ call'[d].stage = "made" => agentOf'[call'[d].session] = call'[d].agent
    <3>1. CASE d = c
      BY <1>3, <1>5, <1>7, <3>1
    <3>2. CASE d # c
      BY <1>3, <1>4, <1>6, <1>8, <3>2 DEF AInv, Known
    <3> QED BY <3>1, <3>2
  <2> QED BY <2>1, <2>2 DEF Known
<1>11. WaitersMarked'
  <2>1. \A d \in Calls : call'[d].agent = call[d].agent
    BY <1>4, <1>5
  <2>2. \A d \in Calls : call'[d].stage = "waiting" => call'[d] = call[d]
    BY <1>4, <1>5
  <2> QED BY <1>6, <2>1, <2>2 DEF AInv, WaitersMarked
<1>12. OneCreate'
  <2>1. \A d \in Calls : call'[d].stage = "waiting" => call[d].stage = "waiting"
    BY <1>4, <1>5
  <2> QED BY <1>6, <2>1 DEF AInv, Addressed, OneCreate
<1>13. active' # None => agentOf'[active'] = agent' \/ crossed'
  BY <1>2, <1>3, <1>9 DEF AInv, Known, Addressed
<1>14. \A d \in Calls :
         Awaiting(d)' => agentOf'[call'[d].session] = call'[d].agent \/ call'[d].astray
  BY <1>3, <1>4, <1>6, <1>7, <1>8 DEF AInv, Known, Addressed
<1> QED BY <1>10, <1>11, <1>12, <1>13, <1>14 DEF AInv, Addressed

LEMMA SettleAddressed ==
    ASSUME TInv, AInv, NEW c \in Calls, Settle(c)
    PROVE  AInv'
<1> DEFINE s == call[c].session
           all == {c} \cup {d \in Calls : call[d].stage = "waiting"}
           made == call[c].stage = "made"
           send == {d \in all : made /\ call[d].kind = "send"}
<1>1. /\ call' = [d \in Calls |->
                    IF d \in send THEN [call[d] EXCEPT !.stage = "sent", !.session = s]
                    ELSE IF d \in all THEN Idle ELSE call[d]]
      /\ UNCHANGED <<agent, agentOf>>
  BY DEF Settle, server
<1>2. Creating(c) /\ \A d \in Calls : Creating(d) => d = c
  BY DEF Settle, Creating, AInv, Addressed, OneCreate
<1>3. \A d \in Calls : call[d] \in Frame
  BY DEF TInv, TypeOK
<1>4. ASSUME NEW d \in Calls, d \in send
      PROVE  /\ made /\ call'[d].stage = "sent" /\ call'[d].session = s
             /\ call'[d].agent = call[d].agent /\ call'[d].astray = call[d].astray
  <2>1. call'[d] = [call[d] EXCEPT !.stage = "sent", !.session = s]
    BY <1>1, <1>4
  <2> QED BY <1>3, <1>4, <2>1 DEF Frame
<1>5. ASSUME NEW d \in Calls, d \notin send
      PROVE  \/ call'[d].stage = "idle"
             \/ call'[d] = call[d] /\ ~ Creating(d) /\ call[d].stage # "waiting"
  BY <1>1, <1>2, <1>5 DEF Idle
<1>6. \A d \in Calls : ~ Creating(d)' /\ call'[d].stage \notin {"waiting", "made"}
  BY <1>4, <1>5 DEF Creating
<1>7. made => agentOf[s] = call[c].agent /\ agentOf[s] # None
  BY DEF AInv, Known
<1>8. WaitersMarked' /\ OneCreate'
  BY <1>6 DEF WaitersMarked, OneCreate
<1>9. ASSUME NEW d \in Calls, Awaiting(d)'
      PROVE  /\ agentOf[call'[d].session] # None
             /\ agentOf[call'[d].session] = call'[d].agent \/ call'[d].astray
  <2>1. CASE d \in send
    <3>1. call[d].agent = call[c].agent \/ call[d].astray
      BY <1>2, <2>1 DEF AInv, WaitersMarked
    <3> QED BY <1>4, <1>7, <2>1, <3>1
  <2>2. CASE d \notin send
    <3>1. call'[d] = call[d] /\ Awaiting(d)
      BY <1>5, <1>9, <2>2 DEF Awaiting
    <3> QED BY <3>1 DEF AInv, Known, Addressed
  <2> QED BY <2>1, <2>2
<1>10. active' # None => agentOf[active'] # None /\ (agentOf[active'] = agent \/ crossed')
  <2>1. CASE made
    <3>1. active' = s /\ crossed' = (agentOf[s] # agent)
      BY <2>1 DEF Settle
    <3> QED BY <1>7, <2>1, <3>1
  <2>2. CASE ~ made
    <3>1. UNCHANGED <<active, crossed>>
      BY <2>2 DEF Settle
    <3> QED BY <3>1 DEF AInv, Known, Addressed
  <2> QED BY <2>1, <2>2
<1>11. Known'
  BY <1>1, <1>6, <1>9, <1>10 DEF Known
<1> QED BY <1>1, <1>8, <1>9, <1>10, <1>11 DEF AInv, Addressed

LEMMA ReloadAddressed == TInv /\ AInv /\ Reload => AInv'
<1> SUFFICES ASSUME TInv, AInv, Reload PROVE AInv'
  OBVIOUS
<1>1. (\A d \in Calls : call'[d] = Idle) /\ UNCHANGED <<active, agent, crossed, agentOf>>
  BY DEF Reload, server
<1>2. \A d \in Calls :
        ~ Creating(d)' /\ ~ Awaiting(d)' /\ call'[d].stage \notin {"made", "waiting"}
  BY <1>1 DEF Creating, Awaiting, Idle
<1> QED BY <1>1, <1>2 DEF AInv, Known, WaitersMarked, Addressed, OneCreate

(* Clicks that move the window. *)
LEMMA ClickAddressed ==
    ASSUME TInv, AInv,
           \/ \E a \in Agents : SelectAgent(a)
           \/ \E s \in Sessions : SelectSession(s) \/ Delete(s)
           \/ NewChat
    PROVE  AInv'
<1>1. CASE (\E a \in Agents : SelectAgent(a)) \/ NewChat
  <2>1. active' = None /\ UNCHANGED <<call, agentOf>>
    BY <1>1 DEF SelectAgent, NewChat, Open, server
  <2> QED BY <2>1, Placed
<1>2. ASSUME NEW s \in Sessions, SelectSession(s) PROVE AInv'
  <2>1. /\ active' = s /\ agent' = agentOf[s] /\ agentOf[s] # None
        /\ UNCHANGED <<call, agentOf>>
    BY <1>2 DEF SelectSession, Pick, Open, server
  <2> QED BY <2>1, Placed
<1>3. ASSUME NEW s \in Sessions, Delete(s) PROVE AInv'
  <2>1. UNCHANGED <<agent, call, agentOf>> /\ (active' = None \/ UNCHANGED <<active, crossed>>)
    BY <1>3 DEF Delete, Open, server
  <2> QED BY <2>1, Placed DEF AInv, Known, Addressed
<1> QED BY <1>1, <1>2, <1>3

LEMMA CallAddressed ==
    ASSUME TInv, AInv, NEW c \in Calls,
           RefuseSession(c) \/ Store(c) \/ RefuseSend(c) \/ LoseAnswer(c) \/ Answered(c) \/ Rejected(c)
    PROVE  AInv'
<1>0. call[c] \in Frame
  BY DEF TInv, TypeOK
<1>1. CASE RefuseSession(c)
  <2> DEFINE f == [call[c] EXCEPT !.stage = "unmade"]
  <2>1. /\ call' = [call EXCEPT ![c] = f] /\ Creating(c)
        /\ UNCHANGED <<active, agent, crossed, agentOf>>
    BY <1>1 DEF RefuseSession, Creating, window, server, history
  <2>2. /\ f.stage = "unmade" /\ f.agent = call[c].agent /\ f.session = call[c].session
        /\ f.astray = call[c].astray
    BY <1>0 DEF Frame
  <2> HIDE DEF f
  <2> QED BY <2>1, <2>2, GoesOn
<1>2. CASE Store(c)
  <2> DEFINE f == [call[c] EXCEPT !.stage = "stored", !.task = Len(tasks) + 1]
  <2>1. /\ call' = [call EXCEPT ![c] = f] /\ Awaiting(c)
        /\ UNCHANGED <<active, agent, crossed, agentOf>>
    BY <1>2 DEF Store, Awaiting, window, history
  <2>2. /\ f.stage = "stored" /\ f.agent = call[c].agent /\ f.session = call[c].session
        /\ f.astray = call[c].astray
    BY <1>0 DEF Frame
  <2> HIDE DEF f
  <2> QED BY <2>1, <2>2, GoesOn
<1>3. CASE RefuseSend(c) \/ LoseAnswer(c)
  <2> DEFINE f == [call[c] EXCEPT !.stage = "refused"]
  <2>1. /\ call' = [call EXCEPT ![c] = f] /\ Awaiting(c)
        /\ UNCHANGED <<active, agent, crossed, agentOf>>
    BY <1>3 DEF RefuseSend, LoseAnswer, Awaiting, window, server, history
  <2>2. /\ f.stage = "refused" /\ f.agent = call[c].agent /\ f.session = call[c].session
        /\ f.astray = call[c].astray
    BY <1>0 DEF Frame
  <2> HIDE DEF f
  <2> QED BY <2>1, <2>2, GoesOn
<1>4. CASE Answered(c) \/ Rejected(c)
  <2>1. /\ call' = [call EXCEPT ![c] = Idle] /\ Awaiting(c)
        /\ UNCHANGED <<active, agent, crossed, agentOf>>
    BY <1>4 DEF Answered, Rejected, Awaiting, window, server
  <2> QED BY <2>1, Returns
<1> QED BY <1>1, <1>2, <1>3, <1>4

LEMMA DeliverAddressed == TInv /\ AInv /\ Deliver => AInv'
<1> SUFFICES ASSUME TInv, AInv, Deliver PROVE AInv'
  OBVIOUS
<1>1. /\ UNCHANGED <<agent, call, agentOf>>
      /\ active' \in {active, None} /\ (crossed' <=> crossed /\ active' # None)
  BY DEF Deliver, Followed, server
<1> QED BY <1>1, Placed DEF AInv, Known, Addressed

LEMMA StepAddressed == TInv /\ AInv /\ [Next]_vars => AInv'
<1> SUFFICES ASSUME TInv, AInv, [Next]_vars PROVE AInv'
  OBVIOUS
<1>1. CASE User
  <2>1. CASE Stop
    BY <2>1, Apart DEF Stop, window, server, history
  <2> QED BY <1>1, <2>1, SendAddressed, BeginAddressed, ClickAddressed, ReloadAddressed DEF User
<1>2. CASE Others
  <2>1. UNCHANGED <<active, agent, crossed, call, agentOf>>
    BY <1>2 DEF Others, Fail, Finish, DeleteElsewhere, Removed, window, history
  <2> QED BY <2>1, Apart
<1>3. CASE \E c \in Calls : Serve(c) \/ Settle(c) \/ Answered(c) \/ LoseAnswer(c) \/ Rejected(c)
  BY <1>3, MakeSessionAddressed, CallAddressed, SettleAddressed DEF Serve
<1>4. CASE Deliver
  BY <1>4, DeliverAddressed
<1>5. CASE DeleteServed
  <2>1. UNCHANGED <<active, agent, crossed, call, agentOf>>
    BY <1>5 DEF DeleteServed, Removed, server
  <2> QED BY <2>1, Apart
<1>6. CASE Drop \/ Connect
  <2>1. UNCHANGED <<active, agent, crossed, call, agentOf>>
    BY <1>6 DEF Drop, Connect, window, server, history
  <2> QED BY <2>1, Apart
<1>7. CASE (\E t \in stops : StopServed(t) \/ StopLost(t)) \/ \E sq \in unsent : Publish(sq)
  <2>1. UNCHANGED <<active, agent, crossed, call, agentOf>>
    BY <1>7 DEF StopServed, StopLost, Publish, window, server, history
  <2> QED BY <2>1, Apart
<1>8. CASE \E s \in Sessions : Read(s) \/ Land(s) \/ Collect(s)
  <2>1. UNCHANGED <<active, agent, crossed, call, agentOf>>
    BY <1>8 DEF Read, Land, Collect, window, server, history
  <2> QED BY <2>1, Apart
<1>9. CASE UNCHANGED vars
  BY <1>9, Apart DEF vars, window, server, history
<1> QED BY <1>1, <1>2, <1>3, <1>4, <1>5, <1>6, <1>7, <1>8, <1>9 DEF Next

(* Whatever is clicked while a session is being made, the callers of a fresh chat share one
   create, the session on screen is the selected agent's, and a message goes to a session of
   the agent that was on screen when it was sent, unless a create of another agent landed in
   between (ensureSession, handleSend, handleSelectSession). *)
THEOREM AlwaysAddressed == Spec => []Addressed
<1>1. AInv => Addressed
  BY DEF AInv
<1> QED BY <1>1, InitAddressed, StepAddressed, TypesKept, PTL DEF Spec

----------------------------------------------------------------------------
(* The window leaves a deleted session *)

(* A deleted session is out of the list, or the news of it is on its way, or lost. *)
Told ==
    \A s \in gone : s \in dropped \/ s \in ghosts \/ Coming(About("deleted", s, None))

(* The news of a deletion is published on its own. *)
NewsAlone ==
    \A sq \in unsent : \A n \in DOMAIN sq : sq[n].kind = "deleted" => Len(sq) = 1

DInv == Told /\ NewsAlone /\ ActiveExists

(* The news that a session is deleted. *)
Farewell(s) == About("deleted", s, None)

LEMMA InitLeaves == Init => DInv
BY IdsAssumption DEF Init, DInv, Told, NewsAlone, ActiveExists

(* Nothing is deleted, and no news of a deletion is lost unnoticed. *)
LEMMA NewsKept ==
    ASSUME TInv, Told, ActiveExists,
           gone' = gone, dropped \subseteq dropped', ghosts \subseteq ghosts',
           active' \in {active, None},
           \A s \in gone : Coming(Farewell(s)) => Coming(Farewell(s))' \/ s \in ghosts'
    PROVE  Told' /\ ActiveExists'
<1>1. \A s \in gone : Coming(Farewell(s)) => Coming(About("deleted", s, None))' \/ s \in ghosts'
  BY DEF Farewell, Coming, About
<1>2. Told'
  <2> SUFFICES ASSUME NEW s \in gone
               PROVE  s \in dropped' \/ s \in ghosts' \/ Coming(About("deleted", s, None))'
    BY DEF Told, Coming, About
  <2>1. s \in dropped \/ s \in ghosts \/ Coming(Farewell(s))
    BY DEF Told, Farewell
  <2> QED BY <1>1, <2>1
<1>3. ActiveExists'
  <2> SUFFICES ASSUME active' \in gone
               PROVE  active' \in ghosts' \/ Coming(About("deleted", active, None))'
    BY DEF ActiveExists, Coming, About
  <2>1. active' = active
    BY IdsAssumption DEF TInv, TypeOK
  <2>2. active \in ghosts \/ Coming(Farewell(active))
    BY <2>1 DEF ActiveExists, Farewell
  <2>3. Coming(About("deleted", active, None))' \/ active \in ghosts'
    BY <1>1, <2>1, <2>2 DEF Coming, About
  <2> QED BY <2>1, <2>3
<1> QED BY <1>2, <1>3

(* The same where what is on its way only grows. *)
LEMMA MoreNews ==
    ASSUME TInv, Told, ActiveExists,
           gone' = gone, dropped \subseteq dropped', ghosts \subseteq ghosts',
           active' \in {active, None}, chan' = chan, unsent \subseteq unsent'
    PROVE  Told' /\ ActiveExists'
<1>1. \A s \in gone : Coming(Farewell(s)) => Coming(Farewell(s))'
  BY DEF Coming, Farewell, About
<1> QED BY <1>1, NewsKept

(* A list of events that names no deletion. *)
LEMMA OtherNews ==
    ASSUME NewsAlone, NEW sq, \A n \in DOMAIN sq : sq[n].kind # "deleted",
           unsent' = unsent \cup {sq}
    PROVE  NewsAlone'
BY DEF NewsAlone

(* Events are marked late, no deletion is. *)
LEMMA DelayedNews ==
    ASSUME NEW sq \in Seq(Event), NEW es
    PROVE  /\ DOMAIN Delayed(sq, es) = DOMAIN sq /\ Len(Delayed(sq, es)) = Len(sq)
           /\ \A n \in DOMAIN sq : /\ Delayed(sq, es)[n].kind = sq[n].kind
                                   /\ sq[n].kind = "deleted" => Delayed(sq, es)[n] = sq[n]
<1>1. DOMAIN Delayed(sq, es) = DOMAIN sq /\ Delayed(sq, es) \in Seq(Event)
  BY DelayedType
<1>2. Len(Delayed(sq, es)) = Len(sq)
  BY <1>1
<1>3. ASSUME NEW n \in DOMAIN sq
      PROVE  /\ Delayed(sq, es)[n].kind = sq[n].kind
             /\ sq[n].kind = "deleted" => Delayed(sq, es)[n] = sq[n]
  <2>1. sq[n] \in Event
    OBVIOUS
  <2>2. Delayed(sq, es)[n] = [sq[n] EXCEPT !.late = @ \/ \E e \in es : Belated(sq[n], e)]
    BY DEF Delayed
  <2>3. Delayed(sq, es)[n].kind = sq[n].kind
    BY <2>1, <2>2 DEF Event
  <2>4. ASSUME sq[n].kind = "deleted" PROVE Delayed(sq, es)[n] = sq[n]
    <3>1. ~ \E e \in es : Belated(sq[n], e)
      BY <2>4 DEF Belated
    <3>2. (sq[n].late \/ \E e \in es : Belated(sq[n], e)) = sq[n].late
      BY <2>1, <3>1 DEF Event
    <3>3. Delayed(sq, es)[n] = [sq[n] EXCEPT !.late = sq[n].late]
      BY <2>2, <3>2
    <3> QED BY <2>1, <3>3 DEF Event
  <2> QED BY <2>3, <2>4
<1> QED BY <1>1, <1>2, <1>3

LEMMA FarewellKind == \A s : Farewell(s).kind = "deleted" /\ Farewell(s).session = s
BY DEF Farewell, About

LEMMA DelayedSet ==
    ASSUME TInv, NewsAlone, NEW es, NEW U \in SUBSET unsent,
           unsent' = {Delayed(o, es) : o \in U}
    PROVE  /\ NewsAlone'
           /\ \A s : \A o \in U : (\E n \in DOMAIN o : o[n] = Farewell(s))
                => \E p \in unsent' : \E n \in DOMAIN p : p[n] = Farewell(s)
<1>1. \A o \in U : o \in Seq(Event)
  BY DEF TInv, TypeOK
<1>2. NewsAlone'
  <2> SUFFICES ASSUME NEW o \in U, NEW n \in DOMAIN Delayed(o, es),
                      Delayed(o, es)[n].kind = "deleted"
               PROVE  Len(Delayed(o, es)) = 1
    BY DEF NewsAlone
  <2> QED BY <1>1, DelayedNews DEF NewsAlone
<1>3. ASSUME NEW s, NEW o \in U, NEW n \in DOMAIN o, o[n] = Farewell(s)
      PROVE  \E p \in unsent' : \E m \in DOMAIN p : p[m] = Farewell(s)
  <2>1. Delayed(o, es) \in unsent'
    OBVIOUS
  <2>2. n \in DOMAIN Delayed(o, es) /\ Delayed(o, es)[n] = Farewell(s)
    BY <1>1, <1>3, DelayedNews, FarewellKind
  <2> QED BY <2>1, <2>2
<1> QED BY <1>2, <1>3

(* A deletion is put on its way. *)
LEMMA RemovedLeaves ==
    ASSUME TInv, DInv, NEW s \in Sessions, Removed(s), UNCHANGED <<active, dropped, ghosts>>
    PROVE  DInv'
<1> DEFINE sq == <<About("deleted", s, None)>>
<1>1. gone' = gone \cup {s} /\ unsent' = unsent \cup {sq} /\ chan' = chan
  BY DEF Removed
<1>2. \A x : Coming(Farewell(x)) => Coming(Farewell(x))'
  BY <1>1 DEF Coming, Farewell, About
<1>3. Coming(Farewell(s))'
  <2>1. sq \in unsent' /\ 1 \in DOMAIN sq /\ sq[1] = Farewell(s)
    BY <1>1 DEF Farewell
  <2> QED BY <2>1 DEF Coming, Farewell, About
<1>4. \A x : Coming(Farewell(x))' => Coming(About("deleted", x, None))'
  BY DEF Coming, Farewell, About
<1>5. Told'
  <2> SUFFICES ASSUME NEW x \in gone'
               PROVE  x \in dropped' \/ x \in ghosts' \/ Coming(About("deleted", x, None))'
    BY DEF Told, Coming, About
  <2>1. CASE x = s
    BY <1>3, <1>4, <2>1
  <2>2. CASE x \in gone
    <3>1. x \in dropped \/ x \in ghosts \/ Coming(Farewell(x))
      BY <2>2 DEF DInv, Told, Farewell
    <3> QED BY <1>2, <1>4, <3>1
  <2> QED BY <1>1, <2>1, <2>2
<1>6. ActiveExists'
  <2> SUFFICES ASSUME active' \in gone'
               PROVE  active' \in ghosts' \/ Coming(About("deleted", active, None))'
    BY DEF ActiveExists, Coming, About
  <2>1. CASE active = s
    BY <1>3, <1>4, <2>1
  <2>2. CASE active \in gone
    <3>1. active \in ghosts \/ Coming(Farewell(active))
      BY <2>2 DEF DInv, ActiveExists, Farewell
    <3> QED BY <1>2, <1>4, <3>1
  <2> QED BY <1>1, <2>1, <2>2
<1>7. NewsAlone'
  <2>1. Len(sq) = 1
    OBVIOUS
  <2> HIDE DEF sq
  <2> QED BY <1>1, <2>1 DEF DInv, NewsAlone
<1> QED BY <1>5, <1>6, <1>7 DEF DInv

(* The window goes to a session of its list. *)
LEMMA SelectSessionLeaves ==
    ASSUME TInv, DInv, NEW s \in Sessions, SelectSession(s)
    PROVE  DInv'
<1>1. active' = s /\ s \notin dropped /\ UNCHANGED <<dropped, gone, ghosts, chan, unsent>>
  BY DEF SelectSession, Pick, Open, net, server
<1>2. Told' /\ NewsAlone'
  BY <1>1 DEF DInv, Told, NewsAlone, Coming, About
<1>3. ActiveExists'
  BY <1>1 DEF DInv, Told, ActiveExists, Coming, About
<1> QED BY <1>2, <1>3 DEF DInv

LEMMA SettleLeaves ==
    ASSUME TInv, DInv, NEW c \in Calls, Settle(c)
    PROVE  DInv'
<1>1. UNCHANGED <<dropped, gone, chan, unsent>>
  BY DEF Settle, net, server
<1>2. CASE call[c].stage = "made"
  <2>1. active' = call[c].session /\ ghosts' = ghosts \cup (gone \cap {call[c].session})
    BY <1>2 DEF Settle
  <2>2. Told' /\ NewsAlone'
    BY <1>1, <2>1 DEF DInv, Told, NewsAlone, Coming, About
  <2>3. ActiveExists'
    BY <1>1, <2>1 DEF ActiveExists
  <2> QED BY <2>2, <2>3 DEF DInv
<1>3. CASE call[c].stage # "made"
  <2>1. UNCHANGED <<active, ghosts>>
    BY <1>3 DEF Settle
  <2> QED BY <1>1, <2>1 DEF DInv, Told, NewsAlone, ActiveExists, Coming, About
<1> QED BY <1>2, <1>3

LEMMA ReloadLeaves == TInv /\ DInv /\ Reload => DInv'
<1> SUFFICES ASSUME TInv, DInv, Reload PROVE DInv'
  OBVIOUS
<1>1. ghosts' = gone /\ gone' = gone /\ unsent' = unsent
  BY DEF Reload, server
<1> QED BY <1>1 DEF DInv, Told, NewsAlone, ActiveExists

(* Steps that neither delete nor publish nor lose anything. *)
LEMMA Unconcerned ==
    ASSUME TInv, DInv, UNCHANGED <<gone, ghosts, chan, unsent>>, dropped \subseteq dropped',
           active' \in {active, None}
    PROVE  DInv'
<1>1. Told' /\ ActiveExists'
  BY MoreNews DEF DInv
<1>2. NewsAlone'
  BY DEF DInv, NewsAlone
<1> QED BY <1>1, <1>2 DEF DInv

(* A handler of the server commits something else than a deletion. *)
LEMMA Commits ==
    ASSUME TInv, DInv, UNCHANGED <<gone, ghosts, chan, dropped, active>>,
           NEW sq, \A n \in DOMAIN sq : sq[n].kind # "deleted", unsent' = unsent \cup {sq}
    PROVE  DInv'
<1>1. Told' /\ ActiveExists'
  BY MoreNews DEF DInv
<1>2. NewsAlone'
  BY OtherNews DEF DInv
<1> QED BY <1>1, <1>2 DEF DInv

LEMMA CommitLeaves ==
    ASSUME TInv, DInv,
           \/ \E c \in Calls : Store(c)
           \/ \E t \in DOMAIN tasks : \E k \in {"done", "cancelled"} : Finish(t, k)
           \/ \E t \in stops : StopServed(t)
    PROVE  DInv'
<1>1. ASSUME NEW c \in Calls, Store(c) PROVE DInv'
  <2> DEFINE sq == <<About("queued", call[c].session, Len(tasks) + 1),
                     About("message", call[c].session, Len(tasks) + 1)>>
  <2>1. /\ unsent' = unsent \cup {sq}
        /\ UNCHANGED <<gone, ghosts, chan, dropped, active>>
    BY <1>1 DEF Store, window, history
  <2>2. \A n \in DOMAIN sq : sq[n].kind # "deleted"
    BY DEF About
  <2> HIDE DEF sq
  <2> QED BY <2>1, <2>2, Commits
<1>2. ASSUME NEW t \in DOMAIN tasks, NEW k \in {"done", "cancelled"}, Finish(t, k) PROVE DInv'
  <2> DEFINE sq == <<About(k, tasks[t].session, t)>>
  <2>1. /\ unsent' = unsent \cup {sq}
        /\ UNCHANGED <<gone, ghosts, chan, dropped, active>>
    BY <1>2 DEF Finish, window, history
  <2>2. \A n \in DOMAIN sq : sq[n].kind # "deleted"
    BY DEF About
  <2> HIDE DEF sq
  <2> QED BY <2>1, <2>2, Commits
<1>3. ASSUME NEW t \in stops, StopServed(t) PROVE DInv'
  <2>1. UNCHANGED <<gone, ghosts, chan, dropped, active>>
    BY <1>3 DEF StopServed, window, history
  <2>2. CASE Live(t)
    <3> DEFINE sq == <<About("cancelled", tasks[t].session, t)>>
    <3>1. unsent' = unsent \cup {sq}
      BY <1>3, <2>2 DEF StopServed
    <3>2. \A n \in DOMAIN sq : sq[n].kind # "deleted"
      BY DEF About
    <3> HIDE DEF sq
    <3> QED BY <2>1, <3>1, <3>2, Commits
  <2>3. CASE ~ Live(t)
    BY <1>3, <2>1, <2>3, Unconcerned DEF StopServed
  <2> QED BY <2>2, <2>3
<1> QED BY <1>1, <1>2, <1>3

LEMMA FailLeaves ==
    ASSUME TInv, DInv, NEW t \in DOMAIN tasks, Fail(t)
    PROVE  DInv'
<1> DEFINE s == tasks[t].session
           child(r) == IF r THEN <<About("queued", s, Len(tasks) + 1)>> ELSE <<>>
           told(r, w) == IF w THEN child(r) ELSE Append(child(r), About("failed", s, t))
<1>1. PICK r \in BOOLEAN, w \in BOOLEAN :
        IF told(r, w) = <<>> THEN Unheard(s, t)
        ELSE unsent' = unsent \cup {told(r, w)} /\ UNCHANGED <<chan, lapse, pend>>
  BY DEF Fail
<1>2. UNCHANGED <<gone, ghosts, dropped, active>>
  BY DEF Fail, window
<1>3. CASE told(r, w) = <<>>
  <2> DEFINE es == {About("failed", s, t)}
  <2>1. unsent' = {Delayed(sq, es) : sq \in unsent} /\ chan' = Delayed(chan, es)
    BY <1>1, <1>3 DEF Unheard
  <2> HIDE DEF es
  <2>2. NewsAlone' /\ \A x : \A o \in unsent : (\E n \in DOMAIN o : o[n] = Farewell(x))
                        => \E p \in unsent' : \E n \in DOMAIN p : p[n] = Farewell(x)
    BY <2>1, DelayedSet DEF DInv
  <2>3. \A x : (\E n \in DOMAIN chan : chan[n] = Farewell(x))
            => \E n \in DOMAIN chan' : chan'[n] = Farewell(x)
    BY <2>1, DelayedNews, FarewellKind DEF TInv, TypeOK
  <2>4. \A x : Coming(Farewell(x)) => Coming(Farewell(x))'
    BY <2>2, <2>3 DEF Coming, Farewell, About
  <2>5. Told' /\ ActiveExists'
    BY <1>2, <2>4, NewsKept DEF DInv
  <2> QED BY <2>2, <2>5 DEF DInv
<1>4. CASE told(r, w) # <<>>
  <2>1. \A n \in DOMAIN told(r, w) : told(r, w)[n].kind # "deleted"
    <3>1. CASE r /\ w
      BY <3>1 DEF About
    <3>2. CASE r /\ ~ w
      BY <3>2 DEF About
    <3>3. CASE ~ r
      BY <1>4, <3>3 DEF About
    <3> QED BY <3>1, <3>2, <3>3
  <2>2. unsent' = unsent \cup {told(r, w)} /\ chan' = chan
    BY <1>1, <1>4
  <2> HIDE DEF told
  <2> QED BY <1>2, <2>1, <2>2, Commits
<1> QED BY <1>3, <1>4

(* A list with a deletion is published whole. *)
LEMMA NewsPublished ==
    ASSUME TInv, NewsAlone, NEW sq \in unsent, NEW n \in DOMAIN sq, sq[n].kind = "deleted"
    PROVE  Published(sq) = sq
<1>1. sq \in Seq(Event) /\ Len(sq) = 1
  BY DEF TInv, TypeOK, NewsAlone
<1>2. \A m \in DOMAIN sq : m = n
  BY <1>1
<1>3. Heard(sq[n])
  BY DEF Heard, Ending
<1> QED BY <1>2, <1>3 DEF Published

LEMMA PublishLeaves ==
    ASSUME TInv, DInv, NEW sq \in unsent, Publish(sq)
    PROVE  DInv'
<1> DEFINE told == Published(sq)
           es == {told[n] : n \in DOMAIN told}
<1>1. /\ unsent' = {Delayed(o, es) : o \in unsent \ {sq}}
      /\ chan' = IF conn THEN chan \o told ELSE chan
      /\ UNCHANGED <<gone, dropped, active>>
      /\ conn => ghosts' = ghosts
      /\ ~ conn => ghosts' = ghosts \cup {e.session : e \in {f \in es : f.kind = "deleted"}}
  BY DEF Publish, Lost, window, server
<1>2. told \in Seq(Event) /\ chan \in Seq(Event)
  BY PublishedType DEF TInv, TypeOK
<1>3. NewsAlone' /\ \A x : \A o \in unsent \ {sq} : (\E n \in DOMAIN o : o[n] = Farewell(x))
                      => \E p \in unsent' : \E n \in DOMAIN p : p[n] = Farewell(x)
  <2> DEFINE U == unsent \ {sq}
  <2>1. unsent' = {Delayed(o, es) : o \in U} /\ U \in SUBSET unsent
    BY <1>1
  <2>2. NewsAlone
    BY DEF DInv
  <2> HIDE DEF es, U
  <2>3. /\ NewsAlone'
        /\ \A x : \A o \in U : (\E n \in DOMAIN o : o[n] = Farewell(x))
              => \E p \in unsent' : \E n \in DOMAIN p : p[n] = Farewell(x)
    BY <2>1, <2>2, DelayedSet
  <2> QED BY <2>3 DEF U
<1>4. ASSUME NEW x, NEW n \in DOMAIN sq, sq[n] = Farewell(x)
      PROVE  (\E m \in DOMAIN chan' : chan'[m] = Farewell(x)) \/ x \in ghosts'
  <2>1. told = sq
    BY <1>4, FarewellKind, NewsPublished DEF DInv
  <2>2. CASE conn
    <3>1. chan' = chan \o told
      BY <1>1, <2>2
    <3>2. Len(chan) + n \in DOMAIN chan' /\ chan'[Len(chan) + n] = told[n]
      <4> HIDE DEF told
      <4>1. n \in 1..Len(told)
        BY <1>2, <1>4, <2>1
      <4> QED BY <1>2, <3>1, <4>1
    <3> QED BY <1>4, <2>1, <3>2
  <2>3. CASE ~ conn
    <3>1. Farewell(x) \in es /\ Farewell(x).kind = "deleted" /\ Farewell(x).session = x
      BY <1>4, <2>1, FarewellKind
    <3> QED BY <1>1, <2>3, <3>1
  <2> QED BY <2>2, <2>3
<1>5. ASSUME NEW x, NEW n \in DOMAIN chan, chan[n] = Farewell(x)
      PROVE  \E m \in DOMAIN chan' : chan'[m] = Farewell(x)
  <2> HIDE DEF told
  <2>1. n \in DOMAIN chan' /\ chan'[n] = chan[n]
    BY <1>1, <1>2
  <2> QED BY <1>5, <2>1
<1>6. ASSUME NEW x, Coming(Farewell(x))
      PROVE  Coming(Farewell(x))' \/ x \in ghosts'
  <2>1. CASE \E n \in DOMAIN chan : chan[n] = Farewell(x)
    BY <1>5, <2>1 DEF Coming, Farewell, About
  <2>2. CASE \E o \in unsent : \E n \in DOMAIN o : o[n] = Farewell(x)
    <3>1. PICK o \in unsent : \E n \in DOMAIN o : o[n] = Farewell(x)
      BY <2>2
    <3>2. CASE o = sq
      BY <1>4, <3>1, <3>2 DEF Coming, Farewell, About
    <3>3. CASE o # sq
      <4>1. \E p \in unsent' : \E n \in DOMAIN p : p[n] = Farewell(x)
        BY <1>3, <3>1, <3>3
      <4> QED BY <4>1 DEF Coming, Farewell, About
    <3> QED BY <3>2, <3>3
  <2> QED BY <1>6, <2>1, <2>2 DEF Coming
<1>7. ghosts \subseteq ghosts'
  BY <1>1
<1>8. Told' /\ ActiveExists'
  BY <1>1, <1>6, <1>7, NewsKept DEF DInv
<1> QED BY <1>3, <1>8 DEF DInv

LEMMA DropLeaves == TInv /\ DInv /\ Drop => DInv'
<1> SUFFICES ASSUME TInv, DInv, Drop PROVE DInv'
  OBVIOUS
<1> DEFINE es == {chan[n] : n \in DOMAIN chan}
<1>1. /\ ghosts' = ghosts \cup {e.session : e \in {f \in es : f.kind = "deleted"}}
      /\ UNCHANGED <<gone, dropped, active, unsent>>
  BY DEF Drop, Lost, window, server
<1>2. ASSUME NEW x, Coming(Farewell(x))
      PROVE  Coming(Farewell(x))' \/ x \in ghosts'
  <2>1. CASE \E n \in DOMAIN chan : chan[n] = Farewell(x)
    <3>1. Farewell(x) \in es /\ Farewell(x).kind = "deleted" /\ Farewell(x).session = x
      BY <2>1, FarewellKind
    <3> QED BY <1>1, <3>1
  <2>2. CASE \E o \in unsent : \E n \in DOMAIN o : o[n] = Farewell(x)
    BY <1>1, <2>2 DEF Coming, Farewell, About
  <2> QED BY <1>2, <2>1, <2>2 DEF Coming
<1>3. Told' /\ ActiveExists'
  BY <1>1, <1>2, NewsKept DEF DInv
<1> QED BY <1>1, <1>3 DEF DInv, NewsAlone

LEMMA DeliverLeaves == TInv /\ DInv /\ Deliver => DInv'
<1> SUFFICES ASSUME TInv, DInv, Deliver PROVE DInv'
  OBVIOUS
<1> DEFINE e == Head(chan)
<1>1. /\ chan' = Tail(chan) /\ UNCHANGED <<gone, ghosts, unsent>>
      /\ active' = (IF e.kind = "deleted" /\ e.session = active THEN None ELSE active)
      /\ dropped' = (IF e.kind = "deleted" THEN dropped \cup {e.session} ELSE dropped)
  BY DEF Deliver, Followed, server
<1>2. chan \in Seq(Event) /\ chan # <<>>
  BY DEF TInv, TypeOK, Deliver
<1>3. ASSUME NEW x, Coming(Farewell(x)), e # Farewell(x)
      PROVE  Coming(Farewell(x))'
  <2>1. CASE \E n \in DOMAIN chan : chan[n] = Farewell(x)
    <3>1. PICK n \in 1..Len(chan) : chan[n] = Farewell(x)
      BY <1>2, <2>1
    <3>2. n # 1
      BY <1>2, <1>3, <3>1
    <3>3. n - 1 \in DOMAIN chan' /\ chan'[n - 1] = chan[n]
      BY <1>1, <1>2, <3>1, <3>2
    <3> QED BY <3>1, <3>3 DEF Coming, Farewell, About
  <2>2. CASE \E o \in unsent : \E n \in DOMAIN o : o[n] = Farewell(x)
    BY <1>1, <2>2 DEF Coming, Farewell, About
  <2> QED BY <1>3, <2>1, <2>2 DEF Coming
<1>4. \A x : Coming(Farewell(x))' => Coming(About("deleted", x, None))'
  BY DEF Coming, Farewell, About
<1>5. \A x : e = Farewell(x) => e.kind = "deleted" /\ e.session = x
  BY FarewellKind
<1> HIDE DEF e
<1>6. Told'
  <2> SUFFICES ASSUME NEW x \in gone
               PROVE  x \in dropped' \/ x \in ghosts' \/ Coming(About("deleted", x, None))'
    BY <1>1 DEF Told, Coming, About
  <2>1. x \in dropped \/ x \in ghosts \/ Coming(Farewell(x))
    BY DEF DInv, Told, Farewell
  <2>2. CASE e = Farewell(x)
    BY <1>1, <1>5, <2>2
  <2>3. CASE e # Farewell(x)
    BY <1>1, <1>3, <1>4, <2>1, <2>3
  <2> QED BY <2>2, <2>3
<1>7. ActiveExists'
  <2> SUFFICES ASSUME active' \in gone
               PROVE  active' \in ghosts' \/ Coming(About("deleted", active, None))'
    BY <1>1 DEF ActiveExists, Coming, About
  <2>1. active' = active /\ ~ (e.kind = "deleted" /\ e.session = active)
    BY <1>1, IdsAssumption DEF TInv, TypeOK
  <2>2. active \in ghosts \/ Coming(Farewell(active))
    BY <2>1 DEF DInv, ActiveExists, Farewell
  <2>3. e # Farewell(active)
    BY <1>5, <2>1
  <2>4. Coming(Farewell(active)) => Coming(Farewell(active))'
    <3>1. \A x : Coming(Farewell(x)) /\ e # Farewell(x) =>
            \/ \E n \in DOMAIN chan' : chan'[n] = Farewell(x)
            \/ \E sq \in unsent' : \E n \in DOMAIN sq : sq[n] = Farewell(x)
      BY <1>3 DEF Coming, Farewell, About
    <3> QED BY <2>1, <2>3, <3>1 DEF Coming, Farewell, About
  <2> QED BY <1>1, <2>1, <2>2, <2>4 DEF Coming, Farewell, About
<1> QED BY <1>1, <1>6, <1>7 DEF DInv, NewsAlone

LEMMA DeleteServedLeaves == TInv /\ DInv /\ DeleteServed => DInv'
<1> SUFFICES ASSUME TInv, DInv, DeleteServed PROVE DInv'
  OBVIOUS
<1>1. deleting \in Sessions /\ active' = active
  BY DEF TInv, TypeOK, DeleteServed
<1>2. CASE Removed(deleting) /\ UNCHANGED <<dropped, ghosts>>
  BY <1>1, <1>2, RemovedLeaves
<1>3. CASE UNCHANGED <<dropped, ghosts, net, server>>
  BY <1>1, <1>3, Unconcerned DEF net, server
<1>4. CASE /\ dropped' = dropped \ {deleting}
           /\ ghosts' = ghosts \cup (gone \cap {deleting})
           /\ UNCHANGED <<net, server>>
  <2>1. UNCHANGED <<gone, chan, unsent, active>>
    BY <1>1, <1>4 DEF net, server
  <2>2. \A x : Coming(About("deleted", x, None)) => Coming(About("deleted", x, None))'
    BY <2>1 DEF Coming, About
  <2>3. Told'
    <3> SUFFICES ASSUME NEW x \in gone
                 PROVE  x \in dropped' \/ x \in ghosts' \/ Coming(About("deleted", x, None))'
      BY <2>1 DEF Told, Coming, About
    <3> QED BY <1>4, <2>2 DEF DInv, Told
  <2>4. ActiveExists'
    BY <1>4, <2>1 DEF DInv, ActiveExists, Coming, About
  <2>5. NewsAlone'
    BY <2>1 DEF DInv, NewsAlone
  <2> QED BY <2>3, <2>4, <2>5 DEF DInv
<1> QED BY <1>2, <1>3, <1>4 DEF DeleteServed

LEMMA StepLeaves == TInv /\ DInv /\ [Next]_vars => DInv'
<1> SUFFICES ASSUME TInv, DInv, [Next]_vars PROVE DInv'
  OBVIOUS
<1>1. CASE User
  <2>1. CASE \E c \in Calls : Send(c) \/ \E k \in {"send", "upload"} : Begin(c, k)
    BY <2>1, Unconcerned DEF Send, Begin, window, net, server, history
  <2>2. CASE (\E a \in Agents : SelectAgent(a)) \/ Stop \/ NewChat
    BY <2>2, Unconcerned DEF SelectAgent, Stop, NewChat, Open, window, net, server, history
  <2>3. CASE \E s \in Sessions : Delete(s)
    BY <2>3, Unconcerned DEF Delete, Open, net, server
  <2> QED BY <1>1, <2>1, <2>2, <2>3, SelectSessionLeaves, ReloadLeaves DEF User
<1>2. CASE Others
  <2>1. ASSUME NEW s \in Sessions, DeleteElsewhere(s) PROVE DInv'
    BY <2>1, RemovedLeaves DEF DeleteElsewhere, window, history
  <2> QED BY <1>2, <2>1, FailLeaves, CommitLeaves DEF Others
<1>3. CASE \E c \in Calls : Serve(c) \/ Settle(c) \/ Answered(c) \/ LoseAnswer(c) \/ Rejected(c)
  <2>1. ASSUME NEW c \in Calls,
               \/ MakeSession(c) \/ RefuseSession(c) \/ RefuseSend(c)
               \/ Answered(c) \/ LoseAnswer(c) \/ Rejected(c)
        PROVE  DInv'
    BY <2>1, Unconcerned DEF MakeSession, RefuseSession, RefuseSend, Answered, LoseAnswer, Rejected,
                             window, net, server, history
  <2> QED BY <1>3, <2>1, CommitLeaves, SettleLeaves DEF Serve
<1>4. CASE DeleteServed \/ Deliver \/ Drop
  BY <1>4, DeleteServedLeaves, DeliverLeaves, DropLeaves
<1>5. CASE Connect
  BY <1>5, Unconcerned DEF Connect, window, server, history
<1>6. CASE \E t \in stops : StopServed(t) \/ StopLost(t)
  <2>1. ASSUME NEW t \in stops, StopLost(t) PROVE DInv'
    BY <2>1, Unconcerned DEF StopLost, window, net, server
  <2> QED BY <1>6, <2>1, CommitLeaves
<1>7. CASE \E sq \in unsent : Publish(sq)
  BY <1>7, PublishLeaves
<1>8. CASE \E s \in Sessions : Read(s) \/ Land(s) \/ Collect(s)
  BY <1>8, Unconcerned DEF Read, Land, Collect, window, net, server, history
<1>9. CASE UNCHANGED vars
  BY <1>9, Unconcerned DEF vars, window, net, server, history
<1> QED BY <1>1, <1>2, <1>3, <1>4, <1>5, <1>6, <1>7, <1>8, <1>9 DEF Next

(* The window is on a deleted session only while the news is on its way, or when it was lost or
   came before the session was opened (DeleteChatSession, the chat:session_deleted handler,
   handleSelectSession, the rollback of a deletion). *)
THEOREM LeavesDeleted == Spec => []ActiveExists
<1>1. DInv => ActiveExists
  BY DEF DInv
<1> QED BY <1>1, InitLeaves, StepLeaves, TypesKept, PTL DEF Spec

----------------------------------------------------------------------------
(* The pill. The stream of events and the entries each have their part. *)

(* The task is one of the session's. *)
Of(t, s) == t \in DOMAIN tasks /\ tasks[t].session = s

(* An event names a task of its session. *)
Names(e) == e.kind # "deleted" => Of(e.task, e.session)

(* A task:queued that is not late names the latest task, or is overtaken by an event
   beside it or behind it. *)
Timely(e) == e.kind = "queued" /\ ~ e.late /\ e.session \notin gone
Newest(e) == e.task = Latest(e.session)
Beside(e) == \E sq \in unsent : \E n \in DOMAIN sq : Belated(e, sq[n])
Behind(k) == \E n \in DOMAIN chan : n > k /\ Belated(chan[k], chan[n])

(* What a handler publishes is about one session, and task:queued comes first. *)
OfOneSession(sq) ==
    \A n \in DOMAIN sq : /\ \A m \in DOMAIN sq : sq[m].session = sq[n].session
                         /\ sq[n].kind = "queued" => n = 1

Streamed ==
    /\ ~ conn => chan = <<>>
    /\ \A sq \in unsent :
         /\ OfOneSession(sq)
         /\ \A n \in DOMAIN sq : /\ Names(sq[n])
                                 /\ Timely(sq[n]) => Newest(sq[n]) \/ Beside(sq[n])
    /\ \A k \in DOMAIN chan :
         /\ Names(chan[k])
         /\ Timely(chan[k]) => Newest(chan[k]) \/ Beside(chan[k]) \/ Behind(k)

(* Who has still to write the entry of a session: of cancel requests only one whose
   task is in flight. *)
Waits(s)   == \E c \in Calls : Awaiting(c) /\ call[c].session = s
Cancels(s) == \E t \in stops : t \in InFlight(s)
Excused(s) ==
    \/ s \in gone \/ s \in lapse
    \/ pend[s].fetch # "none" \/ pend[s].invalid
    \/ News(s) \/ Waits(s) \/ Cancels(s)

EntryNames(s) == /\ pend[s].val \in TaskIds => Of(pend[s].val, s)
                 /\ pend[s].snap \in TaskIds => Of(pend[s].snap, s)
Blank(s)      == ~ pend[s].has => pend[s].val = None
DraftHeld(s)  == pend[s].val = Draft => s \in lapse \/ Waits(s)
SnapRight(s)  == pend[s].fetch = "read" /\ ~ pend[s].over
                   => pend[s].snap = Latest(s) \/ News(s) \/ s \in gone
PillRight(s)  == pend[s].has => pend[s].val = Latest(s) \/ Excused(s)
Good(s)       == EntryNames(s) /\ Blank(s) /\ DraftHeld(s) /\ SnapRight(s) /\ PillRight(s)

(* An entry on screen that is marked is being fetched. *)
Fresh == active # None /\ active \notin gone /\ pend[active].invalid => pend[active].fetch # "none"

CallNames == \A c \in Calls : call[c].stage = "stored" => Of(call[c].task, call[c].session)

Held == CallNames /\ Fresh /\ \A s \in Sessions : Good(s)

PInv == Streamed /\ Held

LEMMA InitPills == Init => PInv
<1> SUFFICES ASSUME Init PROVE PInv
  OBVIOUS
<1>1. Streamed
  BY DEF Init, Streamed
<1>2. ASSUME NEW s \in Sessions PROVE Good(s)
  <2>1. pend[s] = NoEntry
    BY DEF Init
  <2>2. None \notin TaskIds /\ None # Draft
    BY IdsAssumption DEF TaskIds
  <2> QED BY <2>1, <2>2 DEF Good, EntryNames, Blank, DraftHeld, SnapRight, PillRight, NoEntry
<1>3. CallNames /\ Fresh
  BY DEF Init, CallNames, Fresh, Idle
<1> QED BY <1>1, <1>2, <1>3 DEF PInv, Held

LEMMA GoodAccounts == (\A s \in Sessions : Good(s)) => PillAccounted
<1> SUFFICES ASSUME \A s \in Sessions : Good(s), NEW s \in Sessions, pend[s].has, s \notin gone
             PROVE  pend[s].val = Latest(s) \/ Owed(s) \/ s \in lapse
  BY DEF PillAccounted
<1>1. pend[s].val = Latest(s) \/ Excused(s)
  BY DEF Good, PillRight
<1>2. Cancels(s) => \E t \in stops : tasks[t].session = s
  BY DEF Cancels, InFlight
<1>3. Waits(s) => \E c \in Calls : Awaiting(c) /\ call[c].session = s
  BY DEF Waits
<1> QED BY <1>1, <1>2, <1>3 DEF Excused, Owed

----------------------------------------------------------------------------
(* The latest task in flight *)

LEMMA LatestIs ==
    ASSUME TInv, NEW s
    PROVE  /\ Latest(s) # None => /\ Latest(s) \in InFlight(s)
                                  /\ \A u \in InFlight(s) : u <= Latest(s)
           /\ InFlight(s) = {} <=> Latest(s) = None
           /\ Latest(s) \in TaskIds => Of(Latest(s), s)
           /\ InFlight(s) \subseteq TaskIds /\ Latest(s) # Draft
<1>1. Len(tasks) \in Nat /\ Len(tasks) <= MaxTasks /\ DOMAIN tasks = 1..Len(tasks)
  BY DEF TInv, TypeOK, TasksBounded
<1>2. InFlight(s) \in SUBSET (1..Len(tasks)) /\ InFlight(s) \subseteq TaskIds
  BY <1>1, BoundsAssumption DEF InFlight, TaskIds
<1>3. None \notin TaskIds /\ Draft \notin TaskIds /\ None # Draft
  BY IdsAssumption DEF TaskIds
<1>4. CASE InFlight(s) = {}
  BY <1>3, <1>4 DEF Latest
<1>5. CASE InFlight(s) # {}
  <2>1. \E t \in InFlight(s) : \A u \in InFlight(s) : u <= t
    BY <1>1, <1>2, <1>5, LastExists
  <2>2. Latest(s) \in InFlight(s) /\ \A u \in InFlight(s) : u <= Latest(s)
    BY <1>5, <2>1 DEF Latest
  <2>3. Of(Latest(s), s)
    BY <2>2 DEF InFlight, Of
  <2> QED BY <1>2, <1>3, <1>5, <2>2, <2>3
<1> QED BY <1>4, <1>5

LEMMA LatestSame ==
    ASSUME NEW s, InFlight(s)' = InFlight(s)
    PROVE  Latest(s)' = Latest(s)
BY DEF Latest

LEMMA LatestNew ==
    ASSUME TInv', NEW s, NEW t \in InFlight(s)', \A u \in InFlight(s)' : u <= t
    PROVE  Latest(s)' = t
<1>1. Latest(s)' = CHOOSE v \in InFlight(s)' : \A u \in InFlight(s)' : u <= v
  BY DEF Latest
<1>2. InFlight(s)' \subseteq Nat
  BY DEF TInv, TypeOK, InFlight
<1>3. \A v \in InFlight(s)' : (\A u \in InFlight(s)' : u <= v) => v = t
  BY <1>2
<1> QED BY <1>1, <1>3

LEMMA LatestLeft ==
    ASSUME TInv, TInv', NEW s, NEW t, InFlight(s)' = InFlight(s) \ {t}, t # Latest(s)
    PROVE  Latest(s)' = Latest(s)
<1>1. CASE InFlight(s) = {}
  <2>1. InFlight(s)' = InFlight(s)
    BY <1>1
  <2> QED BY <2>1, LatestSame
<1>2. CASE InFlight(s) # {}
  <2>1. Latest(s) \in InFlight(s)' /\ \A u \in InFlight(s)' : u <= Latest(s)
    BY <1>2, LatestIs
  <2>2. PICK l : l = Latest(s)
    OBVIOUS
  <2>3. l \in InFlight(s)' /\ \A u \in InFlight(s)' : u <= l
    BY <2>1, <2>2
  <2>4. Latest(s)' = l
    BY <2>3, LatestNew
  <2> QED BY <2>2, <2>4
<1> QED BY <1>1, <1>2

----------------------------------------------------------------------------
(* The stream of events *)

(* Tasks stay in the table, with their session. *)
Grown == \A t \in DOMAIN tasks : t \in DOMAIN tasks' /\ tasks'[t].session = tasks[t].session

LEMMA OfKept == ASSUME Grown, NEW t, NEW s, Of(t, s) PROVE Of(t, s)'
BY DEF Grown, Of

LEMMA NamesKept == ASSUME Grown, NEW e, Names(e) PROVE Names(e)'
BY OfKept DEF Names

(* Two events that differ in being late at most. *)
Alike(e, f) == e.kind = f.kind /\ e.session = f.session /\ e.task = f.task

LEMMA AlikeBelated ==
    ASSUME NEW d, NEW e, NEW f, NEW g, Alike(d, e), Alike(f, g), Belated(d, f)
    PROVE  Belated(e, g)
BY DEF Alike, Belated

LEMMA DelayedIs ==
    ASSUME NEW sq \in Seq(Event), NEW es
    PROVE  /\ Delayed(sq, es) \in Seq(Event) /\ DOMAIN Delayed(sq, es) = DOMAIN sq
           /\ \A n \in DOMAIN sq :
                /\ Alike(Delayed(sq, es)[n], sq[n])
                /\ ~ Delayed(sq, es)[n].late => ~ sq[n].late /\ \A e \in es : ~ Belated(sq[n], e)
<1>1. Delayed(sq, es) \in Seq(Event) /\ DOMAIN Delayed(sq, es) = DOMAIN sq
  BY DelayedType
<1>2. ASSUME NEW n \in DOMAIN sq
      PROVE  /\ Alike(Delayed(sq, es)[n], sq[n])
             /\ ~ Delayed(sq, es)[n].late => ~ sq[n].late /\ \A e \in es : ~ Belated(sq[n], e)
  <2> DEFINE b == sq[n].late \/ \E e \in es : Belated(sq[n], e)
  <2>1. Delayed(sq, es)[n] = [sq[n] EXCEPT !.late = b]
    BY DEF Delayed
  <2>2. sq[n] \in Event
    OBVIOUS
  <2> HIDE DEF b
  <2>3. /\ Alike(Delayed(sq, es)[n], sq[n])
        /\ Delayed(sq, es)[n].late = b
    BY <2>1, <2>2 DEF Alike, Event
  <2> QED BY <2>3 DEF b
<1> QED BY <1>1, <1>2

LEMMA StreamSame ==
    ASSUME Streamed, UNCHANGED <<tasks, chan, unsent, gone>>, conn' = conn \/ conn' = TRUE
    PROVE  Streamed'
<1>1. \A e : /\ Names(e)' = Names(e) /\ Timely(e)' = Timely(e) /\ Newest(e)' = Newest(e)
             /\ Beside(e)' = Beside(e)
  BY DEF Names, Of, Timely, Newest, Latest, InFlight, Beside
<1>2. \A k : Behind(k)' = Behind(k)
  BY DEF Behind
<1>3. \A k \in DOMAIN chan :
        /\ Names(chan[k])
        /\ Timely(chan[k]) => Newest(chan[k]) \/ Beside(chan[k]) \/ Behind(k)
  BY DEF Streamed
<1>4. ASSUME NEW k \in DOMAIN chan
      PROVE  Names(chan[k])' /\ (Timely(chan[k])' => Newest(chan[k])' \/ Beside(chan[k])' \/ Behind(k)')
  <2>1. PICK e : e = chan[k]
    OBVIOUS
  <2>2. Names(e)' /\ (Timely(e)' => Newest(e)' \/ Beside(e)' \/ Behind(k)')
    BY <1>1, <1>2, <1>3, <2>1
  <2> QED BY <2>1, <2>2 DEF Names, Timely, Newest, Beside
<1>5. \A sq \in unsent : OfOneSession(sq) /\ \A n \in DOMAIN sq :
        Names(sq[n])' /\ (Timely(sq[n])' => Newest(sq[n])' \/ Beside(sq[n])')
  BY <1>1 DEF Streamed
<1> QED BY <1>4, <1>5 DEF Streamed

(* A handler commits and will publish sq about session s. *)
LEMMA StreamCommits ==
    ASSUME TInv, Streamed, Grown, NEW s, NEW sq,
           chan' = chan, conn' = conn, gone \subseteq gone', unsent' = unsent \cup {sq},
           \A x : x # s => Latest(x)' = Latest(x),
           OfOneSession(sq),
           \A n \in DOMAIN sq : /\ sq[n].session = s /\ Names(sq[n])'
                                /\ sq[n].kind = "queued" => sq[n].task = Latest(s)',
           \/ s \in gone'
           \/ \A t : Of(t, s) /\ t = Latest(s) =>
                \/ t = Latest(s)'
                \/ \E n \in DOMAIN sq : \/ sq[n].kind \in Ending /\ sq[n].task = t
                                        \/ sq[n].kind = "queued" /\ t < sq[n].task
    PROVE  Streamed'
<1>1. ASSUME NEW e, Names(e), Timely(e)', Newest(e)
      PROVE  Newest(e)' \/ \E n \in DOMAIN sq : Belated(e, sq[n])
  <2>1. CASE e.session # s
    BY <1>1, <2>1 DEF Newest
  <2>2. CASE e.session = s
    <3>1. e.kind = "queued" /\ s \notin gone' /\ Of(e.task, s) /\ e.task = Latest(s)
      BY <1>1, <2>2 DEF Timely, Names, Newest
    <3>2. \/ e.task = Latest(s)'
          \/ \E n \in DOMAIN sq : \/ sq[n].kind \in Ending /\ sq[n].task = e.task
                                  \/ sq[n].kind = "queued" /\ e.task < sq[n].task
      BY <3>1
    <3>3. CASE e.task = Latest(s)'
      BY <2>2, <3>3 DEF Newest
    <3>4. CASE \E n \in DOMAIN sq : \/ sq[n].kind \in Ending /\ sq[n].task = e.task
                                    \/ sq[n].kind = "queued" /\ e.task < sq[n].task
      BY <2>2, <3>1, <3>4 DEF Belated
    <3> QED BY <3>2, <3>3, <3>4
  <2> QED BY <2>1, <2>2
<1>2. \A e : Timely(e)' => Timely(e)
  BY DEF Timely
<1>3. \A e : Beside(e) => Beside(e)'
  BY DEF Beside
<1>4. \A e : (\E n \in DOMAIN sq : Belated(e, sq[n])) => Beside(e)'
  BY DEF Beside
<1>5. ASSUME NEW o \in unsent', NEW n \in DOMAIN o
      PROVE  OfOneSession(o) /\ Names(o[n])' /\ (Timely(o[n])' => Newest(o[n])' \/ Beside(o[n])')
  <2>1. CASE o = sq
    BY <1>5, <2>1 DEF Newest, Timely
  <2>2. CASE o \in unsent
    <3>1. OfOneSession(o) /\ Names(o[n]) /\ (Timely(o[n]) => Newest(o[n]) \/ Beside(o[n]))
      BY <1>5, <2>2 DEF Streamed
    <3> QED BY <1>1, <1>2, <1>3, <1>4, <3>1, NamesKept
  <2> QED BY <2>1, <2>2
<1>6. \A o \in unsent' : OfOneSession(o)
  BY DEF Streamed
<1>7. ASSUME NEW k \in DOMAIN chan
      PROVE  Names(chan[k])' /\ (Timely(chan[k])' => Newest(chan[k])' \/ Beside(chan[k])' \/ Behind(k)')
  <2>1. Names(chan[k]) /\ (Timely(chan[k]) => Newest(chan[k]) \/ Beside(chan[k]) \/ Behind(k))
    BY DEF Streamed
  <2>2. Behind(k) => Behind(k)'
    BY DEF Behind
  <2>3. PICK e : e = chan[k]
    OBVIOUS
  <2>4. Names(e)' /\ (Timely(e)' => Newest(e)' \/ Beside(e)' \/ Behind(k)')
    BY <1>1, <1>2, <1>3, <1>4, <2>1, <2>2, <2>3, NamesKept
  <2> QED BY <2>3, <2>4 DEF Names, Timely, Newest, Beside
<1> QED BY <1>5, <1>6, <1>7 DEF Streamed

(* A task ends and no event says so. *)
LEMMA StreamUnheard ==
    ASSUME TInv, TInv', Streamed, NEW t \in DOMAIN tasks, NEW s, s = tasks[t].session,
           Grown, UNCHANGED <<gone, conn>>,
           \A x : InFlight(x)' = InFlight(x) \ {t},
           unsent' = {Delayed(sq, {About("failed", s, t)}) : sq \in unsent},
           chan' = Delayed(chan, {About("failed", s, t)})
    PROVE  Streamed'
<1> DEFINE f == About("failed", s, t)
           es == {f}
<1>1. unsent' = {Delayed(sq, es) : sq \in unsent} /\ chan' = Delayed(chan, es)
  OBVIOUS
<1>2. f.kind \in Ending /\ f.session = s /\ f.task = t
  BY DEF About, Ending
<1>3. chan \in Seq(Event) /\ \A sq \in unsent : sq \in Seq(Event)
  BY DEF TInv, TypeOK
<1> HIDE DEF f
<1>4. ASSUME NEW e, ~ Belated(e, f), Timely(e), Newest(e), Names(e)
      PROVE  Newest(e)'
  <2>1. e.task # t
    <3> SUFFICES ASSUME e.task = t PROVE FALSE
      OBVIOUS
    <3>1. e.session = s /\ e.kind = "queued"
      BY <1>4 DEF Names, Of, Timely
    <3> QED BY <1>2, <1>4, <3>1 DEF Belated
  <2>2. t # Latest(e.session)
    BY <1>4, <2>1 DEF Newest
  <2>3. Latest(e.session)' = Latest(e.session)
    BY <2>2, LatestLeft
  <2> QED BY <1>4, <2>3 DEF Newest
<1>5. ASSUME NEW sq \in unsent, NEW n \in DOMAIN sq, NEW e, Alike(e, sq[n]) \/ e = sq[n],
             NEW d, Belated(d, e)
      PROVE  Beside(d)'
  <2>1. Delayed(sq, es) \in unsent' /\ n \in DOMAIN Delayed(sq, es)
    BY <1>1, <1>3, DelayedIs
  <2>2. Alike(Delayed(sq, es)[n], sq[n])
    BY <1>3, DelayedIs
  <2>3. Belated(d, Delayed(sq, es)[n])
    BY <1>5, <2>2 DEF Alike, Belated
  <2> QED BY <2>1, <2>3 DEF Beside
<1>6. ASSUME NEW d, Beside(d) PROVE Beside(d)'
  BY <1>5, <1>6 DEF Beside
<1>7. ASSUME NEW d, NEW e, Alike(d, e), ~ d.late => ~ e.late /\ ~ Belated(e, f), Names(e), Timely(d)'
      PROVE  /\ Timely(e) /\ ~ Belated(e, f)
             /\ Newest(e) => Newest(d)'
             /\ Beside(e) => Beside(d)'
  <2>1. Timely(e) /\ ~ Belated(e, f)
    BY <1>7 DEF Timely, Alike
  <2>2. Newest(e) => Newest(d)'
    BY <1>4, <1>7, <2>1 DEF Newest, Alike
  <2>3. \A g : Belated(e, g) => Belated(d, g)
    BY <1>7 DEF Alike, Belated
  <2>4. Beside(e) => Beside(d)
    BY <2>3 DEF Beside
  <2> QED BY <1>6, <2>1, <2>2, <2>4
<1>8. \A d, e : Alike(d, e) /\ Names(e) => Names(d)'
  BY NamesKept DEF Alike, Names
<1>9. ASSUME NEW sq \in unsent
      PROVE  /\ OfOneSession(Delayed(sq, es))
             /\ \A n \in DOMAIN Delayed(sq, es) :
                  LET d == Delayed(sq, es)[n] IN
                    Names(d)' /\ (Timely(d)' => Newest(d)' \/ Beside(d)')
  <2>1. DOMAIN Delayed(sq, es) = DOMAIN sq
    BY <1>3, DelayedIs
  <2>2. \A n \in DOMAIN sq : /\ Alike(Delayed(sq, es)[n], sq[n])
                             /\ ~ Delayed(sq, es)[n].late => ~ sq[n].late /\ ~ Belated(sq[n], f)
    BY <1>3, DelayedIs
  <2>3. OfOneSession(sq) /\ \A n \in DOMAIN sq :
          Names(sq[n]) /\ (Timely(sq[n]) => Newest(sq[n]) \/ Beside(sq[n]))
    BY DEF Streamed
  <2>4. OfOneSession(Delayed(sq, es))
    BY <2>1, <2>2, <2>3 DEF OfOneSession, Alike
  <2>5. ASSUME NEW n \in DOMAIN sq, NEW d, d = Delayed(sq, es)[n]
        PROVE  Names(d)' /\ (Timely(d)' => Newest(d)' \/ Beside(d)')
    <3>1. Alike(d, sq[n]) /\ (~ d.late => ~ sq[n].late /\ ~ Belated(sq[n], f))
      BY <2>2, <2>5
    <3> QED BY <1>7, <1>8, <2>3, <3>1
  <2> QED BY <2>1, <2>4, <2>5
<1>10. \A k \in DOMAIN chan : /\ Alike(Delayed(chan, es)[k], chan[k])
                              /\ ~ Delayed(chan, es)[k].late => ~ chan[k].late /\ ~ Belated(chan[k], f)
  BY <1>3, DelayedIs
<1>11. DOMAIN chan' = DOMAIN chan
  BY <1>1, <1>3, DelayedIs
<1>12. ASSUME NEW k \in DOMAIN chan
       PROVE  Names(chan[k])' /\ (Timely(chan[k])' => Newest(chan[k])' \/ Beside(chan[k])' \/ Behind(k)')
  <2>1. PICK d : d = chan'[k]
    OBVIOUS
  <2>2. Alike(d, chan[k]) /\ (~ d.late => ~ chan[k].late /\ ~ Belated(chan[k], f))
    BY <1>1, <1>10, <2>1
  <2>3. Names(chan[k]) /\ (Timely(chan[k]) => Newest(chan[k]) \/ Beside(chan[k]) \/ Behind(k))
    BY DEF Streamed
  <2>4. Behind(k) => Behind(k)'
    <3>1. \A n \in DOMAIN chan : Belated(chan[k], chan[n]) => Belated(chan'[k], chan'[n])
      BY <1>1, <1>10 DEF Alike, Belated
    <3> QED BY <1>11, <3>1 DEF Behind
  <2>5. Names(d)' /\ (Timely(d)' => Newest(d)' \/ Beside(d)' \/ Behind(k)')
    BY <1>7, <1>8, <2>2, <2>3, <2>4
  <2> QED BY <2>1, <2>5 DEF Names, Timely, Newest, Beside
<1>13. ~ conn' => chan' = <<>>
  <2> SUFFICES ASSUME ~ conn' PROVE chan' = <<>>
    OBVIOUS
  <2>1. chan = <<>>
    BY DEF Streamed
  <2>2. DOMAIN chan' = DOMAIN <<>> /\ chan' \in Seq(Event)
    BY <1>1, <1>3, <2>1, DelayedIs
  <2> QED BY <2>2
<1>14. \A o \in unsent' : OfOneSession(o) /\ \A n \in DOMAIN o :
         Names(o[n])' /\ (Timely(o[n])' => Newest(o[n])' \/ Beside(o[n])')
  BY <1>1, <1>9
<1>15. \A k \in DOMAIN chan' :
         Names(chan[k])' /\ (Timely(chan[k])' => Newest(chan[k])' \/ Beside(chan[k])' \/ Behind(k)')
  BY <1>11, <1>12
<1> QED BY <1>13, <1>14, <1>15 DEF Streamed

(* The events of a session that is still there are all published. *)
LEMMA PublishedWhole ==
    ASSUME Streamed, NEW sq \in unsent, NEW n \in DOMAIN sq, sq[n].session \notin gone
    PROVE  Published(sq) = sq
<1>1. \A m \in DOMAIN sq : sq[m].session = sq[n].session
  BY DEF Streamed, OfOneSession
<1> QED BY <1>1 DEF Published, Heard

LEMMA PublishedFrom ==
    ASSUME TInv, NEW sq \in unsent, NEW n \in DOMAIN Published(sq)
    PROVE  \E m \in DOMAIN sq : Published(sq)[n] = sq[m]
<1>1. sq \in Seq(Event)
  BY DEF TInv, TypeOK
<1>2. CASE \A m \in DOMAIN sq : Heard(sq[m])
  BY <1>2 DEF Published
<1>3. CASE \E m \in DOMAIN sq : ~ Heard(sq[m])
  <2>1. Len(sq) \in DOMAIN sq
    BY <1>1, <1>3
  <2>2. Published(sq) = <<sq[Len(sq)]>>
    BY <1>3 DEF Published
  <2> QED BY <2>1, <2>2
<1> QED BY <1>2, <1>3

(* No event overtakes itself. *)
LEMMA NotItself == ASSUME NEW e \in Event, Names(e), TInv PROVE ~ Belated(e, e)
<1> SUFFICES ASSUME Belated(e, e) PROVE FALSE
  OBVIOUS
<1>1. e.kind = "queued" /\ e.task < e.task
  BY DEF Belated, Ending
<1>2. e.task \in Nat
  BY <1>1, RowType DEF Names, Of, TaskIds
<1> QED BY <1>1, <1>2

LEMMA StreamPublish ==
    ASSUME TInv, Streamed, NEW sq \in unsent, Publish(sq)
    PROVE  Streamed'
<1> DEFINE told == Published(sq)
           es == {told[n] : n \in DOMAIN told}
<1>1. /\ unsent' = {Delayed(o, es) : o \in unsent \ {sq}}
      /\ chan' = IF conn THEN chan \o told ELSE chan
      /\ UNCHANGED <<gone, conn, tasks>>
  BY DEF Publish, window, server
<1>2. told \in Seq(Event) /\ chan \in Seq(Event) /\ \A o \in unsent : o \in Seq(Event)
  BY PublishedType DEF TInv, TypeOK
<1>3. \A n \in DOMAIN sq : sq[n].session \notin gone => told = sq
  BY PublishedWhole
<1>4. \A n \in DOMAIN told : \E m \in DOMAIN sq : told[n] = sq[m]
  BY PublishedFrom
<1>5. \A o \in unsent : OfOneSession(o) /\ \A n \in DOMAIN o :
        Names(o[n]) /\ (Timely(o[n]) => Newest(o[n]) \/ Beside(o[n]))
  BY DEF Streamed
<1> HIDE DEF told
<1>6. \A e : /\ Names(e)' = Names(e) /\ Timely(e)' = Timely(e) /\ Newest(e)' = Newest(e)
  BY <1>1 DEF Names, Of, Timely, Newest, Latest, InFlight
<1>7. ASSUME NEW o \in unsent \ {sq}
      PROVE  /\ Delayed(o, es) \in unsent' /\ DOMAIN Delayed(o, es) = DOMAIN o
             /\ \A n \in DOMAIN o :
                  /\ Alike(Delayed(o, es)[n], o[n])
                  /\ ~ Delayed(o, es)[n].late => ~ o[n].late /\ \A e \in es : ~ Belated(o[n], e)
  <2> HIDE DEF es
  <2> QED BY <1>1, <1>2, DelayedIs
<1> HIDE DEF es
<1>8. ASSUME NEW e, Beside(e), e.session \notin gone
      PROVE  \/ Beside(e)'
             \/ told = sq /\ \E m \in DOMAIN sq : Belated(e, sq[m])
  <2>1. PICK o \in unsent : \E m \in DOMAIN o : Belated(e, o[m])
    BY <1>8 DEF Beside
  <2>2. PICK m \in DOMAIN o : Belated(e, o[m])
    BY <2>1
  <2>3. CASE o = sq
    <3>1. sq[m].session = e.session
      BY <2>2, <2>3 DEF Belated
    <3> QED BY <1>3, <1>8, <2>2, <2>3, <3>1
  <2>4. CASE o # sq
    <3>1. /\ Delayed(o, es) \in unsent' /\ m \in DOMAIN Delayed(o, es)
          /\ Alike(Delayed(o, es)[m], o[m])
      BY <1>7, <2>2, <2>4
    <3>2. Belated(e, Delayed(o, es)[m])
      BY <2>2, <3>1 DEF Alike, Belated
    <3> QED BY <3>1, <3>2 DEF Beside
  <2> QED BY <2>3, <2>4
<1>9. ASSUME NEW o \in unsent \ {sq}, NEW p, p = Delayed(o, es)
      PROVE  /\ OfOneSession(p)
             /\ \A n \in DOMAIN p : Names(p[n])' /\ (Timely(p[n])' => Newest(p[n])' \/ Beside(p[n])')
  <2>1. OfOneSession(p)
    BY <1>5, <1>7, <1>9 DEF OfOneSession, Alike
  <2>2. ASSUME NEW n \in DOMAIN o, NEW d, d = p[n]
        PROVE  Names(d)' /\ (Timely(d)' => Newest(d)' \/ Beside(d)')
    <3>1. Alike(d, o[n]) /\ (~ d.late => ~ o[n].late /\ \A e \in es : ~ Belated(o[n], e))
      BY <1>7, <1>9, <2>2
    <3>2. Names(o[n]) /\ (Timely(o[n]) => Newest(o[n]) \/ Beside(o[n]))
      BY <1>5
    <3>3. Names(d)'
      BY <1>6, <3>1, <3>2 DEF Alike, Names
    <3>4. ASSUME Timely(d)' PROVE Newest(d)' \/ Beside(d)'
      <4>1. Timely(o[n]) /\ \A e \in es : ~ Belated(o[n], e)
        BY <1>6, <3>1, <3>4 DEF Timely, Alike
      <4>2. CASE Newest(o[n])
        BY <1>6, <3>1, <4>2 DEF Newest, Alike
      <4>3. CASE Beside(o[n])
        <5>1. ~ (told = sq /\ \E m \in DOMAIN sq : Belated(o[n], sq[m]))
          BY <4>1 DEF es
        <5>2. PICK e : e = o[n]
          OBVIOUS
        <5>3. Beside(e)'
          BY <1>8, <4>1, <4>3, <5>1, <5>2 DEF Timely
        <5>4. \A g : Belated(e, g) => Belated(d, g)
          BY <3>1, <5>2 DEF Alike, Belated
        <5> QED BY <5>3, <5>4 DEF Beside
      <4> QED BY <3>2, <4>1, <4>2, <4>3
    <3> QED BY <3>3, <3>4
  <2>3. DOMAIN p = DOMAIN o
    BY <1>7, <1>9
  <2> QED BY <2>1, <2>2, <2>3
<1>10. \A o \in unsent' : OfOneSession(o) /\ \A n \in DOMAIN o :
         Names(o[n])' /\ (Timely(o[n])' => Newest(o[n])' \/ Beside(o[n])')
  BY <1>1, <1>9
<1>11. CASE ~ conn
  <2>1. chan' = <<>> /\ ~ conn'
    BY <1>1, <1>11 DEF Streamed
  <2> QED BY <1>10, <2>1 DEF Streamed
<1>12. CASE conn
  <2>1. chan' = chan \o told /\ conn'
    BY <1>1, <1>12
  <2>2. /\ Len(chan') = Len(chan) + Len(told) /\ DOMAIN chan' = 1..Len(chan')
        /\ Len(chan) \in Nat /\ Len(told) \in Nat
        /\ DOMAIN chan = 1..Len(chan) /\ DOMAIN told = 1..Len(told)
        /\ \A k \in 1..Len(chan) : chan'[k] = chan[k]
        /\ \A n \in 1..Len(told) : chan'[Len(chan) + n] = told[n]
    BY <1>2, <2>1
  <2>3. ASSUME NEW k \in 1..Len(chan), NEW e, e = chan[k]
        PROVE  Names(e)' /\ (Timely(e)' => Newest(e)' \/ Beside(e)' \/ Behind(k)')
    <3>1. Names(e) /\ (Timely(e) => Newest(e) \/ Beside(e) \/ Behind(k))
      BY <2>2, <2>3 DEF Streamed
    <3>2. Behind(k) => Behind(k)'
      BY <2>2 DEF Behind
    <3>3. ASSUME told = sq, NEW m \in DOMAIN sq, Belated(e, sq[m])
          PROVE  Behind(k)'
      <4>1. Len(chan) + m \in DOMAIN chan' /\ chan'[Len(chan) + m] = sq[m] /\ Len(chan) + m > k
        BY <2>2, <3>3
      <4>2. chan'[k] = e
        BY <2>2, <2>3
      <4> QED BY <3>3, <4>1, <4>2 DEF Behind
    <3>4. Timely(e) => e.session \notin gone
      BY DEF Timely
    <3> QED BY <1>6, <1>8, <3>1, <3>2, <3>3, <3>4
  <2>4. ASSUME NEW n \in 1..Len(told), NEW e, e = told[n], NEW k, k = Len(chan) + n
        PROVE  Names(e)' /\ (Timely(e)' => Newest(e)' \/ Beside(e)' \/ Behind(k)')
    <3>1. PICK m \in DOMAIN sq : e = sq[m]
      BY <1>4, <2>2, <2>4
    <3>2. Names(e) /\ (Timely(e) => Newest(e) \/ Beside(e))
      BY <1>5, <3>1
    <3>3. ASSUME Timely(e), Beside(e) PROVE Beside(e)' \/ Behind(k)'
      <4>1. e.session \notin gone /\ e.kind = "queued" /\ told = sq
        BY <1>3, <3>1, <3>3 DEF Timely
      <4>2. e = sq[n] /\ n = 1
        BY <1>5, <2>2, <2>4, <4>1 DEF OfOneSession
      <4>3. ASSUME NEW i \in DOMAIN sq, Belated(e, sq[i]) PROVE Behind(k)'
        <5>1. e \in Event
          BY <1>2, <2>2, <2>4
        <5>2. i # n
          BY <3>2, <4>2, <4>3, <5>1, NotItself
        <5>3. Len(chan) + i \in DOMAIN chan' /\ chan'[Len(chan) + i] = sq[i] /\ Len(chan) + i > k
          BY <2>2, <2>4, <4>1, <4>2, <5>2
        <5>4. chan'[k] = e
          BY <2>2, <2>4
        <5> QED BY <4>3, <5>3, <5>4 DEF Behind
      <4> QED BY <1>8, <3>3, <4>1, <4>3
    <3> QED BY <1>6, <3>2, <3>3
  <2>5. ASSUME NEW k \in DOMAIN chan'
        PROVE  Names(chan[k])' /\ (Timely(chan[k])' => Newest(chan[k])' \/ Beside(chan[k])' \/ Behind(k)')
    <3>1. PICK e : e = chan'[k]
      OBVIOUS
    <3>2. CASE k \in 1..Len(chan)
      <4>1. Names(e)' /\ (Timely(e)' => Newest(e)' \/ Beside(e)' \/ Behind(k)')
        BY <2>2, <2>3, <3>1, <3>2
      <4> QED BY <3>1, <4>1 DEF Names, Timely, Newest, Beside
    <3>3. CASE k \notin 1..Len(chan)
      <4>1. PICK n : n = k - Len(chan)
        OBVIOUS
      <4>2. n \in 1..Len(told) /\ k = Len(chan) + n
        BY <2>2, <2>5, <3>3, <4>1
      <4>3. e = told[n]
        BY <2>2, <3>1, <4>2
      <4>4. Names(e)' /\ (Timely(e)' => Newest(e)' \/ Beside(e)' \/ Behind(k)')
        BY <2>4, <4>2, <4>3
      <4> QED BY <3>1, <4>4 DEF Names, Timely, Newest, Beside
    <3> QED BY <3>2, <3>3
  <2> QED BY <1>10, <2>1, <2>5 DEF Streamed
<1> QED BY <1>11, <1>12

LEMMA StreamDeliver ==
    ASSUME TInv, Streamed, chan # <<>>, chan' = Tail(chan), UNCHANGED <<tasks, unsent, gone, conn>>
    PROVE  Streamed'
<1>1. \A e : /\ Names(e)' = Names(e) /\ Timely(e)' = Timely(e) /\ Newest(e)' = Newest(e)
             /\ Beside(e)' = Beside(e)
  BY DEF Names, Of, Timely, Newest, Latest, InFlight, Beside
<1>2. chan \in Seq(Event) /\ conn'
  BY DEF TInv, TypeOK, Streamed
<1>3. /\ DOMAIN chan' = 1..(Len(chan) - 1) /\ DOMAIN chan = 1..Len(chan) /\ Len(chan) \in Nat
      /\ \A k \in DOMAIN chan' : k + 1 \in DOMAIN chan /\ chan'[k] = chan[k + 1]
  BY <1>2
<1>4. ASSUME NEW k \in DOMAIN chan'
      PROVE  Names(chan[k])' /\ (Timely(chan[k])' => Newest(chan[k])' \/ Beside(chan[k])' \/ Behind(k)')
  <2>1. PICK e : e = chan'[k]
    OBVIOUS
  <2>2. k + 1 \in DOMAIN chan /\ e = chan[k + 1]
    BY <1>3, <2>1
  <2>3. Names(e) /\ (Timely(e) => Newest(e) \/ Beside(e) \/ Behind(k + 1))
    BY <2>2 DEF Streamed
  <2>4. ASSUME Behind(k + 1) PROVE Behind(k)'
    <3>1. PICK n \in DOMAIN chan : n > k + 1 /\ Belated(e, chan[n])
      BY <2>2, <2>4 DEF Behind
    <3>2. n - 1 \in DOMAIN chan' /\ n - 1 > k /\ chan'[n - 1] = chan[n]
      BY <1>3, <3>1
    <3> QED BY <2>1, <3>1, <3>2 DEF Behind
  <2>5. Names(e)' /\ (Timely(e)' => Newest(e)' \/ Beside(e)' \/ Behind(k)')
    BY <1>1, <2>3, <2>4
  <2> QED BY <2>1, <2>5 DEF Names, Timely, Newest, Beside
<1>5. \A sq \in unsent : OfOneSession(sq) /\ \A n \in DOMAIN sq :
        Names(sq[n])' /\ (Timely(sq[n])' => Newest(sq[n])' \/ Beside(sq[n])')
  BY <1>1 DEF Streamed
<1> QED BY <1>2, <1>4, <1>5 DEF Streamed

LEMMA StreamCut ==
    ASSUME Streamed, chan' = <<>>, UNCHANGED <<tasks, unsent, gone>>
    PROVE  Streamed'
<1>1. \A e : /\ Names(e)' = Names(e) /\ Timely(e)' = Timely(e) /\ Newest(e)' = Newest(e)
             /\ Beside(e)' = Beside(e)
  BY DEF Names, Of, Timely, Newest, Latest, InFlight, Beside
<1>2. \A sq \in unsent : OfOneSession(sq) /\ \A n \in DOMAIN sq :
        Names(sq[n])' /\ (Timely(sq[n])' => Newest(sq[n])' \/ Beside(sq[n])')
  BY <1>1 DEF Streamed
<1> QED BY <1>2 DEF Streamed

----------------------------------------------------------------------------
(* The entries *)

(* Nothing happens to session s but what its entry can bear. *)
Bears(s) ==
    /\ Latest(s)' = Latest(s)
    /\ s \in gone => s \in gone'
    /\ News(s) => News(s)' \/ s \in gone'
    /\ \/ s \in lapse'
       \/ /\ s \in lapse => s \in lapse'
          /\ Waits(s) => Waits(s)'
          /\ Cancels(s) => Cancels(s)'

LEMMA GoodSame ==
    ASSUME Grown, NEW s \in Sessions, Good(s), pend'[s] = pend[s], Bears(s)
    PROVE  Good(s)'
<1>1. EntryNames(s)' /\ Blank(s)'
  BY OfKept DEF Good, EntryNames, Blank
<1>2. DraftHeld(s)' /\ SnapRight(s)'
  BY DEF Good, DraftHeld, SnapRight, Bears
<1>3. PillRight(s)'
  BY DEF Good, PillRight, Excused, Bears
<1> QED BY <1>1, <1>2, <1>3 DEF Good

(* The task of a session change, and it is told. *)
LEMMA GoodTold ==
    ASSUME Grown, NEW s \in Sessions, Good(s), pend'[s] = pend[s],
           News(s)' \/ s \in gone', s \in lapse => s \in lapse', Waits(s) => Waits(s)'
    PROVE  Good(s)'
<1>1. EntryNames(s)' /\ Blank(s)'
  BY OfKept DEF Good, EntryNames, Blank
<1>2. DraftHeld(s)' /\ SnapRight(s)'
  BY DEF Good, DraftHeld, SnapRight
<1>3. PillRight(s)'
  BY DEF Good, PillRight, Excused
<1> QED BY <1>1, <1>2, <1>3 DEF Good

LEMMA GoodFetching ==
    ASSUME TInv, Grown, NEW s \in Sessions, Good(s), pend'[s] = Fetching(pend[s]),
           s \in lapse => s \in lapse', Waits(s) => Waits(s)'
    PROVE  Good(s)'
<1>1. pend[s] \in Entry /\ None \notin TaskIds
  BY IdsAssumption DEF TInv, TypeOK, TaskIds
<1>2. /\ pend'[s].val = pend[s].val /\ pend'[s].has = pend[s].has
      /\ pend'[s].fetch = "sent" /\ pend'[s].snap = None
  BY <1>1 DEF Fetching, Entry
<1>3. EntryNames(s)' /\ Blank(s)'
  BY <1>1, <1>2, OfKept DEF Good, EntryNames, Blank
<1>4. DraftHeld(s)' /\ SnapRight(s)'
  BY <1>2 DEF Good, DraftHeld, SnapRight
<1>5. PillRight(s)'
  BY <1>2 DEF PillRight, Excused
<1> QED BY <1>3, <1>4, <1>5 DEF Good

LEMMA OvertakenIs ==
    ASSUME NEW e \in Entry
    PROVE  LET f == Overtaken(e) IN
             /\ f.has = e.has /\ f.val = e.val /\ f.invalid = e.invalid
             /\ f.fetch = e.fetch /\ f.snap = e.snap
             /\ f.fetch = "read" => f.over
BY DEF Overtaken, Entry

LEMMA PutIs ==
    ASSUME NEW e \in Entry, NEW v \in Shown
    PROVE  LET f == Put(e, v) IN
             /\ f.has /\ f.val = v /\ ~ f.invalid
             /\ f.fetch = e.fetch /\ f.snap = e.snap
             /\ f.fetch = "read" => f.over
<1> DEFINE g == [e EXCEPT !.has = TRUE, !.val = v, !.invalid = FALSE]
<1>1. g \in Entry /\ g.has /\ g.val = v /\ ~ g.invalid /\ g.fetch = e.fetch /\ g.snap = e.snap
  BY DEF Entry
<1> HIDE DEF g
<1>2. /\ Overtaken(g).has = g.has /\ Overtaken(g).val = g.val /\ Overtaken(g).invalid = g.invalid
      /\ Overtaken(g).fetch = g.fetch /\ Overtaken(g).snap = g.snap
      /\ Overtaken(g).fetch = "read" => Overtaken(g).over
  BY <1>1, OvertakenIs
<1>3. Put(e, v) = Overtaken(g)
  BY DEF Put, g
<1> QED BY <1>1, <1>2, <1>3

LEMMA InvalidateIs ==
    ASSUME NEW e \in Entry, NEW s
    PROVE  LET f == Invalidate(e, s) IN
             /\ f.has = e.has /\ f.val = e.val
             /\ f.has => f.invalid
             /\ s = active => (f.invalid => f.fetch # "none")
             /\ f.snap = e.snap \/ f.snap = None
             /\ f.fetch = "read" => f.over
<1>1. CASE s = active /\ (e.has \/ e.fetch = "none")
  <2>1. Invalidate(e, s) = Fetching([e EXCEPT !.invalid = TRUE])
    BY <1>1 DEF Invalidate
  <2> QED BY <1>1, <2>1 DEF Fetching, Entry
<1>2. CASE ~ (s = active /\ (e.has \/ e.fetch = "none"))
  <2> DEFINE g == [e EXCEPT !.invalid = e.has]
  <2>1. Invalidate(e, s) = Overtaken(g)
    BY <1>2 DEF Invalidate
  <2>2. g \in Entry /\ g.has = e.has /\ g.val = e.val /\ g.invalid = e.has /\ g.fetch = e.fetch
        /\ g.snap = e.snap
    BY DEF Entry
  <2> HIDE DEF g
  <2>3. /\ Overtaken(g).has = g.has /\ Overtaken(g).val = g.val /\ Overtaken(g).invalid = g.invalid
        /\ Overtaken(g).fetch = g.fetch /\ Overtaken(g).snap = g.snap
        /\ Overtaken(g).fetch = "read" => Overtaken(g).over
    BY <2>2, OvertakenIs
  <2> QED BY <1>2, <2>1, <2>2, <2>3
<1> QED BY <1>1, <1>2

(* The loss of news is on record. *)
LEMMA GoodLost ==
    ASSUME TInv, Grown, NEW s \in Sessions, Good(s), pend'[s] = Overtaken(pend[s]), s \in lapse'
    PROVE  Good(s)'
<1>1. pend[s] \in Entry
  BY DEF TInv, TypeOK
<1>2. /\ pend'[s].has = pend[s].has /\ pend'[s].val = pend[s].val
      /\ pend'[s].snap = pend[s].snap
      /\ pend'[s].fetch = "read" => pend'[s].over
  BY <1>1, OvertakenIs
<1>3. EntryNames(s)' /\ Blank(s)'
  BY <1>2, OfKept DEF Good, EntryNames, Blank
<1>4. DraftHeld(s)' /\ SnapRight(s)'
  BY <1>2 DEF DraftHeld, SnapRight
<1>5. PillRight(s)'
  BY DEF PillRight, Excused
<1> QED BY <1>3, <1>4, <1>5 DEF Good

LEMMA GoodPut ==
    ASSUME TInv, Grown, NEW s \in Sessions, Good(s), NEW v \in Shown, pend'[s] = Put(pend[s], v),
           v \in TaskIds => Of(v, s)', v = Draft => s \in lapse' \/ Waits(s)',
           \/ v = Latest(s)' \/ s \in gone' \/ s \in lapse' \/ pend[s].fetch # "none"
           \/ News(s)' \/ Waits(s)' \/ Cancels(s)'
    PROVE  Good(s)'
<1>1. pend[s] \in Entry
  BY DEF TInv, TypeOK
<1>2. /\ pend'[s].has /\ pend'[s].val = v
      /\ pend'[s].fetch = pend[s].fetch /\ pend'[s].snap = pend[s].snap
      /\ pend'[s].fetch = "read" => pend'[s].over
  BY <1>1, PutIs
<1>3. EntryNames(s)' /\ Blank(s)'
  BY <1>2, OfKept DEF Good, EntryNames, Blank
<1>4. DraftHeld(s)' /\ SnapRight(s)'
  BY <1>2 DEF DraftHeld, SnapRight
<1>5. PillRight(s)'
  BY <1>2 DEF PillRight, Excused
<1> QED BY <1>3, <1>4, <1>5 DEF Good

(* An invalidation, of the entry or of what an event has made of it. *)
LEMMA GoodInvalidated ==
    ASSUME NEW s \in Sessions, NEW e \in Entry, pend'[s] = Invalidate(e, s),
           e.val \in TaskIds => Of(e.val, s)', e.snap \in TaskIds => Of(e.snap, s)',
           ~ e.has => e.val = None, e.val = Draft => s \in lapse' \/ Waits(s)'
    PROVE  Good(s)'
<1>1. /\ pend'[s].has = e.has /\ pend'[s].val = e.val
      /\ pend'[s].has => pend'[s].invalid
      /\ pend'[s].snap = e.snap \/ pend'[s].snap = None
      /\ pend'[s].fetch = "read" => pend'[s].over
  BY InvalidateIs
<1>2. None \notin TaskIds
  BY IdsAssumption DEF TaskIds
<1>3. EntryNames(s)' /\ Blank(s)'
  BY <1>1, <1>2 DEF EntryNames, Blank
<1>4. DraftHeld(s)' /\ SnapRight(s)'
  BY <1>1 DEF DraftHeld, SnapRight
<1>5. PillRight(s)'
  BY <1>1 DEF PillRight, Excused
<1> QED BY <1>3, <1>4, <1>5 DEF Good

LEMMA GoodEmpty ==
    ASSUME NEW s \in Sessions, pend'[s] = NoEntry \/ pend'[s] = Fetching(NoEntry)
    PROVE  Good(s)'
<1>1. None \notin TaskIds /\ None # Draft
  BY IdsAssumption DEF TaskIds
<1>2. ~ pend'[s].has /\ pend'[s].val = None /\ pend'[s].snap = None /\ pend'[s].fetch # "read"
  <2>1. ~ NoEntry.has /\ NoEntry.val = None /\ NoEntry.snap = None /\ NoEntry.fetch # "read"
    BY DEF NoEntry
  <2>2. /\ Fetching(NoEntry).has = NoEntry.has /\ Fetching(NoEntry).val = NoEntry.val
        /\ Fetching(NoEntry).snap = None /\ Fetching(NoEntry).fetch = "sent"
    BY NoEntryType DEF Fetching, Entry
  <2> QED BY <2>1, <2>2
<1>3. EntryNames(s)' /\ Blank(s)'
  BY <1>1, <1>2 DEF EntryNames, Blank
<1>4. DraftHeld(s)' /\ SnapRight(s)'
  BY <1>1, <1>2 DEF DraftHeld, SnapRight
<1>5. PillRight(s)'
  BY <1>2 DEF PillRight
<1> QED BY <1>3, <1>4, <1>5 DEF Good

(* The server and the stream are as they were. *)
Still == UNCHANGED <<tasks, chan, unsent, gone>>

LEMMA StillIs ==
    ASSUME Still
    PROVE  /\ Grown
           /\ \A s : /\ Latest(s)' = Latest(s) /\ News(s)' = News(s) /\ InFlight(s)' = InFlight(s)
                     /\ s \in gone => s \in gone'
           /\ \A t, s : Of(t, s)' = Of(t, s)
BY DEF Still, Grown, Latest, InFlight, News, Of

(* Those who wait go on waiting. *)
LEMMA WaitsOn ==
    ASSUME \A c \in Calls : Awaiting(c) => Awaiting(c)' /\ call'[c].session = call[c].session
    PROVE  \A s : Waits(s) => Waits(s)'
BY DEF Waits

LEMMA StillBears ==
    ASSUME Still, NEW s, s \in lapse => s \in lapse', Waits(s) => Waits(s)', stops \subseteq stops'
    PROVE  Bears(s)
BY StillIs DEF Bears, Cancels

----------------------------------------------------------------------------
(* The steps of the window *)

(* Steps that write no entry and end no wait. *)
LEMMA HeldSame ==
    ASSUME TInv, Held, Still, pend' = pend, active' \in {active, None}, lapse \subseteq lapse',
           stops \subseteq stops',
           \A c \in Calls :
               /\ Awaiting(c) => Awaiting(c)' /\ call'[c].session = call[c].session
               /\ call'[c].stage = "stored" => call'[c] = call[c]
    PROVE  Held'
<1>1. \A s : Waits(s) => Waits(s)'
  BY WaitsOn
<1>2. ASSUME NEW s \in Sessions PROVE Good(s)'
  BY <1>1, StillIs, StillBears, GoodSame DEF Held
<1>3. CallNames'
  BY StillIs DEF Held, CallNames
<1>4. Fresh'
  BY DEF Held, Fresh, Still
<1> QED BY <1>2, <1>3, <1>4 DEF Held

LEMMA SendHolds ==
    ASSUME TInv, Held, NEW c \in Calls, Send(c)
    PROVE  Held'
<1>1. /\ Still /\ UNCHANGED <<active, lapse, stops>> /\ active \in Sessions
      /\ pend' = [pend EXCEPT ![active] = Put(@, Draft)]
      /\ call[c] = Idle
      /\ call' = [call EXCEPT ![c] = [stage |-> "sent", kind |-> "send", agent |-> agent,
                    session |-> active, task |-> None, astray |-> crossed]]
  BY DEF Send, Still, Free, window, net, server, history, TInv, TypeOK
<1>2. pend \in [Sessions -> Entry] /\ call \in [Calls -> Frame] /\ Draft \in Shown
  BY DEF TInv, TypeOK, Shown
<1>3. call'[c].stage = "sent" /\ call'[c].session = active /\ \A d \in Calls \ {c} : call'[d] = call[d]
  BY <1>1, <1>2
<1>4. \A d \in Calls : Awaiting(d) => Awaiting(d)' /\ call'[d].session = call[d].session
  BY <1>1, <1>3 DEF Awaiting, Idle
<1>5. \A s : Waits(s) => Waits(s)'
  BY <1>4, WaitsOn
<1>6. ASSUME NEW s \in Sessions PROVE Good(s)'
  <2>1. Good(s)
    BY DEF Held
  <2>2. CASE s = active
    <3>1. pend'[s] = Put(pend[s], Draft)
      BY <1>1, <1>2, <2>2
    <3>2. Waits(s)'
      BY <1>3, <2>2 DEF Waits, Awaiting
    <3>3. Draft \notin TaskIds
      BY IdsAssumption DEF TaskIds
    <3> QED BY <1>1, <1>2, <2>1, <3>1, <3>2, <3>3, StillIs, GoodPut
  <2>3. CASE s # active
    <3>1. pend'[s] = pend[s]
      BY <1>1, <1>2, <2>3
    <3>2. Bears(s)
      BY <1>1, <1>5, StillBears
    <3> QED BY <1>1, <2>1, <3>1, <3>2, StillIs, GoodSame
  <2> QED BY <2>2, <2>3
<1>7. CallNames'
  BY <1>1, <1>3, StillIs DEF Held, CallNames
<1>8. Fresh'
  <2>1. ~ pend'[active].invalid
    BY <1>1, <1>2, PutIs
  <2> QED BY <1>1, <2>1 DEF Fresh
<1> QED BY <1>6, <1>7, <1>8 DEF Held

(* The window turns to a session. *)
LEMMA OpenedIs ==
    ASSUME NEW p \in [Sessions -> Entry], NEW a, NEW s \in Sessions
    PROVE  /\ Opened(p, a)[s] = p[s] \/ Opened(p, a)[s] = Fetching(p[s])
           /\ s = a /\ Opened(p, a)[s].invalid => Opened(p, a)[s].fetch # "none"
<1>1. CASE a \in Sessions /\ p[a].fetch = "none" /\ (~ p[a].has \/ p[a].invalid)
  <2>1. Opened(p, a) = [p EXCEPT ![a] = Fetching(p[a])]
    BY <1>1 DEF Opened
  <2>2. Fetching(p[a]).fetch = "sent"
    BY <1>1 DEF Fetching, Entry
  <2> QED BY <2>1, <2>2
<1>2. CASE ~ (a \in Sessions /\ p[a].fetch = "none" /\ (~ p[a].has \/ p[a].invalid))
  <2>1. Opened(p, a) = p
    BY <1>2 DEF Opened
  <2> QED BY <1>2, <2>1
<1> QED BY <1>1, <1>2

LEMMA OpenHolds ==
    ASSUME TInv, Held, Still, NEW a \in Sessions \cup {None}, active' = a,
           pend' = Opened(pend, a), UNCHANGED <<lapse, stops>>,
           \A c \in Calls :
               /\ Awaiting(c) => Awaiting(c)' /\ call'[c].session = call[c].session
               /\ call'[c].stage = "stored" => call'[c] = call[c]
    PROVE  Held'
<1>1. \A s : Waits(s) => Waits(s)'
  BY WaitsOn
<1>2. pend \in [Sessions -> Entry]
  BY DEF TInv, TypeOK
<1>3. ASSUME NEW s \in Sessions PROVE Good(s)'
  <2>1. Good(s) /\ (pend'[s] = pend[s] \/ pend'[s] = Fetching(pend[s]))
    BY <1>2, OpenedIs DEF Held
  <2>2. Bears(s)
    BY <1>1, StillBears
  <2> QED BY <1>1, <2>1, <2>2, StillIs, GoodSame, GoodFetching
<1>4. CallNames'
  BY StillIs DEF Held, CallNames
<1>5. Fresh'
  BY <1>2, OpenedIs DEF Fresh
<1> QED BY <1>3, <1>4, <1>5 DEF Held

LEMMA SettleHolds ==
    ASSUME TInv, Held, NEW c \in Calls, Settle(c)
    PROVE  Held'
<1> DEFINE s == call[c].session
           all == {c} \cup {d \in Calls : call[d].stage = "waiting"}
           made == call[c].stage = "made"
           send == {d \in all : made /\ call[d].kind = "send"}
<1>1. /\ Still /\ UNCHANGED <<lapse, stops>>
      /\ call' = [d \in Calls |->
                    IF d \in send THEN [call[d] EXCEPT !.stage = "sent", !.session = s]
                    ELSE IF d \in all THEN Idle ELSE call[d]]
      /\ made => /\ active' = s
                 /\ send # {} => pend' = [pend EXCEPT ![s] = Put(@, Draft)]
                 /\ send = {} => pend' = Opened(pend, s)
      /\ ~ made => UNCHANGED <<active, pend>>
      /\ call[c].stage \in {"made", "unmade"}
  BY DEF Settle, Still, net, server
<1>2. /\ pend \in [Sessions -> Entry] /\ call \in [Calls -> Frame] /\ Draft \in Shown
      /\ made => s \in Sessions
  BY DEF TInv, TypeOK, Shown, FramesFilled
<1>3. \A d \in all : ~ Awaiting(d)
  BY <1>1 DEF Awaiting
<1>4. ASSUME NEW d \in Calls
      PROVE  /\ Awaiting(d) => Awaiting(d)' /\ call'[d].session = call[d].session
             /\ call'[d].stage = "stored" => call'[d] = call[d]
             /\ d \in send => call'[d].stage = "sent" /\ call'[d].session = s
  <2>1. CASE d \in send
    <3>1. call'[d].stage = "sent" /\ call'[d].session = s
      BY <1>1, <1>2, <2>1 DEF Frame
    <3> QED BY <1>3, <2>1, <3>1
  <2>2. CASE d \notin send
    <3>1. call'[d] = IF d \in all THEN Idle ELSE call[d]
      BY <1>1, <2>2
    <3> QED BY <1>3, <2>2, <3>1 DEF Idle, Awaiting
  <2> QED BY <2>1, <2>2
<1>5. CASE ~ made
  BY <1>1, <1>4, <1>5, HeldSame
<1>6. CASE made /\ send = {}
  <2>1. PICK x \in Sessions : x = s
    BY <1>2, <1>6
  <2> QED BY <1>1, <1>4, <1>6, <2>1, OpenHolds
<1>7. CASE made /\ send # {}
  <2>1. PICK x \in Sessions : x = s
    BY <1>2, <1>7
  <2>2. active' = x /\ pend' = [pend EXCEPT ![x] = Put(@, Draft)]
    BY <1>1, <1>7, <2>1
  <2>3. Waits(x)'
    <3>1. PICK d \in Calls : d \in send
      BY <1>7
    <3> QED BY <1>4, <2>1, <3>1 DEF Waits, Awaiting
  <2>4. \A y : Waits(y) => Waits(y)'
    BY <1>4, WaitsOn
  <2> HIDE DEF s, all, made, send
  <2>5. ASSUME NEW y \in Sessions PROVE Good(y)'
    <3>1. Good(y)
      BY DEF Held
    <3>2. CASE y = x
      <4>1. pend'[y] = Put(pend[y], Draft) /\ Draft \notin TaskIds
        BY <1>2, <2>2, <3>2, IdsAssumption DEF TaskIds
      <4> QED BY <1>1, <1>2, <2>3, <3>1, <3>2, <4>1, StillIs, GoodPut
    <3>3. CASE y # x
      <4>1. pend'[y] = pend[y] /\ Bears(y)
        BY <1>1, <1>2, <2>2, <2>4, <3>3, StillBears
      <4> QED BY <1>1, <3>1, <4>1, StillIs, GoodSame
    <3> QED BY <3>2, <3>3
  <2>6. CallNames'
    <3>1. \A d \in Calls : call'[d].stage = "stored" => call'[d] = call[d]
      BY <1>4
    <3>2. CallNames
      BY DEF Held
    <3>3. \A t, y : Of(t, y)' = Of(t, y)
      BY <1>1, StillIs
    <3> QED BY <3>1, <3>2, <3>3 DEF CallNames
  <2>7. Fresh'
    <3>1. ~ pend'[x].invalid
      BY <1>2, <2>2, PutIs
    <3> QED BY <2>2, <3>1 DEF Fresh
  <2> QED BY <2>5, <2>6, <2>7 DEF Held
<1> QED BY <1>5, <1>6, <1>7

(* An answer, or its want, ends a wait. *)
LEMMA AnsweredHolds ==
    ASSUME TInv, Held, NEW c \in Calls, Answered(c)
    PROVE  Held'
<1>1. PICK s \in Sessions, t \in TaskIds : s = call[c].session /\ t = call[c].task
  BY DEF TInv, FramesFilled, Answered
<1>2. /\ Still /\ UNCHANGED <<active, stops>> /\ call[c].stage = "stored"
      /\ pend' = [pend EXCEPT ![s] = Put(@, t)]
      /\ lapse' = Blamed(s, t # Latest(s))
      /\ call' = [call EXCEPT ![c] = Idle]
  BY <1>1 DEF Answered, Still, window, net, server
<1>3. pend \in [Sessions -> Entry] /\ call \in [Calls -> Frame] /\ t \in Shown
  BY DEF TInv, TypeOK, Shown
<1>4. Of(t, s) /\ t # Draft
  BY <1>1, <1>2, IdsAssumption DEF Held, CallNames, TaskIds
<1>5. lapse \subseteq lapse' /\ (s \in lapse' \/ t = Latest(s))
  BY <1>2 DEF Blamed
<1>6. \A d \in Calls \ {c} : call'[d] = call[d]
  BY <1>2, <1>3
<1>7. call'[c] = Idle
  BY <1>2, <1>3
<1>8. \A x : x # s /\ Waits(x) => Waits(x)'
  BY <1>1, <1>6 DEF Waits, Awaiting
<1>9. ASSUME NEW x \in Sessions PROVE Good(x)'
  <2>1. Good(x)
    BY DEF Held
  <2>2. CASE x = s
    <3>1. pend'[x] = Put(pend[x], t)
      BY <1>2, <1>3, <2>2
    <3>2. Latest(x)' = Latest(x) /\ Of(t, x)' /\ Grown
      BY <1>2, <1>4, <2>2, StillIs
    <3> QED BY <1>3, <1>4, <1>5, <2>1, <2>2, <3>1, <3>2, GoodPut
  <2>3. CASE x # s
    <3>1. pend'[x] = pend[x] /\ Bears(x)
      BY <1>2, <1>3, <1>5, <1>8, <2>3, StillBears
    <3> QED BY <1>2, <2>1, <3>1, StillIs, GoodSame
  <2> QED BY <2>2, <2>3
<1>10. CallNames'
  BY <1>2, <1>6, <1>7, StillIs DEF Held, CallNames, Idle
<1>11. Fresh'
  <2>1. ~ pend'[s].invalid /\ \A x \in Sessions \ {s} : pend'[x] = pend[x]
    BY <1>2, <1>3, PutIs
  <2>2. active \in Sessions \cup {None}
    BY DEF TInv, TypeOK
  <2> QED BY <1>2, <2>1, <2>2 DEF Held, Fresh, Still
<1> QED BY <1>9, <1>10, <1>11 DEF Held

LEMMA RejectedHolds ==
    ASSUME TInv, Held, NEW c \in Calls, Rejected(c)
    PROVE  Held'
<1>1. PICK s : s = call[c].session
  OBVIOUS
<1>2. /\ Still /\ UNCHANGED <<active, stops, pend>> /\ lapse' = lapse \cup {s}
      /\ call' = [call EXCEPT ![c] = Idle]
  BY <1>1 DEF Rejected, Still, window, net, server, Blamed
<1>3. call'[c] = Idle /\ \A d \in Calls \ {c} : call'[d] = call[d]
  BY <1>2 DEF TInv, TypeOK
<1>4. \A x : x # s /\ Waits(x) => Waits(x)'
  BY <1>1, <1>3 DEF Waits, Awaiting
<1>5. ASSUME NEW x \in Sessions PROVE Good(x)'
  <2>1. Bears(x)
    BY <1>2, <1>4, StillIs DEF Bears, Cancels
  <2> QED BY <1>2, <2>1, StillIs, GoodSame DEF Held
<1>6. CallNames'
  BY <1>2, <1>3, StillIs DEF Held, CallNames, Idle
<1> QED BY <1>2, <1>5, <1>6 DEF Held, Fresh, Still

LEMMA StopHolds == TInv /\ Held /\ Stop => Held'
<1> SUFFICES ASSUME TInv, Held, Stop PROVE Held'
  OBVIOUS
<1>1. PICK s \in Sessions : s = active
  BY DEF TInv, TypeOK, Stop, Running
<1>2. /\ Still /\ UNCHANGED <<active, lapse, call>>
      /\ stops' = stops \cup Cancelled(pend[s].val)
      /\ pend' = [pend EXCEPT ![s] = Put(@, None)]
      /\ pend[s].val # None
  BY <1>1 DEF Stop, Running, Still, window, net, server, history
<1>3. pend \in [Sessions -> Entry] /\ None \in Shown
  BY DEF TInv, TypeOK, Shown
<1>4. (\A x : Waits(x)' = Waits(x)) /\ stops \subseteq stops'
  BY <1>2 DEF Waits, Awaiting
<1>5. Good(s) /\ None \notin TaskIds /\ None # Draft
  BY IdsAssumption DEF Held, TaskIds
<1>6. \/ s \in gone' \/ s \in lapse' \/ pend[s].fetch # "none"
      \/ News(s)' \/ Waits(s)' \/ Cancels(s)'
  <2>1. CASE pend[s].val = Draft
    BY <1>2, <1>4, <1>5, <2>1 DEF Good, DraftHeld
  <2>2. CASE pend[s].val # Draft
    <3>1. pend[s].val \in TaskIds /\ pend[s].has
      BY <1>2, <1>3, <1>5, <2>2 DEF Good, Blank, Entry, Shown
    <3>2. CASE pend[s].val = Latest(s)
      <4>1. pend[s].val \in InFlight(s) /\ pend[s].val \in stops'
        BY <1>2, <2>2, <3>2, LatestIs DEF Cancelled
      <4>2. InFlight(s)' = InFlight(s)
        BY <1>2, StillIs
      <4> QED BY <4>1, <4>2 DEF Cancels
    <3>3. CASE Excused(s)
      <4>1. pend[s].invalid => s \in gone \/ pend[s].fetch # "none"
        BY <1>1, <1>2, IdsAssumption DEF Held, Fresh
      <4>2. Cancels(s) => Cancels(s)'
        BY <1>2, <1>4, StillIs DEF Cancels
      <4>3. News(s)' = News(s) /\ gone' = gone
        BY <1>2, StillIs DEF Still
      <4> QED BY <1>2, <1>4, <3>3, <4>1, <4>2, <4>3 DEF Excused
    <3> QED BY <1>5, <3>1, <3>2, <3>3 DEF Good, PillRight
  <2> QED BY <2>1, <2>2
<1>7. ASSUME NEW x \in Sessions PROVE Good(x)'
  <2>1. Good(x)
    BY DEF Held
  <2>2. CASE x = s
    <3>1. pend'[x] = Put(pend[x], None)
      BY <1>2, <1>3, <2>2
    <3> QED BY <1>2, <1>3, <1>5, <1>6, <2>1, <2>2, <3>1, StillIs, GoodPut
  <2>3. CASE x # s
    <3>1. pend'[x] = pend[x] /\ Bears(x)
      BY <1>2, <1>3, <1>4, <2>3, StillBears
    <3> QED BY <1>2, <2>1, <3>1, StillIs, GoodSame
  <2> QED BY <2>2, <2>3
<1>8. CallNames'
  BY <1>2, StillIs DEF Held, CallNames
<1>9. Fresh'
  <2>1. ~ pend'[s].invalid
    BY <1>2, <1>3, PutIs
  <2> QED BY <1>1, <1>2, <2>1 DEF Fresh
<1> QED BY <1>7, <1>8, <1>9 DEF Held

LEMMA TurnHolds ==
    ASSUME TInv, Held,
           \/ (\E a \in Agents : SelectAgent(a)) \/ NewChat
           \/ \E s \in Sessions : SelectSession(s) \/ Delete(s)
    PROVE  Held'
<1>1. Still /\ UNCHANGED <<lapse, stops, call>>
  BY DEF SelectAgent, NewChat, SelectSession, Delete, Still, net, server
<1>2. \/ pend' = pend /\ active' = active
      \/ \E a \in Sessions \cup {None} : active' = a /\ pend' = Opened(pend, a)
  BY DEF SelectAgent, NewChat, SelectSession, Delete, Pick, Open
<1>3. \A c \in Calls : /\ Awaiting(c) => Awaiting(c)' /\ call'[c].session = call[c].session
                       /\ call'[c].stage = "stored" => call'[c] = call[c]
  BY <1>1 DEF Awaiting
<1> QED BY <1>1, <1>2, <1>3, HeldSame, OpenHolds

LEMMA ReloadHolds == TInv /\ Held /\ Reload => Held'
<1> SUFFICES ASSUME TInv, Held, Reload PROVE Held'
  OBVIOUS
<1> DEFINE p == [s \in Sessions |-> NoEntry]
<1>1. /\ pend' = Opened(p, active) /\ active' = active /\ gone' = gone
      /\ call' = [c \in Calls |-> Idle]
  BY DEF Reload, server
<1>2. p \in [Sessions -> Entry] /\ \A s \in Sessions : p[s] = NoEntry
  BY NoEntryType
<1> HIDE DEF p
<1>3. ASSUME NEW s \in Sessions PROVE Good(s)'
  <2>1. pend'[s] = p[s] \/ pend'[s] = Fetching(p[s])
    BY <1>1, <1>2, OpenedIs
  <2> QED BY <1>2, <2>1, GoodEmpty
<1>4. CallNames'
  BY <1>1 DEF CallNames, Idle
<1>5. Fresh'
  <2> SUFFICES ASSUME active \in Sessions, pend'[active].invalid PROVE pend'[active].fetch # "none"
    BY <1>1 DEF Fresh, TInv, TypeOK
  <2> QED BY <1>1, <1>2, OpenedIs
<1> QED BY <1>3, <1>4, <1>5 DEF Held

----------------------------------------------------------------------------
(* Fetches *)

LEMMA ReadHolds ==
    ASSUME TInv, AInv, Held, NEW s \in Sessions, Read(s)
    PROVE  Held'
<1>1. /\ Still /\ UNCHANGED <<active, lapse, stops, call>>
      /\ pend[s].fetch = "sent"
      /\ pend' = [pend EXCEPT ![s] = IF Alive(s) THEN [@ EXCEPT !.fetch = "read", !.snap = Latest(s)]
                                     ELSE [Rested(@) EXCEPT !.invalid = pend[s].has]]
  BY DEF Read, Still, window, net, server, history
<1>2. pend \in [Sessions -> Entry] /\ pend[s] \in Entry /\ None \notin TaskIds
  BY IdsAssumption DEF TInv, TypeOK, TaskIds
<1>3. \A x : Waits(x)' = Waits(x)
  BY <1>1 DEF Waits, Awaiting
<1>4. \A x \in Sessions \ {s} : pend'[x] = pend[x]
  BY <1>1, <1>2
<1>5. Good(s) /\ EntryNames(s) /\ Blank(s) /\ DraftHeld(s)
  BY DEF Held, Good
<1>6. pend'[s].val = pend[s].val /\ pend'[s].has = pend[s].has
  BY <1>1, <1>2 DEF Rested, Entry
<1>7. CASE Alive(s)
  <2>1. pend'[s].fetch = "read" /\ pend'[s].snap = Latest(s) /\ pend'[s].invalid = pend[s].invalid
    BY <1>1, <1>2, <1>7 DEF Entry
  <2>2. EntryNames(s)'
    BY <1>1, <1>5, <1>6, <2>1, LatestIs, StillIs DEF EntryNames
  <2>3. Blank(s)' /\ DraftHeld(s)'
    BY <1>1, <1>3, <1>5, <1>6 DEF Blank, DraftHeld
  <2>4. SnapRight(s)' /\ PillRight(s)'
    BY <1>1, <2>1, StillIs DEF SnapRight, PillRight, Excused
  <2>5. Good(s)'
    BY <2>2, <2>3, <2>4 DEF Good
  <2>6. active = s => (pend'[s].invalid => pend'[s].fetch # "none")
    BY <2>1
  <2> QED BY <1>1, <1>3, <1>4, <2>5, <2>6, StillIs, StillBears, GoodSame
          DEF Held, CallNames, Fresh, Still, TInv, TypeOK
<1>8. CASE ~ Alive(s)
  <2>1. pend'[s].fetch = "none" /\ pend'[s].snap = None /\ pend'[s].invalid = pend[s].has
    BY <1>1, <1>2, <1>8 DEF Rested, Entry
  <2>2. EntryNames(s)'
    BY <1>1, <1>2, <1>5, <1>6, <2>1, StillIs DEF EntryNames
  <2>3. Blank(s)' /\ DraftHeld(s)'
    BY <1>1, <1>3, <1>5, <1>6 DEF Blank, DraftHeld
  <2>4. SnapRight(s)' /\ PillRight(s)'
    BY <1>6, <2>1 DEF SnapRight, PillRight, Excused
  <2>5. Good(s)'
    BY <2>2, <2>3, <2>4 DEF Good
  <2>6. active = s => s \in gone
    BY <1>8, IdsAssumption DEF Alive, AInv, Known
  <2> QED BY <1>1, <1>3, <1>4, <2>5, <2>6, StillIs, StillBears, GoodSame
          DEF Held, CallNames, Fresh, Still, TInv, TypeOK
<1> QED BY <1>7, <1>8

LEMMA LandHolds ==
    ASSUME TInv, Held, NEW s \in Sessions, Land(s)
    PROVE  Held'
<1>1. PICK v : v = pend[s].snap
  OBVIOUS
<1>2. /\ Still /\ UNCHANGED <<active, stops, call>>
      /\ pend[s].fetch = "read"
      /\ pend' = [pend EXCEPT ![s] = Rested(Put(pend[s], v))]
      /\ lapse' = IF pend[s].over THEN lapse \cup {s} ELSE lapse \ {s}
  BY <1>1 DEF Land, Still, window, net, server
<1>3. pend \in [Sessions -> Entry] /\ pend[s] \in Entry /\ v \in TaskIds \cup {None} /\ v \in Shown
  BY <1>1 DEF TInv, TypeOK, Entry, Shown
<1>4. \A x : Waits(x)' = Waits(x)
  BY <1>2 DEF Waits, Awaiting
<1>5. \A x \in Sessions \ {s} : pend'[x] = pend[x] /\ (x \in lapse => x \in lapse')
  BY <1>2, <1>3
<1>6. Good(s) /\ None \notin TaskIds /\ Draft \notin TaskIds \cup {None}
  BY IdsAssumption DEF Held, TaskIds
<1>7. /\ pend'[s].has /\ pend'[s].val = v /\ ~ pend'[s].invalid
      /\ pend'[s].fetch = "none" /\ pend'[s].snap = None
  <2>1. Put(pend[s], v) \in Entry /\ Put(pend[s], v).has /\ Put(pend[s], v).val = v
        /\ ~ Put(pend[s], v).invalid
    BY <1>3, PutIs, EntryOps
  <2>2. pend'[s] = Rested(Put(pend[s], v))
    BY <1>2, <1>3
  <2> QED BY <2>1, <2>2 DEF Rested, Entry
<1>8. EntryNames(s)'
  BY <1>1, <1>2, <1>6, <1>7, StillIs DEF Good, EntryNames
<1>9. Blank(s)' /\ DraftHeld(s)' /\ SnapRight(s)'
  BY <1>3, <1>6, <1>7 DEF Blank, DraftHeld, SnapRight
<1>10. PillRight(s)'
  <2>1. CASE pend[s].over
    BY <1>2, <2>1 DEF PillRight, Excused
  <2>2. CASE ~ pend[s].over
    <3>1. v = Latest(s) \/ News(s) \/ s \in gone
      BY <1>1, <1>2, <1>6, <2>2 DEF Good, SnapRight
    <3> QED BY <1>2, <1>7, <3>1, StillIs DEF PillRight, Excused
  <2> QED BY <2>1, <2>2
<1>11. Good(s)'
  BY <1>8, <1>9, <1>10 DEF Good
<1> QED BY <1>2, <1>4, <1>5, <1>7, <1>11, StillIs, StillBears, GoodSame
        DEF Held, CallNames, Fresh, Still, TInv, TypeOK

LEMMA CollectHolds ==
    ASSUME TInv, Held, NEW s \in Sessions, Collect(s)
    PROVE  Held'
<1>1. /\ Still /\ UNCHANGED <<active, stops, call>> /\ s # active
      /\ pend' = [pend EXCEPT ![s] = NoEntry] /\ lapse' = lapse \ {s}
  BY DEF Collect, Still, window, net, server
<1>2. /\ pend'[s] = NoEntry
      /\ \A x \in Sessions \ {s} : pend'[x] = pend[x] /\ (x \in lapse => x \in lapse')
  BY <1>1 DEF TInv, TypeOK
<1>3. \A x : Waits(x)' = Waits(x)
  BY <1>1 DEF Waits, Awaiting
<1>4. Good(s)'
  BY <1>2, GoodEmpty
<1> QED BY <1>1, <1>2, <1>3, <1>4, StillIs, StillBears, GoodSame
        DEF Held, CallNames, Fresh, Still, TInv, TypeOK

----------------------------------------------------------------------------
(* The table of tasks *)

LEMMA Stored ==
    ASSUME TInv, NEW s \in Sessions, tasks' = Enqueued(s), NEW n, n = Len(tasks) + 1
    PROVE  /\ Grown /\ Of(n, s)' /\ n \in InFlight(s)'
           /\ \A u \in DOMAIN tasks : u \in Nat /\ u < n
           /\ InFlight(s)' = InFlight(s) \cup {n}
           /\ \A x : x # s => InFlight(x)' = InFlight(x)
<1>1. tasks \in Seq(Task) /\ Len(tasks) \in Nat /\ DOMAIN tasks = 1..Len(tasks)
  BY DEF TInv, TypeOK
<1>2. /\ DOMAIN tasks' = 1..n /\ tasks'[n] = [session |-> s, live |-> TRUE]
      /\ \A u \in 1..Len(tasks) : tasks'[u] = tasks[u]
  BY <1>1 DEF Enqueued, Task
<1>3. Grown /\ Of(n, s)' /\ n \in InFlight(s)' /\ \A u \in DOMAIN tasks : u \in Nat /\ u < n
  BY <1>1, <1>2 DEF Grown, Of, InFlight
<1>4. InFlight(s)' = InFlight(s) \cup {n} /\ \A x : x # s => InFlight(x)' = InFlight(x)
  BY <1>1, <1>2 DEF InFlight
<1> QED BY <1>3, <1>4

LEMMA EndedIs ==
    ASSUME TInv, NEW t \in DOMAIN tasks, tasks' = Ended(tasks, t)
    PROVE  /\ Grown /\ \A x : InFlight(x)' = InFlight(x) \ {t}
           /\ \A x : x # tasks[t].session => InFlight(x)' = InFlight(x)
<1>1. tasks \in Seq(Task) /\ DOMAIN tasks = 1..Len(tasks)
  BY DEF TInv, TypeOK
<1>2. /\ DOMAIN tasks' = DOMAIN tasks
      /\ \A u \in DOMAIN tasks : tasks'[u] = IF u = t THEN [tasks[t] EXCEPT !.live = FALSE] ELSE tasks[u]
  BY DEF Ended
<1>3. /\ \A u \in DOMAIN tasks : tasks'[u].session = tasks[u].session
      /\ \A u \in DOMAIN tasks : u # t => tasks'[u].live = tasks[u].live
      /\ ~ tasks'[t].live
  <2>1. tasks[t] \in Task
    BY RowType
  <2>2. [tasks[t] EXCEPT !.live = FALSE].session = tasks[t].session /\ ~ [tasks[t] EXCEPT !.live = FALSE].live
    BY <2>1 DEF Task
  <2> QED BY <1>2, <2>2
<1>4. Grown
  BY <1>2, <1>3 DEF Grown
<1>5. \A x : InFlight(x)' = InFlight(x) \ {t}
  BY <1>2, <1>3 DEF InFlight
<1>6. \A x : x # tasks[t].session => t \notin InFlight(x)
  BY DEF InFlight
<1> QED BY <1>4, <1>5, <1>6

LEMMA RetriedIs ==
    ASSUME TInv, NEW t \in DOMAIN tasks, NEW s, s = tasks[t].session,
           tasks' = Ended(Enqueued(s), t), NEW n, n = Len(tasks) + 1
    PROVE  /\ Grown /\ Of(n, s)' /\ n \in InFlight(s)'
           /\ \A u \in DOMAIN tasks : u \in Nat /\ u < n
           /\ InFlight(s)' = (InFlight(s) \ {t}) \cup {n}
           /\ \A x : x # s => InFlight(x)' = InFlight(x)
<1>1. /\ tasks \in Seq(Task) /\ Len(tasks) \in Nat /\ DOMAIN tasks = 1..Len(tasks)
      /\ s \in Sessions /\ t \in 1..Len(tasks)
  BY RowType DEF TInv, TypeOK
<1> DEFINE ts == Enqueued(s)
<1>2. /\ DOMAIN ts = 1..n /\ ts[n] = [session |-> s, live |-> TRUE]
      /\ \A u \in 1..Len(tasks) : ts[u] = tasks[u]
  BY <1>1 DEF Enqueued, Task
<1> HIDE DEF ts
<1>3. /\ DOMAIN tasks' = 1..n
      /\ \A u \in 1..n : tasks'[u] = IF u = t THEN [ts[t] EXCEPT !.live = FALSE] ELSE ts[u]
  BY <1>2 DEF Ended, ts
<1>4. /\ \A u \in 1..Len(tasks) : tasks'[u].session = tasks[u].session
      /\ \A u \in 1..Len(tasks) : u # t => tasks'[u].live = tasks[u].live
      /\ ~ tasks'[t].live
      /\ tasks'[n].session = s /\ tasks'[n].live
      /\ n \in Nat /\ n # t /\ 1..n = (1..Len(tasks)) \cup {n}
  <2>1. tasks[t] \in Task /\ ts[t] = tasks[t]
    BY <1>1, <1>2, RowType
  <2>2. [ts[t] EXCEPT !.live = FALSE].session = tasks[t].session /\ ~ [ts[t] EXCEPT !.live = FALSE].live
    BY <2>1 DEF Task
  <2>3. n \in Nat /\ n # t /\ 1..n = (1..Len(tasks)) \cup {n} /\ n \notin 1..Len(tasks)
    BY <1>1
  <2>4. ts[n].session = s /\ ts[n].live
    BY <1>2
  <2>5. \A u \in 1..Len(tasks) : u # t => tasks'[u] = tasks[u]
    BY <1>2, <1>3, <2>3
  <2>6. tasks'[t] = [ts[t] EXCEPT !.live = FALSE] /\ tasks'[n] = ts[n]
    BY <1>1, <1>3, <2>3
  <2> QED BY <2>2, <2>3, <2>4, <2>5, <2>6
<1>5. Grown /\ Of(n, s)' /\ n \in InFlight(s)' /\ \A u \in DOMAIN tasks : u \in Nat /\ u < n
  BY <1>1, <1>3, <1>4 DEF Grown, Of, InFlight
<1>6. InFlight(s)' = (InFlight(s) \ {t}) \cup {n}
  BY <1>1, <1>3, <1>4 DEF InFlight
<1>7. ASSUME NEW x, x # s PROVE InFlight(x)' = InFlight(x)
  BY <1>1, <1>3, <1>4, <1>7 DEF InFlight
<1> QED BY <1>5, <1>6, <1>7

LEMMA RemovedIs ==
    ASSUME TInv, NEW s \in Sessions, Removed(s)
    PROVE  /\ Grown /\ \A x : x # s => InFlight(x)' = InFlight(x)
           /\ s \in gone' /\ gone \subseteq gone'
<1>1. /\ DOMAIN tasks' = DOMAIN tasks
      /\ \A u \in DOMAIN tasks : tasks'[u] = IF tasks[u].session = s THEN [tasks[u] EXCEPT !.live = FALSE]
                                             ELSE tasks[u]
  BY DEF Removed
<1>2. \A u \in DOMAIN tasks : tasks[u] \in Task
  BY RowType
<1>3. /\ \A u \in DOMAIN tasks : tasks'[u].session = tasks[u].session
      /\ \A u \in DOMAIN tasks : tasks[u].session # s => tasks'[u].live = tasks[u].live
  BY <1>1, <1>2 DEF Task
<1>4. Grown
  BY <1>1, <1>3 DEF Grown
<1>5. ASSUME NEW x, x # s PROVE InFlight(x)' = InFlight(x)
  BY <1>1, <1>3, <1>5 DEF InFlight
<1> QED BY <1>4, <1>5 DEF Removed

----------------------------------------------------------------------------
(* The server's commits *)

LEMMA HeldCommits ==
    ASSUME TInv, Held, Grown, NEW s, NEW sq, NEW n \in DOMAIN sq, sq[n].session = s,
           UNCHANGED <<pend, active, lapse, chan>>, gone \subseteq gone',
           unsent' = unsent \cup {sq},
           \A x : x # s => InFlight(x)' = InFlight(x),
           \A x : x # s /\ Cancels(x) => Cancels(x)',
           \A c \in Calls :
               /\ Awaiting(c) => Awaiting(c)' /\ call'[c].session = call[c].session
               /\ call'[c].stage = "stored" =>
                    call'[c] = call[c] \/ Of(call[c].task, call[c].session)'
    PROVE  Held'
<1>1. \A x : Waits(x) => Waits(x)'
  BY WaitsOn
<1>2. News(s)' /\ \A x : News(x) => News(x)'
  BY DEF News
<1>3. ASSUME NEW x \in Sessions PROVE Good(x)'
  <2>1. Good(x) /\ pend'[x] = pend[x]
    BY DEF Held
  <2>2. CASE x = s
    BY <1>1, <1>2, <2>1, <2>2, GoodTold
  <2>3. CASE x # s
    <3>1. Latest(x)' = Latest(x)
      BY <2>3, LatestSame
    <3>2. Bears(x)
      BY <1>1, <1>2, <2>3, <3>1 DEF Bears
    <3> QED BY <2>1, <3>2, GoodSame
  <2> QED BY <2>2, <2>3
<1>4. ASSUME NEW c \in Calls, call'[c].stage = "stored" PROVE Of(call[c].task, call[c].session)'
  <2>1. CASE call'[c] = call[c]
    <3>1. PICK t, x : t = call[c].task /\ x = call[c].session
      OBVIOUS
    <3>2. Of(t, x)
      BY <1>4, <2>1, <3>1 DEF Held, CallNames
    <3>3. Of(t, x)'
      BY <3>2, OfKept
    <3> QED BY <2>1, <3>1, <3>3 DEF Of
  <2> QED BY <1>4, <2>1
<1>5. CallNames'
  BY <1>4 DEF CallNames
<1>6. Fresh'
  BY DEF Held, Fresh
<1> QED BY <1>3, <1>5, <1>6 DEF Held

LEMMA StoreKeeps ==
    ASSUME TInv, TInv', PInv, NEW c \in Calls, Store(c)
    PROVE  PInv'
<1>1. PICK s \in Sessions, n \in Nat : s = call[c].session /\ n = Len(tasks) + 1
  BY DEF TInv, TypeOK, FramesFilled, Store
<1> DEFINE sq == <<About("queued", s, n), About("message", s, n)>>
<1>2. /\ tasks' = Enqueued(s) /\ unsent' = unsent \cup {sq}
      /\ call' = [call EXCEPT ![c] = [@ EXCEPT !.stage = "stored", !.task = n]]
      /\ UNCHANGED <<pend, active, lapse, chan, conn, gone, stops>>
  BY <1>1 DEF Store, window, history
<1>3. /\ Grown /\ Of(n, s)' /\ n \in InFlight(s)'
      /\ \A u \in DOMAIN tasks : u \in Nat /\ u < n
      /\ InFlight(s)' = InFlight(s) \cup {n}
      /\ \A x : x # s => InFlight(x)' = InFlight(x)
  BY <1>1, <1>2, Stored
<1>4. DOMAIN sq = {1, 2} /\ sq[1] = About("queued", s, n) /\ sq[2] = About("message", s, n)
  OBVIOUS
<1>5. /\ \A m \in DOMAIN sq : sq[m].session = s /\ sq[m].task = n
      /\ sq[1].kind = "queued" /\ sq[2].kind = "message"
  BY <1>4 DEF About
<1> HIDE DEF sq
<1>6. Latest(s)' = n
  <2>1. \A u \in InFlight(s)' : u <= n
    <3>1. n \in Nat
      BY <1>1 DEF TInv, TypeOK
    <3> QED BY <1>3, <3>1 DEF InFlight
  <2> QED BY <1>3, <2>1, LatestNew
<1>7. Streamed'
  <2>1. OfOneSession(sq)
    BY <1>4, <1>5 DEF OfOneSession
  <2>2. \A m \in DOMAIN sq : /\ sq[m].session = s /\ Names(sq[m])'
                             /\ sq[m].kind = "queued" => sq[m].task = Latest(s)'
    BY <1>3, <1>5, <1>6 DEF Names
  <2>3. \A t : Of(t, s) => \E m \in DOMAIN sq : sq[m].kind = "queued" /\ t < sq[m].task
    BY <1>3, <1>4, <1>5 DEF Of
  <2>4. \A x : x # s => Latest(x)' = Latest(x)
    BY <1>3, LatestSame
  <2> QED BY <1>2, <1>3, <2>1, <2>2, <2>3, <2>4, StreamCommits DEF PInv
<1>8. /\ call'[c].stage = "stored" /\ call'[c].session = s /\ call'[c].task = n
      /\ \A d \in Calls \ {c} : call'[d] = call[d]
  <2>1. call \in [Calls -> Frame] /\ call[c] \in Frame
    BY DEF TInv, TypeOK
  <2> QED BY <1>1, <1>2, <2>1 DEF Frame
<1>9. Held'
  <2>1. \A d \in Calls :
          /\ Awaiting(d) => Awaiting(d)' /\ call'[d].session = call[d].session
          /\ call'[d].stage = "stored" => call'[d] = call[d] \/ Of(call[d].task, call[d].session)'
    <3>1. Of(call[c].task, call[c].session)'
      BY <1>3, <1>8 DEF Of
    <3>2. Awaiting(c)' /\ call'[c].session = call[c].session
      BY <1>1, <1>8 DEF Awaiting
    <3>3. \A d \in Calls \ {c} : Awaiting(d)' = Awaiting(d)
      BY <1>8 DEF Awaiting
    <3> QED BY <1>8, <3>1, <3>2, <3>3
  <2>2. \A x : x # s /\ Cancels(x) => Cancels(x)'
    BY <1>2, <1>3 DEF Cancels
  <2>3. 1 \in DOMAIN sq /\ sq[1].session = s
    BY <1>4, <1>5
  <2> QED BY <1>2, <1>3, <2>1, <2>2, <2>3, HeldCommits DEF PInv
<1> QED BY <1>7, <1>9 DEF PInv

(* A task ends, and a single event says so. *)
LEMMA EndKeeps ==
    ASSUME TInv, TInv', PInv, NEW t \in DOMAIN tasks, NEW s, s = tasks[t].session,
           NEW k \in Ending, tasks' = Ended(tasks, t),
           unsent' = unsent \cup {<<About(k, s, t)>>}, stops' = stops \/ stops' = stops \ {t},
           UNCHANGED <<pend, active, lapse, chan, conn, gone, call>>
    PROVE  PInv'
<1> DEFINE sq == <<About(k, s, t)>>
<1>1. /\ Grown /\ \A x : InFlight(x)' = InFlight(x) \ {t}
      /\ \A x : x # s => InFlight(x)' = InFlight(x)
  BY EndedIs
<1>2. DOMAIN sq = {1} /\ sq[1].kind = k /\ sq[1].session = s /\ sq[1].task = t
  BY DEF About
<1>3. unsent' = unsent \cup {sq}
  OBVIOUS
<1> HIDE DEF sq
<1>4. k # "queued"
  BY DEF Ending
<1>5. Of(t, s)'
  BY <1>1 DEF Grown, Of
<1>6. Streamed'
  <2>1. OfOneSession(sq)
    BY <1>2 DEF OfOneSession
  <2>2. \A n \in DOMAIN sq : /\ sq[n].session = s /\ Names(sq[n])'
                             /\ sq[n].kind = "queued" => sq[n].task = Latest(s)'
    BY <1>2, <1>4, <1>5 DEF Names
  <2>3. \A u : u = Latest(s) => u = Latest(s)' \/ \E n \in DOMAIN sq : sq[n].kind \in Ending /\ sq[n].task = u
    <3>1. t # Latest(s) => Latest(s)' = Latest(s)
      BY <1>1, LatestLeft
    <3> QED BY <1>2, <3>1
  <2>4. \A x : x # s => Latest(x)' = Latest(x)
    BY <1>1, LatestSame
  <2> QED BY <1>1, <1>3, <2>1, <2>2, <2>3, <2>4, StreamCommits DEF PInv
<1>7. Held'
  <2>1. \A c \in Calls :
          /\ Awaiting(c) => Awaiting(c)' /\ call'[c].session = call[c].session
          /\ call'[c].stage = "stored" => call'[c] = call[c] \/ Of(call[c].task, call[c].session)'
    BY DEF Awaiting
  <2>2. \A x : x # s /\ Cancels(x) => Cancels(x)'
    BY <1>1 DEF Cancels, InFlight
  <2> QED BY <1>1, <1>2, <1>3, <2>1, <2>2, HeldCommits DEF PInv
<1> QED BY <1>6, <1>7 DEF PInv

LEMMA FinishKeeps ==
    ASSUME TInv, TInv', PInv, NEW t \in DOMAIN tasks, NEW k \in {"done", "cancelled"}, Finish(t, k)
    PROVE  PInv'
<1>1. PICK s : s = tasks[t].session
  OBVIOUS
<1>2. k \in Ending /\ tasks' = Ended(tasks, t) /\ unsent' = unsent \cup {<<About(k, s, t)>>}
      /\ UNCHANGED <<pend, active, lapse, chan, conn, gone, call, stops>>
  BY <1>1 DEF Finish, Ending, window, history
<1> QED BY <1>1, <1>2, EndKeeps

LEMMA StopServedKeeps ==
    ASSUME TInv, TInv', PInv, NEW t \in stops, StopServed(t)
    PROVE  PInv'
<1>1. UNCHANGED <<pend, active, lapse, chan, conn, gone, call>> /\ stops' = stops \ {t}
  BY DEF StopServed, window, history
<1>2. CASE Live(t)
  <2>1. PICK s : s = tasks[t].session
    OBVIOUS
  <2>2. /\ t \in DOMAIN tasks /\ "cancelled" \in Ending /\ tasks' = Ended(tasks, t)
        /\ unsent' = unsent \cup {<<About("cancelled", s, t)>>}
    BY <1>2, <2>1 DEF StopServed, Live, Ending
  <2> QED BY <1>1, <2>1, <2>2, EndKeeps
<1>3. CASE ~ Live(t)
  <2>1. Still
    BY <1>1, <1>3 DEF StopServed, Still
  <2>2. \A x : t \notin InFlight(x)
    BY <1>3 DEF InFlight, Live
  <2>3. \A x : Waits(x)' = Waits(x)
    BY <1>1 DEF Waits, Awaiting
  <2>4. \A x : Bears(x)
    BY <1>1, <2>1, <2>2, <2>3, StillIs DEF Bears, Cancels
  <2>5. \A x \in Sessions : Good(x)'
    BY <1>1, <2>1, <2>4, StillIs, GoodSame DEF PInv, Held
  <2>6. CallNames' /\ Fresh'
    BY <1>1, <2>1, StillIs DEF PInv, Held, CallNames, Fresh
  <2> QED BY <1>1, <2>1, <2>5, <2>6, StreamSame DEF PInv, Held, Still
<1> QED BY <1>2, <1>3

LEMMA StopLostKeeps ==
    ASSUME TInv, PInv, NEW t \in stops, StopLost(t)
    PROVE  PInv'
<1>1. /\ Still /\ UNCHANGED <<pend, active, conn, call>> /\ stops' = stops \ {t}
      /\ lapse' = Blamed(tasks[t].session, Live(t))
  BY DEF StopLost, Still, window, net, server
<1>2. \A x : Waits(x)' = Waits(x)
  BY <1>1 DEF Waits, Awaiting
<1>3. \A x : Bears(x)
  BY <1>1, <1>2, StillIs DEF Bears, Cancels, Blamed, InFlight, Live
<1>4. \A x \in Sessions : Good(x)'
  BY <1>1, <1>3, StillIs, GoodSame DEF PInv, Held
<1>5. CallNames' /\ Fresh'
  BY <1>1, StillIs DEF PInv, Held, CallNames, Fresh, Still
<1> QED BY <1>1, <1>4, <1>5, StreamSame DEF PInv, Held, Still

LEMMA RemovedKeeps ==
    ASSUME TInv, TInv', PInv, NEW s \in Sessions, Removed(s),
           UNCHANGED <<pend, active, lapse, call, stops>>
    PROVE  PInv'
<1> DEFINE sq == <<About("deleted", s, None)>>
<1>1. /\ Grown /\ \A x : x # s => InFlight(x)' = InFlight(x)
      /\ s \in gone' /\ gone \subseteq gone'
  BY RemovedIs
<1>2. unsent' = unsent \cup {sq} /\ UNCHANGED <<chan, conn>>
  BY DEF Removed
<1>3. DOMAIN sq = {1} /\ sq[1].kind = "deleted" /\ sq[1].session = s
  BY DEF About
<1> HIDE DEF sq
<1>4. Streamed'
  <2>1. OfOneSession(sq)
    BY <1>3 DEF OfOneSession
  <2>2. \A n \in DOMAIN sq : /\ sq[n].session = s /\ Names(sq[n])'
                             /\ sq[n].kind = "queued" => sq[n].task = Latest(s)'
    BY <1>3 DEF Names
  <2>3. \A x : x # s => Latest(x)' = Latest(x)
    BY <1>1, LatestSame
  <2> QED BY <1>1, <1>2, <2>1, <2>2, <2>3, StreamCommits DEF PInv
<1>5. Held'
  <2>1. \A c \in Calls :
          /\ Awaiting(c) => Awaiting(c)' /\ call'[c].session = call[c].session
          /\ call'[c].stage = "stored" => call'[c] = call[c] \/ Of(call[c].task, call[c].session)'
    BY DEF Awaiting
  <2>2. \A x : x # s /\ Cancels(x) => Cancels(x)'
    BY <1>1 DEF Cancels
  <2> QED BY <1>1, <1>2, <1>3, <2>1, <2>2, HeldCommits DEF PInv
<1> QED BY <1>4, <1>5 DEF PInv

LEMMA FailKeeps ==
    ASSUME TInv, TInv', PInv, NEW t \in DOMAIN tasks, Fail(t)
    PROVE  PInv'
<1>1. PICK s, n : s = tasks[t].session /\ n = Len(tasks) + 1
  OBVIOUS
<1> DEFINE child(r) == IF r THEN <<About("queued", s, n)>> ELSE <<>>
           told(r, w) == IF w THEN child(r) ELSE Append(child(r), About("failed", s, t))
<1>2. PICK r \in BOOLEAN, w \in BOOLEAN :
        /\ tasks' = Ended(IF r THEN Enqueued(s) ELSE tasks, t)
        /\ IF told(r, w) = <<>> THEN Unheard(s, t)
           ELSE unsent' = unsent \cup {told(r, w)} /\ UNCHANGED <<chan, lapse, pend>>
  BY <1>1 DEF Fail
<1>3. UNCHANGED <<active, conn, gone, call, stops>>
  BY DEF Fail, window
<1>4. \A c \in Calls :
        /\ Awaiting(c) => Awaiting(c)' /\ call'[c].session = call[c].session
        /\ call'[c].stage = "stored" => call'[c] = call[c] \/ Of(call[c].task, call[c].session)'
  BY <1>3 DEF Awaiting
<1>5. s \in Sessions /\ n \in Nat
  BY <1>1, RowType
<1>6. CASE r
  <2>1. /\ Grown /\ Of(n, s)' /\ n \in InFlight(s)'
        /\ \A u \in DOMAIN tasks : u \in Nat /\ u < n
        /\ InFlight(s)' = (InFlight(s) \ {t}) \cup {n}
        /\ \A x : x # s => InFlight(x)' = InFlight(x)
    BY <1>1, <1>2, <1>6, RetriedIs
  <2>2. Latest(s)' = n
    <3>1. \A u \in InFlight(s)' : u <= n
      BY <1>5, <2>1 DEF InFlight
    <3> QED BY <2>1, <3>1, LatestNew
  <2>3. PICK sq : sq = told(r, w)
    OBVIOUS
  <2>4. /\ 1 \in DOMAIN sq /\ sq[1].kind = "queued" /\ sq[1].task = n
        /\ \A m \in DOMAIN sq : /\ sq[m].session = s
                                /\ sq[m].kind = "queued" => m = 1
                                /\ m = 1 \/ sq[m].task = t
        /\ sq # <<>>
    <3>1. CASE w
      <4>1. sq = <<About("queued", s, n)>>
        BY <1>6, <2>3, <3>1
      <4> QED BY <4>1 DEF About
    <3>2. CASE ~ w
      <4>1. PICK a, b : a = About("queued", s, n) /\ b = About("failed", s, t)
        OBVIOUS
      <4>2. PICK l : l = <<a>>
        OBVIOUS
      <4>3. child(r) = l
        BY <1>6, <4>1, <4>2
      <4>4. told(r, w) = Append(child(r), b)
        BY <3>2, <4>1
      <4>5. sq = Append(l, b)
        BY <2>3, <4>3, <4>4
      <4>6. DOMAIN sq = {1, 2} /\ sq[1] = a /\ sq[2] = b /\ sq # <<>>
        BY <4>2, <4>5
      <4>7. /\ a.kind = "queued" /\ a.task = n /\ a.session = s
            /\ b.kind # "queued" /\ b.task = t /\ b.session = s
        BY <4>1 DEF About
      <4> HIDE DEF child, told
      <4> QED BY <4>6, <4>7
    <3> QED BY <3>1, <3>2
  <2>5. unsent' = unsent \cup {sq} /\ UNCHANGED <<chan, lapse, pend>>
    BY <1>2, <2>3, <2>4
  <2> HIDE DEF child, told
  <2>6. Streamed'
    <3>1. OfOneSession(sq)
      BY <2>4 DEF OfOneSession
    <3>2. Of(t, s)'
      BY <1>1, <2>1 DEF Grown, Of
    <3>3. \A m \in DOMAIN sq : /\ sq[m].session = s /\ Names(sq[m])'
                               /\ sq[m].kind = "queued" => sq[m].task = Latest(s)'
      BY <2>1, <2>2, <2>4, <3>2 DEF Names
    <3>4. \A u : Of(u, s) => \E m \in DOMAIN sq : sq[m].kind = "queued" /\ u < sq[m].task
      BY <2>1, <2>4 DEF Of
    <3>5. \A x : x # s => Latest(x)' = Latest(x)
      BY <2>1, LatestSame
    <3> QED BY <1>3, <2>1, <2>5, <3>1, <3>3, <3>4, <3>5, StreamCommits DEF PInv
  <2>7. Held'
    <3>1. \A x : x # s /\ Cancels(x) => Cancels(x)'
      BY <1>3, <2>1 DEF Cancels
    <3> QED BY <1>3, <1>4, <2>1, <2>4, <2>5, <3>1, HeldCommits DEF PInv
  <2> QED BY <2>6, <2>7 DEF PInv
<1>7. CASE ~ r /\ ~ w
  <2>1. told(r, w) = <<About("failed", s, t)>> /\ told(r, w) # <<>>
    BY <1>7
  <2>2. /\ tasks' = Ended(tasks, t) /\ unsent' = unsent \cup {<<About("failed", s, t)>>}
        /\ UNCHANGED <<chan, lapse, pend>> /\ "failed" \in Ending
    BY <1>2, <1>7, <2>1 DEF Ending
  <2> QED BY <1>1, <1>3, <2>2, EndKeeps
<1>8. CASE ~ r /\ w
  <2>1. tasks' = Ended(tasks, t) /\ Unheard(s, t)
    BY <1>2, <1>8
  <2> HIDE DEF child, told
  <2>2. /\ Grown /\ \A x : InFlight(x)' = InFlight(x) \ {t}
        /\ \A x : x # s => InFlight(x)' = InFlight(x)
    BY <1>1, <2>1, EndedIs
  <2>3. Streamed'
    BY <1>1, <1>3, <2>1, <2>2, StreamUnheard DEF PInv, Unheard
  <2>4. /\ lapse' = lapse \cup {s} /\ pend' = [pend EXCEPT ![s] = Overtaken(@)]
        /\ pend \in [Sessions -> Entry]
    BY <2>1 DEF Unheard, Blamed, TInv, TypeOK
  <2>5. \A x : Waits(x)' = Waits(x)
    BY <1>3 DEF Waits, Awaiting
  <2>6. ASSUME NEW x, News(x) PROVE News(x)'
    <3> DEFINE es == {About("failed", s, t)}
    <3>1. unsent' = {Delayed(sq, es) : sq \in unsent} /\ chan' = Delayed(chan, es)
      BY <2>1 DEF Unheard
    <3>2. chan \in Seq(Event) /\ \A sq \in unsent : sq \in Seq(Event)
      BY DEF TInv, TypeOK
    <3> HIDE DEF es
    <3>3. \A n1 \in DOMAIN chan : n1 \in DOMAIN chan' /\ chan'[n1].session = chan[n1].session
      BY <3>1, <3>2, DelayedIs DEF Alike
    <3>4. \A sq \in unsent : /\ Delayed(sq, es) \in unsent'
                             /\ \A n1 \in DOMAIN sq : /\ n1 \in DOMAIN Delayed(sq, es)
                                                      /\ Delayed(sq, es)[n1].session = sq[n1].session
      BY <3>1, <3>2, DelayedIs DEF Alike
    <3>5. CASE \E n1 \in DOMAIN chan : chan[n1].session = x
      BY <3>3, <3>5 DEF News
    <3>6. CASE \E sq \in unsent : \E n1 \in DOMAIN sq : sq[n1].session = x
      <4>1. PICK sq \in unsent : \E n1 \in DOMAIN sq : sq[n1].session = x
        BY <3>6
      <4>2. PICK d : d = Delayed(sq, es)
        OBVIOUS
      <4>3. d \in unsent' /\ \E n1 \in DOMAIN d : d[n1].session = x
        BY <3>4, <4>1, <4>2
      <4> QED BY <4>3 DEF News
    <3> QED BY <2>6, <3>5, <3>6 DEF News
  <2>7. ASSUME NEW x \in Sessions PROVE Good(x)'
    <3>1. Good(x)
      BY DEF PInv, Held
    <3>2. CASE x = s
      BY <2>2, <2>4, <3>1, <3>2, GoodLost
    <3>3. CASE x # s
      <4>1. pend'[x] = pend[x] /\ Latest(x)' = Latest(x)
        BY <2>2, <2>4, <3>3, LatestSame
      <4>2. Cancels(x) => Cancels(x)'
        BY <1>3, <2>2, <3>3 DEF Cancels
      <4>3. Bears(x)
        BY <1>3, <2>4, <2>5, <2>6, <4>1, <4>2 DEF Bears
      <4> QED BY <2>2, <3>1, <4>1, <4>3, GoodSame
    <3> QED BY <3>2, <3>3
  <2>8. CallNames'
    <3>1. ASSUME NEW c \in Calls, call[c].stage = "stored"
          PROVE  Of(call[c].task, call[c].session)'
      <4>1. Of(call[c].task, call[c].session)
        BY <3>1 DEF PInv, Held, CallNames
      <4>2. PICK u, x : u = call[c].task /\ x = call[c].session
        OBVIOUS
      <4>3. Of(u, x)'
        BY <2>2, <4>1, <4>2, OfKept
      <4> QED BY <1>3, <4>2, <4>3 DEF Of
    <3> QED BY <1>3, <3>1 DEF CallNames, Of
  <2>9. Fresh'
    <3>1. \A x \in Sessions : pend'[x].invalid = pend[x].invalid /\ pend'[x].fetch = pend[x].fetch
      BY <2>4, OvertakenIs
    <3>2. active \in Sessions \cup {None}
      BY DEF TInv, TypeOK
    <3> QED BY <1>3, <3>1, <3>2 DEF PInv, Held, Fresh
  <2> QED BY <2>3, <2>7, <2>8, <2>9 DEF PInv, Held
<1> QED BY <1>6, <1>7, <1>8

----------------------------------------------------------------------------
(* The stream comes in *)

LEMMA LostHolds ==
    ASSUME TInv, Held, NEW es, Lost(es), UNCHANGED <<tasks, gone, active, call, stops>>,
           \A x \in Sessions : News(x) => News(x)' \/ x \in gone \/ \E e \in es : e.session = x
    PROVE  Held'
<1>1. /\ lapse' = lapse \cup {e.session : e \in es}
      /\ pend' = [x \in Sessions |-> IF \E e \in es : e.session = x THEN Overtaken(pend[x]) ELSE pend[x]]
      /\ pend \in [Sessions -> Entry]
  BY DEF Lost, TInv, TypeOK
<1>2. /\ Grown
      /\ \A x : Latest(x)' = Latest(x) /\ InFlight(x)' = InFlight(x) /\ Waits(x)' = Waits(x)
      /\ \A t, x : Of(t, x)' = Of(t, x)
  BY DEF Grown, Latest, InFlight, Waits, Awaiting, Of
<1>3. ASSUME NEW x \in Sessions PROVE Good(x)'
  <2>1. Good(x)
    BY DEF Held
  <2>2. CASE \E e \in es : e.session = x
    <3>1. pend'[x] = Overtaken(pend[x]) /\ x \in lapse'
      BY <1>1, <2>2
    <3> QED BY <1>2, <2>1, <3>1, GoodLost
  <2>3. CASE ~ \E e \in es : e.session = x
    <3>1. pend'[x] = pend[x]
      BY <1>1, <2>3
    <3>2. Bears(x)
      BY <1>1, <1>2, <2>3 DEF Bears, Cancels
    <3> QED BY <1>2, <2>1, <3>1, <3>2, GoodSame
  <2> QED BY <2>2, <2>3
<1>4. CallNames'
  BY <1>2 DEF Held, CallNames
<1>5. Fresh'
  <2>1. \A x \in Sessions : pend'[x].invalid = pend[x].invalid /\ pend'[x].fetch = pend[x].fetch
    BY <1>1, OvertakenIs
  <2>2. active \in Sessions \cup {None}
    BY DEF TInv, TypeOK
  <2> QED BY <2>1, <2>2 DEF Held, Fresh
<1> QED BY <1>3, <1>4, <1>5 DEF Held

LEMMA DropHolds == TInv /\ Held /\ Drop => Held'
<1> SUFFICES ASSUME TInv, Held, Drop PROVE Held'
  OBVIOUS
<1>1. PICK es : es = {chan[n] : n \in DOMAIN chan}
  OBVIOUS
<1>2. Lost(es) /\ UNCHANGED <<tasks, gone, active, call, stops, unsent>>
  BY <1>1 DEF Drop, window, server
<1>3. \A x \in Sessions : News(x) => News(x)' \/ x \in gone \/ \E e \in es : e.session = x
  BY <1>1, <1>2 DEF News
<1> QED BY <1>2, <1>3, LostHolds

LEMMA PublishHolds ==
    ASSUME TInv, Streamed, Held, NEW sq \in unsent, Publish(sq)
    PROVE  Held'
<1>1. PICK told : told = Published(sq)
  OBVIOUS
<1>2. PICK es : es = {told[n] : n \in DOMAIN told}
  OBVIOUS
<1>3. /\ unsent' = {Delayed(o, es) : o \in unsent \ {sq}}
      /\ chan' = IF conn THEN chan \o told ELSE chan
      /\ UNCHANGED <<gone, tasks, active, call, stops>>
      /\ IF conn THEN UNCHANGED <<pend, lapse>> ELSE Lost(es)
  BY <1>1, <1>2 DEF Publish, window, server
<1>4. /\ told \in Seq(Event) /\ chan \in Seq(Event)
      /\ \A o \in unsent : o \in Seq(Event)
  BY <1>1, PublishedType DEF TInv, TypeOK
<1>5. ASSUME NEW x, News(x), x \notin gone
      PROVE  News(x)' \/ (~ conn /\ \E e \in es : e.session = x)
  <2>1. CASE \E n \in DOMAIN chan : chan[n].session = x
    <3>1. PICK n \in DOMAIN chan : chan[n].session = x
      BY <2>1
    <3>2. n \in DOMAIN chan' /\ chan'[n] = chan[n]
      BY <1>3, <1>4
    <3> QED BY <3>1, <3>2 DEF News
  <2>2. CASE \E o \in unsent \ {sq} : \E n \in DOMAIN o : o[n].session = x
    <3>1. PICK o \in unsent \ {sq} : \E n \in DOMAIN o : o[n].session = x
      BY <2>2
    <3>2. PICK d : d = Delayed(o, es)
      OBVIOUS
    <3>3. d \in unsent' /\ DOMAIN d = DOMAIN o /\ \A n \in DOMAIN o : d[n].session = o[n].session
      BY <1>3, <1>4, <3>2, DelayedIs DEF Alike
    <3> QED BY <3>1, <3>3 DEF News
  <2>3. CASE \E n \in DOMAIN sq : sq[n].session = x
    <3>1. PICK n \in DOMAIN sq : sq[n].session = x
      BY <2>3
    <3>2. told = sq
      BY <1>1, <1>5, <3>1, PublishedWhole
    <3>3. sq[n] \in es
      BY <1>2, <3>2
    <3>4. conn => Len(chan) + n \in DOMAIN chan' /\ chan'[Len(chan) + n] = sq[n]
      BY <1>3, <1>4, <3>2
    <3> QED BY <3>1, <3>3, <3>4 DEF News
  <2> QED BY <1>5, <2>1, <2>2, <2>3 DEF News
<1>6. CASE conn
  <2>1. pend' = pend /\ lapse' = lapse
    BY <1>3, <1>6
  <2>2. /\ Grown
        /\ \A x : /\ Latest(x)' = Latest(x) /\ Waits(x)' = Waits(x)
                  /\ Cancels(x)' = Cancels(x)
        /\ \A t, x : Of(t, x)' = Of(t, x)
    BY <1>3 DEF Grown, Latest, InFlight, Waits, Cancels, Awaiting, Of
  <2>3. \A x : Bears(x)
    BY <1>3, <1>5, <1>6, <2>1, <2>2 DEF Bears
  <2>4. \A x \in Sessions : Good(x)'
    BY <2>1, <2>2, <2>3, GoodSame DEF Held
  <2>5. CallNames' /\ Fresh'
    BY <1>3, <2>1, <2>2 DEF Held, CallNames, Fresh
  <2> QED BY <2>4, <2>5 DEF Held
<1>7. CASE ~ conn
  BY <1>3, <1>5, <1>7, LostHolds
<1> QED BY <1>6, <1>7

LEMMA HandledIs ==
    ASSUME NEW e \in Event, NEW k
    PROVE  /\ e.kind = "queued" => Handled(e, k) = Put(k, e.task)
           /\ e.kind = "message" => Handled(e, k) = Invalidate(k, e.session)
           /\ e.kind \in {"done", "failed"} => Handled(e, k) = Invalidate(Put(k, None), e.session)
           /\ e.kind = "cancelled" => Handled(e, k) = Put(k, None)
           /\ e.kind = "deleted" => Handled(e, k) = NoEntry
           /\ e.kind \in {"queued", "message", "done", "failed", "cancelled", "deleted"}
<1>1. e.kind \in {"queued", "message", "done", "failed", "cancelled", "deleted"}
  BY DEF Event, Kinds, Ending
<1>2. CASE e.kind = "queued"
  BY <1>2 DEF Handled
<1>3. CASE e.kind = "message"
  BY <1>3 DEF Handled
<1>4. CASE e.kind \in {"done", "failed"}
  BY <1>4 DEF Handled
<1>5. CASE e.kind = "cancelled"
  BY <1>5 DEF Handled
<1>6. CASE e.kind = "deleted"
  BY <1>6 DEF Handled
<1> QED BY <1>1, <1>2, <1>3, <1>4, <1>5, <1>6

LEMMA DeliverHolds == TInv /\ Streamed /\ Held /\ Deliver => Held'
<1> SUFFICES ASSUME TInv, Streamed, Held, Deliver PROVE Held'
  OBVIOUS
<1>1. chan \in Seq(Event) /\ chan # <<>> /\ chan' = Tail(chan)
  BY DEF TInv, TypeOK, Deliver
<1>2. PICK e \in Event : e = Head(chan) /\ e = chan[1] /\ 1 \in DOMAIN chan
  BY <1>1
<1>3. PICK s \in Sessions : s = e.session
  BY DEF Event
<1>4. /\ pend' = [pend EXCEPT ![s] = Handled(e, pend[s])]
      /\ lapse' = Blamed(s, Blame(e)) /\ active' = Followed(e)
      /\ UNCHANGED <<tasks, gone, call, stops, unsent>>
  BY <1>2, <1>3 DEF Deliver, server
<1>5. pend \in [Sessions -> Entry] /\ pend[s] \in Entry /\ e.task \in Shown /\ None \in Shown
  BY DEF TInv, TypeOK, Event, Shown
<1>6. /\ pend'[s] = Handled(e, pend[s]) /\ \A x \in Sessions \ {s} : pend'[x] = pend[x]
      /\ lapse \subseteq lapse' /\ (Blame(e) => s \in lapse')
  BY <1>4, <1>5 DEF Blamed
<1>7. /\ Grown
      /\ \A x : /\ Latest(x)' = Latest(x) /\ InFlight(x)' = InFlight(x)
                /\ Waits(x)' = Waits(x) /\ Cancels(x)' = Cancels(x)
      /\ \A t, x : Of(t, x)' = Of(t, x)
  BY <1>4 DEF Grown, Latest, InFlight, Waits, Cancels, Awaiting, Of
<1>8. \A n \in DOMAIN chan : n # 1 => n - 1 \in DOMAIN chan' /\ chan'[n - 1] = chan[n]
  BY <1>1
<1>9. \A x : x # s /\ News(x) => News(x)'
  <2> TAKE x
  <2> HAVE x # s /\ News(x)
  <2>1. CASE \E n \in DOMAIN chan : chan[n].session = x
    <3>1. PICK n \in DOMAIN chan : chan[n].session = x
      BY <2>1
    <3>2. n # 1
      BY <1>2, <1>3, <3>1
    <3> QED BY <1>8, <3>1, <3>2 DEF News
  <2>2. CASE \E sq \in unsent : \E n \in DOMAIN sq : sq[n].session = x
    BY <1>4, <2>2 DEF News
  <2> QED BY <2>1, <2>2 DEF News
<1>10. Names(e) /\ (Timely(e) => Newest(e) \/ Beside(e) \/ Behind(1))
  BY <1>2 DEF Streamed
<1>11. Beside(e) \/ Behind(1) => News(s)'
  <2>1. ASSUME Beside(e) PROVE News(s)'
    BY <1>3, <1>4, <2>1 DEF Beside, Belated, News
  <2>2. ASSUME Behind(1) PROVE News(s)'
    <3>1. PICK n \in DOMAIN chan : n > 1 /\ chan[n].session = s
      BY <1>2, <1>3, <2>2 DEF Behind, Belated
    <3> QED BY <1>8, <3>1 DEF News
  <2> QED BY <2>1, <2>2
<1>12. Good(s) /\ None \notin TaskIds /\ Draft \notin TaskIds /\ None # Draft
  BY IdsAssumption DEF Held, TaskIds
<1>13. Good(s)'
  <2>1. CASE e.kind = "queued"
    <3>1. pend'[s] = Put(pend[s], e.task)
      BY <1>6, <2>1, HandledIs
    <3>2. Of(e.task, s)' /\ e.task # Draft
      BY <1>3, <1>7, <1>10, <1>12, <2>1, RowType DEF Names, Of
    <3>3. e.task = Latest(s)' \/ s \in gone' \/ s \in lapse' \/ News(s)'
      <4>1. e.late => s \in lapse'
        BY <1>6 DEF Blame
      <4>2. CASE Timely(e)
        BY <1>3, <1>7, <1>10, <1>11, <4>2 DEF Newest
      <4>3. CASE ~ Timely(e)
        BY <1>3, <1>4, <2>1, <4>1, <4>3 DEF Timely
      <4> QED BY <4>2, <4>3
    <3> QED BY <1>5, <1>7, <1>12, <3>1, <3>2, <3>3, GoodPut
  <2>2. CASE e.kind = "message"
    <3>1. pend'[s] = Invalidate(pend[s], s)
      BY <1>3, <1>6, <2>2, HandledIs
    <3>2. /\ pend[s].val \in TaskIds => Of(pend[s].val, s)
          /\ pend[s].snap \in TaskIds => Of(pend[s].snap, s)
          /\ ~ pend[s].has => pend[s].val = None
          /\ pend[s].val = Draft => s \in lapse' \/ Waits(s)'
      BY <1>6, <1>7, <1>12 DEF Good, EntryNames, Blank, DraftHeld
    <3>3. PICK k \in Entry : k = pend[s]
      BY <1>5
    <3>4. /\ pend'[s] = Invalidate(k, s)
          /\ k.val \in TaskIds => Of(k.val, s)' /\ (k.snap \in TaskIds => Of(k.snap, s)')
      BY <1>7, <3>1, <3>2, <3>3
    <3>5. k.snap \in TaskIds => Of(k.snap, s)'
      BY <1>7, <3>2, <3>3
    <3>6. k.val \in TaskIds => Of(k.val, s)'
      BY <1>7, <3>2, <3>3
    <3> QED BY <3>1, <3>2, <3>3, <3>5, <3>6, GoodInvalidated
  <2>3. CASE e.kind \in {"done", "failed"}
    <3>1. PICK k \in Entry : k = Put(pend[s], None)
      BY <1>5, EntryOps
    <3>2. pend'[s] = Invalidate(k, s)
      BY <1>3, <1>6, <2>3, <3>1, HandledIs
    <3>3. k.has /\ k.val = None /\ k.snap = pend[s].snap
      BY <1>5, <3>1, PutIs
    <3>4. k.snap \in TaskIds => Of(k.snap, s)'
      BY <1>7, <1>12, <3>3 DEF Good, EntryNames
    <3> QED BY <1>12, <3>2, <3>3, <3>4, GoodInvalidated
  <2>4. CASE e.kind = "cancelled"
    <3>1. pend'[s] = Put(pend[s], None)
      BY <1>6, <2>4, HandledIs
    <3>2. None = Latest(s)' \/ s \in lapse'
      BY <1>3, <1>6, <1>7, <2>4 DEF Blame
    <3> QED BY <1>5, <1>7, <1>12, <3>1, <3>2, GoodPut
  <2>5. CASE e.kind = "deleted"
    <3>1. pend'[s] = NoEntry
      BY <1>6, <2>5, HandledIs
    <3> QED BY <3>1, GoodEmpty
  <2> QED BY <2>1, <2>2, <2>3, <2>4, <2>5, HandledIs
<1>14. ASSUME NEW x \in Sessions, x # s PROVE Good(x)'
  <2>1. Bears(x)
    BY <1>4, <1>6, <1>7, <1>9, <1>14 DEF Bears
  <2> QED BY <1>6, <1>7, <1>14, <2>1, GoodSame DEF Held
<1>15. CallNames'
  BY <1>4, <1>7 DEF Held, CallNames
<1>16. Fresh'
  <2> SUFFICES ASSUME active' \in Sessions, active' \notin gone, pend'[active'].invalid
               PROVE  pend'[active'].fetch # "none"
    BY <1>4 DEF Fresh, Followed, TInv, TypeOK
  <2>1. active' = active /\ ~ (e.kind = "deleted" /\ s = active)
    BY <1>3, <1>4, IdsAssumption DEF Followed
  <2>2. CASE active # s
    BY <1>6, <2>1, <2>2, IdsAssumption DEF Held, Fresh
  <2>3. CASE active = s
    <3>1. CASE e.kind = "queued"
      BY <1>5, <1>6, <2>1, <2>3, <3>1, HandledIs, PutIs
    <3>2. CASE e.kind = "cancelled"
      BY <1>5, <1>6, <2>1, <2>3, <3>2, HandledIs, PutIs
    <3>3. CASE e.kind \in {"message", "done", "failed"}
      <4>1. PICK k \in Entry : pend'[s] = Invalidate(k, s)
        BY <1>3, <1>5, <1>6, <3>3, HandledIs, EntryOps
      <4> QED BY <2>1, <2>3, <4>1, InvalidateIs
    <3> QED BY <2>1, <2>3, <3>1, <3>2, <3>3, HandledIs
  <2> QED BY <2>2, <2>3
<1> QED BY <1>13, <1>14, <1>15, <1>16 DEF Held

----------------------------------------------------------------------------
(* Every step *)

(* Steps that move a handler and nothing that the pill rests on. *)
LEMMA MovesKeep ==
    ASSUME TInv, PInv, UNCHANGED <<pend, active, lapse, stops, tasks, chan, unsent, gone>>,
           conn' = conn \/ conn' = TRUE,
           \/ call' = call
           \/ \E c \in Calls :
                /\ \A d \in Calls \ {c} : call'[d] = call[d]
                /\ call'[c].stage # "stored"
                /\ Awaiting(c) => Awaiting(c)' /\ call'[c].session = call[c].session
    PROVE  PInv'
<1>1. Still
  BY DEF Still
<1>2. ASSUME NEW c \in Calls
      PROVE  /\ Awaiting(c) => Awaiting(c)' /\ call'[c].session = call[c].session
             /\ call'[c].stage = "stored" => call'[c] = call[c]
  BY DEF Awaiting
<1>3. Held'
  BY <1>1, <1>2, HeldSame DEF PInv
<1>4. Streamed'
  BY StreamSame DEF PInv
<1> QED BY <1>3, <1>4 DEF PInv

LEMMA HandlerMoves ==
    ASSUME TInv, NEW c \in Calls, NEW f \in Frame, call' = [call EXCEPT ![c] = f]
    PROVE  call'[c] = f /\ \A d \in Calls \ {c} : call'[d] = call[d]
BY DEF TInv, TypeOK

LEMMA FrameMoved ==
    ASSUME NEW f \in Frame, NEW g \in Stages
    PROVE  LET h == [f EXCEPT !.stage = g] IN
             /\ h \in Frame /\ h.session = f.session /\ h.stage = g
             /\ \A s \in Sessions : [f EXCEPT !.stage = g, !.session = s] \in Frame
             /\ \A s \in Sessions : [f EXCEPT !.stage = g, !.session = s].stage = g
BY DEF Frame

LEMMA HandlerKeeps ==
    ASSUME TInv, PInv, NEW c \in Calls,
           \/ \E k \in {"send", "upload"} : Begin(c, k)
           \/ MakeSession(c) \/ RefuseSession(c) \/ RefuseSend(c) \/ LoseAnswer(c)
    PROVE  PInv'
<1>1. agent \in Agents /\ \A d \in Calls : call[d] \in Frame
  BY DEF TInv, TypeOK
<1>2. PICK f : f = call[c]
  OBVIOUS
<1>3. CASE \E k \in {"send", "upload"} : Begin(c, k)
  <2>1. PICK k \in {"send", "upload"} : Begin(c, k)
    BY <1>3
  <2>2. UNCHANGED <<pend, active, lapse, stops, conn, tasks, chan, unsent, gone>>
    BY <2>1 DEF Begin, window, net, server, history
  <2>3. ~ Awaiting(c)
    BY <2>1 DEF Begin, Free, Idle, Awaiting
  <2>4. PICK g : /\ call' = [call EXCEPT ![c] = g]
                 /\ g = [stage |-> IF \E d \in Calls : Creating(d) THEN "waiting" ELSE "creating",
                         kind |-> k, agent |-> agent, session |-> None, task |-> None,
                         astray |-> \E d \in Calls : Creating(d) /\ call[d].agent # agent]
    BY <2>1 DEF Begin, Ensure
  <2>5. g.stage \in {"waiting", "creating"} /\ g \in Frame
    BY <1>1, <2>4 DEF Frame, Stages
  <2>6. call'[c].stage # "stored" /\ \A d \in Calls \ {c} : call'[d] = call[d]
    BY <2>4, <2>5, HandlerMoves
  <2> QED BY <2>2, <2>3, <2>6, MovesKeep
<1>4. CASE MakeSession(c) \/ RefuseSession(c)
  <2>1. UNCHANGED <<pend, active, lapse, stops, conn, tasks, chan, unsent, gone>> /\ ~ Awaiting(c)
    BY <1>4 DEF MakeSession, RefuseSession, window, net, server, history, Awaiting
  <2>2. \/ call' = [call EXCEPT ![c] = [f EXCEPT !.stage = "unmade"]]
        \/ \E s \in Sessions : call' = [call EXCEPT ![c] = [f EXCEPT !.stage = "made", !.session = s]]
    BY <1>2, <1>4 DEF MakeSession, RefuseSession
  <2>3. PICK g : call' = [call EXCEPT ![c] = g] /\ g \in Frame /\ g.stage # "stored"
    <3>1. "made" \in Stages /\ "unmade" \in Stages /\ f \in Frame
      BY <1>1, <1>2 DEF Stages
    <3>2. CASE call' = [call EXCEPT ![c] = [f EXCEPT !.stage = "unmade"]]
      <4>1. PICK g : g = [f EXCEPT !.stage = "unmade"]
        OBVIOUS
      <4>2. g \in Frame /\ g.stage # "stored"
        BY <3>1, <4>1, FrameMoved
      <4> QED BY <3>2, <4>1, <4>2
    <3>3. ASSUME NEW s \in Sessions, call' = [call EXCEPT ![c] = [f EXCEPT !.stage = "made", !.session = s]]
          PROVE  \E g : call' = [call EXCEPT ![c] = g] /\ g \in Frame /\ g.stage # "stored"
      <4>1. PICK g : g = [f EXCEPT !.stage = "made", !.session = s]
        OBVIOUS
      <4>2. g \in Frame /\ g.stage # "stored"
        BY <3>1, <4>1, FrameMoved
      <4> QED BY <3>3, <4>1, <4>2
    <3> QED BY <2>2, <3>2, <3>3
  <2>4. call'[c].stage # "stored" /\ \A d \in Calls \ {c} : call'[d] = call[d]
    BY <2>3, HandlerMoves
  <2> QED BY <2>1, <2>4, MovesKeep
<1>5. CASE RefuseSend(c) \/ LoseAnswer(c)
  <2>1. UNCHANGED <<pend, active, lapse, stops, conn, tasks, chan, unsent, gone>>
    BY <1>5 DEF RefuseSend, LoseAnswer, window, net, server, history
  <2>2. PICK g : call' = [call EXCEPT ![c] = g] /\ g = [f EXCEPT !.stage = "refused"]
    BY <1>2, <1>5 DEF RefuseSend, LoseAnswer
  <2>3. "refused" \in Stages /\ f \in Frame
    BY <1>1, <1>2 DEF Stages
  <2>4. g \in Frame /\ g.session = f.session /\ g.stage = "refused"
    BY <2>2, <2>3, FrameMoved
  <2>5. call'[c] = g /\ \A d \in Calls \ {c} : call'[d] = call[d]
    BY <2>2, <2>4, HandlerMoves
  <2>6. Awaiting(c)' /\ call'[c].session = call[c].session /\ call'[c].stage # "stored"
    BY <1>2, <2>4, <2>5 DEF Awaiting
  <2> QED BY <2>1, <2>5, <2>6, MovesKeep
<1> QED BY <1>3, <1>4, <1>5

LEMMA DeletionsKeep ==
    ASSUME TInv, TInv', PInv, DeleteServed \/ \E s \in Sessions : DeleteElsewhere(s)
    PROVE  PInv'
<1>1. CASE \E s \in Sessions : DeleteElsewhere(s)
  BY <1>1, RemovedKeeps DEF DeleteElsewhere, window, history
<1>2. CASE DeleteServed
  <2>1. UNCHANGED <<active, pend, call, stops, lapse>>
    BY <1>2 DEF DeleteServed
  <2>2. CASE \E s \in Sessions : Removed(s)
    BY <2>1, <2>2, RemovedKeeps
  <2>3. CASE UNCHANGED <<net, server>>
    <3>1. UNCHANGED <<conn, tasks, chan, unsent, gone>>
      BY <2>3 DEF net, server
    <3> QED BY <2>1, <3>1, MovesKeep
  <2>4. deleting # None => deleting \in Sessions
    BY DEF TInv, TypeOK
  <2> QED BY <1>2, <2>2, <2>3, <2>4 DEF DeleteServed
<1> QED BY <1>1, <1>2

(* The window's own steps and the fetches leave the server and the stream alone. *)
LEMMA WindowKeeps ==
    ASSUME TInv, AInv, PInv,
           \/ \E c \in Calls : Send(c) \/ Settle(c) \/ Answered(c) \/ Rejected(c)
           \/ Stop \/ NewChat \/ (\E a \in Agents : SelectAgent(a))
           \/ \E s \in Sessions : SelectSession(s) \/ Delete(s)
           \/ \E s \in Sessions : Read(s) \/ Land(s) \/ Collect(s)
    PROVE  PInv'
<1>1. UNCHANGED <<tasks, chan, unsent, gone, conn>>
  BY DEF Send, Settle, Answered, Rejected, Stop, NewChat, SelectAgent, SelectSession, Delete, Read,
         Land, Collect, net, server
<1>2. Streamed'
  BY <1>1, StreamSame DEF PInv
<1>3. Held'
  <2>1. CASE \E c \in Calls : Send(c) \/ Settle(c) \/ Answered(c) \/ Rejected(c)
    BY <2>1, SendHolds, SettleHolds, AnsweredHolds, RejectedHolds DEF PInv
  <2>2. CASE Stop
    BY <2>2, StopHolds DEF PInv
  <2>3. CASE \/ (\E a \in Agents : SelectAgent(a)) \/ NewChat
             \/ \E s \in Sessions : SelectSession(s) \/ Delete(s)
    BY <2>3, TurnHolds DEF PInv
  <2>4. CASE \E s \in Sessions : Read(s) \/ Land(s) \/ Collect(s)
    BY <2>4, ReadHolds, LandHolds, CollectHolds DEF PInv
  <2> QED BY <2>1, <2>2, <2>3, <2>4
<1> QED BY <1>2, <1>3 DEF PInv

(* The steps of the stream, and a page that is loaded again. *)
LEMMA StreamKeeps ==
    ASSUME TInv, PInv, (\E sq \in unsent : Publish(sq)) \/ Deliver \/ Drop \/ Connect \/ Reload
    PROVE  PInv'
<1>1. CASE \E sq \in unsent : Publish(sq)
  BY <1>1, StreamPublish, PublishHolds DEF PInv
<1>2. CASE Deliver
  <2>1. chan # <<>> /\ chan' = Tail(chan) /\ UNCHANGED <<tasks, unsent, gone, conn>>
    BY <1>2 DEF Deliver, server
  <2> QED BY <1>2, <2>1, StreamDeliver, DeliverHolds DEF PInv
<1>3. CASE Drop
  <2>1. chan' = <<>> /\ UNCHANGED <<tasks, unsent, gone>>
    BY <1>3 DEF Drop, server
  <2> QED BY <1>3, <2>1, StreamCut, DropHolds DEF PInv
<1>4. CASE Connect
  <2>1. /\ UNCHANGED <<pend, active, lapse, stops, tasks, chan, unsent, gone, call>>
        /\ conn' = TRUE
    BY <1>4 DEF Connect, window, server, history
  <2> QED BY <2>1, MovesKeep
<1>5. CASE Reload
  <2>1. chan' = <<>> /\ UNCHANGED <<tasks, unsent, gone>>
    BY <1>5 DEF Reload, server
  <2> QED BY <1>5, <2>1, StreamCut, ReloadHolds DEF PInv
<1> QED BY <1>1, <1>2, <1>3, <1>4, <1>5

LEMMA StepPills == TInv /\ AInv /\ PInv /\ [Next]_vars => PInv'
<1> SUFFICES ASSUME TInv, AInv, PInv, [Next]_vars PROVE PInv'
  OBVIOUS
<1>1. TInv'
  BY StepType
<1>2. CASE User
  BY <1>2, WindowKeeps, HandlerKeeps, StreamKeeps DEF User
<1>3. CASE Others
  BY <1>1, <1>3, FailKeeps, FinishKeeps, DeletionsKeep DEF Others
<1>4. CASE \E c \in Calls : Serve(c) \/ Settle(c) \/ Answered(c) \/ LoseAnswer(c) \/ Rejected(c)
  BY <1>1, <1>4, HandlerKeeps, StoreKeeps, WindowKeeps DEF Serve
<1>5. CASE DeleteServed
  BY <1>1, <1>5, DeletionsKeep
<1>6. CASE \E t \in stops : StopServed(t) \/ StopLost(t)
  BY <1>1, <1>6, StopServedKeeps, StopLostKeeps
<1>7. CASE (\E sq \in unsent : Publish(sq)) \/ Deliver \/ Drop \/ Connect
  BY <1>7, StreamKeeps
<1>8. CASE \E s \in Sessions : Read(s) \/ Land(s) \/ Collect(s)
  BY <1>8, WindowKeeps
<1>9. CASE UNCHANGED vars
  <2>1. UNCHANGED <<pend, active, lapse, stops, conn, tasks, chan, unsent, gone, call>>
    BY <1>9 DEF vars, window, net, server, history
  <2> QED BY <2>1, MovesKeep
<1> QED BY <1>2, <1>3, <1>4, <1>5, <1>6, <1>7, <1>8, <1>9 DEF Next

(* The pill shows the session's latest task in flight, and the input is locked for it alone.
   When it does not, an event, an answer to a message, a fetch or a cancel request has still
   to write the entry, or a refused message, a late or lost event or a task that failed
   unheard has left it stale (handleSend and handleStop of chat-window.tsx, the handlers of
   use-realtime-sync.ts, SendChatMessage, CompleteTask, FailTask and CancelTask). *)
THEOREM PillOwed == Spec => []PillAccounted
<1>1. PInv => PillAccounted
  BY GoodAccounts DEF PInv, Held
<1> QED BY <1>1, InitPills, StepPills, InitAddressed, StepAddressed, TypesKept, PTL DEF Spec

=============================================================================
