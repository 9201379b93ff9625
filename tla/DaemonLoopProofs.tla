--------------------------- MODULE DaemonLoopProofs ---------------------------
(* The slots, the claim barrier and the update flag of one daemon, for any
   number of pollers, slots, task goroutines and update requests. *)
EXTENDS DaemonLoop, FiniteSetTheorems, TLAPS

(* claimsInFlight and activeTasks count the goroutines they are meant to count. *)
Counted ==
    /\ claimsInFlight = Cardinality(ClaimingPollers) + Cardinality(LiveHandlers)
    /\ activeTasks = Cardinality(CountedPollers) + Cardinality(ActiveHandlers)

(* The barrier went up on an idle daemon and stays up until the upgrade fails. *)
Barrier ==
    auto \in {"upgrading", "restarting"} => pauseClaims /\ claimsInFlight = 0

(* The goroutines between their CompareAndSwap and their deferred Store: one at
   most, and the flag is set as long as there is one. *)
AutoOwns == auto \in {"owner", "upgrading", "released", "restarting"}
ManualOwns(u) == manual[u] \in {"upgrading", "released"}

FlagOwned ==
    /\ AutoOwns => updating /\ \A u \in Updates : ~ ManualOwns(u)
    /\ \A u \in Updates : ManualOwns(u) => updating
    /\ \A u, v \in Updates : ManualOwns(u) /\ ManualOwns(v) => u = v

(* A goroutine has a slot exactly in the places where it needs one. *)
SlotsPlaced ==
    /\ \A p \in Pollers :
          poller[p] \in {"slot", "claiming", "counted", "returning"} <=> slotOf[p] \in Slots
    /\ \A h \in Handlers : handler[h] = "running" <=> slotIn[h] \in Slots

IInv ==
    /\ TypeOK /\ Counted /\ Barrier /\ FlagOwned
    /\ SlotsPlaced /\ SlotsConserved

-----------------------------------------------------------------------------
LEMMA InitInv == Init => IInv
  <1> SUFFICES ASSUME Init
               PROVE  IInv
    OBVIOUS
  <1>1. ClaimingPollers = {} /\ LiveHandlers = {} /\ CountedPollers = {} /\ ActiveHandlers = {}
    BY DEF Init, ClaimingPollers, LiveHandlers, CountedPollers, ActiveHandlers
  <1>2. Counted
    BY <1>1, FS_EmptySet DEF Init, Counted
  <1>3. TypeOK /\ Barrier /\ FlagOwned
    BY DEF Init, TypeOK, Barrier, FlagOwned, AutoOwns, ManualOwns
  <1>4. SlotsPlaced /\ SlotsConserved
    BY SlotsAssumption DEF Init, SlotsPlaced, SlotsConserved
  <1> QED
    BY <1>2, <1>3, <1>4 DEF IInv

(* The four counted sets are finite, so their cardinalities are numbers. *)
LEMMA Finite ==
    /\ IsFiniteSet(ClaimingPollers) /\ Cardinality(ClaimingPollers) \in Nat
    /\ IsFiniteSet(LiveHandlers)    /\ Cardinality(LiveHandlers) \in Nat
    /\ IsFiniteSet(CountedPollers)  /\ Cardinality(CountedPollers) \in Nat
    /\ IsFiniteSet(ActiveHandlers)  /\ Cardinality(ActiveHandlers) \in Nat
  <1>1. /\ IsFiniteSet(ClaimingPollers) /\ IsFiniteSet(LiveHandlers)
        /\ IsFiniteSet(CountedPollers)  /\ IsFiniteSet(ActiveHandlers)
    BY FiniteAssumption, FS_Subset
       DEF ClaimingPollers, LiveHandlers, CountedPollers, ActiveHandlers
  <1> QED
    BY <1>1, FS_CardinalityType

(* A counted set that grows or shrinks by one goroutine. *)
LEMMA OneMore ==
    ASSUME NEW S, NEW x, IsFiniteSet(S), x \notin S
    PROVE  Cardinality(S \cup {x}) = Cardinality(S) + 1
  BY FS_AddElement

LEMMA OneLess ==
    ASSUME NEW S, NEW x, IsFiniteSet(S), x \in S
    PROVE  Cardinality(S \ {x}) = Cardinality(S) - 1
  BY FS_RemoveElement

-----------------------------------------------------------------------------
(* Steps that leave the counted sets alone. *)
LEMMA SameSets ==
    ASSUME TypeOK,
           \/ \E p \in Pollers : \/ StartPoller(p) \/ CancelPoller(p) \/ Pass(p) \/ Leave(p)
                                 \/ AtCapacity(p) \/ ReturnSlot(p)
                                 \/ \E s \in Slots : AcquireSlot(p, s)
           \/ \E h \in Handlers : FreeSlot(h)
           \/ AutoTick \/ AutoStep
           \/ \E u \in Updates : ManualAsk(u) \/ ManualStep(u)
           \/ Stop \/ PollersGone \/ Exit
           \/ UNCHANGED vars
    PROVE  /\ UNCHANGED <<ClaimingPollers, LiveHandlers, CountedPollers, ActiveHandlers>>
           /\ UNCHANGED <<claimsInFlight, activeTasks>>
  <1> USE DEF TypeOK, ClaimingPollers, LiveHandlers, CountedPollers, ActiveHandlers
  <1>1. ASSUME NEW p \in Pollers,
               \/ StartPoller(p) \/ CancelPoller(p) \/ Pass(p) \/ Leave(p)
               \/ AtCapacity(p) \/ ReturnSlot(p) \/ \E s \in Slots : AcquireSlot(p, s)
        PROVE  /\ UNCHANGED <<ClaimingPollers, LiveHandlers, CountedPollers, ActiveHandlers>>
               /\ UNCHANGED <<claimsInFlight, activeTasks>>
    <2>1. UNCHANGED <<handler, claimsInFlight, activeTasks>>
      BY <1>1 DEF StartPoller, CancelPoller, Pass, Leave, AtCapacity, ReturnSlot, AcquireSlot,
                  taskVars
    <2>2. \E pc \in {"off", "top", "select", "slot", poller[p]} :
             /\ poller' = [poller EXCEPT ![p] = pc]
             /\ pc # poller[p] => poller[p] \notin {"claiming", "counted"}
      BY <1>1 DEF StartPoller, CancelPoller, Pass, Leave, AtCapacity, ReturnSlot, AcquireSlot
    <2> QED
      BY <2>1, <2>2
  <1>2. ASSUME NEW h \in Handlers, FreeSlot(h)
        PROVE  /\ UNCHANGED <<ClaimingPollers, LiveHandlers, CountedPollers, ActiveHandlers>>
               /\ UNCHANGED <<claimsInFlight, activeTasks>>
    BY <1>2 DEF FreeSlot, pollVars
  <1>3. ASSUME \/ AutoTick \/ AutoStep
               \/ \E u \in Updates : ManualAsk(u) \/ ManualStep(u)
               \/ Stop \/ PollersGone \/ Exit
               \/ UNCHANGED vars
        PROVE  /\ UNCHANGED <<ClaimingPollers, LiveHandlers, CountedPollers, ActiveHandlers>>
               /\ UNCHANGED <<claimsInFlight, activeTasks>>
    BY <1>3 DEF AutoTick, AutoStep, AutoFetch, AutoSwap, AutoBarrier, AutoFail, AutoRelease,
                AutoRestart, ManualAsk, ManualStep, ManualSwap, ManualEnd, ManualRelease,
                Stop, PollersGone, Exit, vars, pollVars, taskVars
  <1> QED
    BY <1>1, <1>2, <1>3

(* Every other step moves one goroutine in or out of the sets it changes, and
   the counters with it. *)
LEMMA CountedStep == TypeOK /\ Counted /\ [Next]_vars => Counted'
  <1> SUFFICES ASSUME TypeOK, Counted, [Next]_vars
               PROVE  Counted'
    OBVIOUS
  <1>1. ASSUME NEW p \in Pollers, TryEnterClaim(p)
        PROVE  Counted'
    <2>1. UNCHANGED <<LiveHandlers, CountedPollers, ActiveHandlers, activeTasks>>
      BY <1>1
         DEF TryEnterClaim, taskVars, TypeOK, ClaimingPollers, LiveHandlers, CountedPollers,
             ActiveHandlers
    <2>2. CASE MayClaim
      <3>1. /\ p \notin ClaimingPollers
            /\ ClaimingPollers' = ClaimingPollers \cup {p}
            /\ claimsInFlight' = claimsInFlight + 1
        BY <1>1, <2>2
           DEF TryEnterClaim, TypeOK, ClaimingPollers, LiveHandlers, CountedPollers, ActiveHandlers
      <3>2. Cardinality(ClaimingPollers') = Cardinality(ClaimingPollers) + 1
        BY <3>1, OneMore, Finite
      <3> QED
        BY <2>1, <3>1, <3>2, Finite DEF Counted
    <2>3. CASE ~ MayClaim
      <3>1. UNCHANGED <<ClaimingPollers, claimsInFlight>>
        BY <1>1, <2>3 DEF TryEnterClaim, TypeOK, ClaimingPollers
      <3> QED
        BY <2>1, <3>1 DEF Counted
    <2> QED
      BY <2>2, <2>3
  <1>2. ASSUME NEW p \in Pollers, NoTask(p)
        PROVE  Counted'
    <2>1. UNCHANGED <<LiveHandlers, CountedPollers, ActiveHandlers, activeTasks>>
      BY <1>2
         DEF NoTask, taskVars, TypeOK, ClaimingPollers, LiveHandlers, CountedPollers,
             ActiveHandlers
    <2>2. /\ p \in ClaimingPollers
          /\ ClaimingPollers' = ClaimingPollers \ {p}
          /\ claimsInFlight' = claimsInFlight - 1
      BY <1>2
         DEF NoTask, TypeOK, ClaimingPollers, LiveHandlers, CountedPollers, ActiveHandlers
    <2>3. Cardinality(ClaimingPollers') = Cardinality(ClaimingPollers) - 1
      BY <2>2, OneLess, Finite
    <2> QED
      BY <2>1, <2>2, <2>3, Finite DEF Counted
  <1>3. ASSUME NEW p \in Pollers, GotTask(p)
        PROVE  Counted'
    <2>1. UNCHANGED <<ClaimingPollers, LiveHandlers, ActiveHandlers, claimsInFlight>>
      BY <1>3
         DEF GotTask, taskVars, TypeOK, ClaimingPollers, LiveHandlers, CountedPollers,
             ActiveHandlers
    <2>2. /\ p \notin CountedPollers
          /\ CountedPollers' = CountedPollers \cup {p}
          /\ activeTasks' = activeTasks + 1
      BY <1>3
         DEF GotTask, TypeOK, ClaimingPollers, LiveHandlers, CountedPollers, ActiveHandlers
    <2>3. Cardinality(CountedPollers') = Cardinality(CountedPollers) + 1
      BY <2>2, OneMore, Finite
    <2> QED
      BY <2>1, <2>2, <2>3, Finite DEF Counted
  <1>4. ASSUME NEW p \in Pollers, NEW h \in Handlers, Spawn(p, h)
        PROVE  Counted'
    <2>1. /\ p \in ClaimingPollers /\ ClaimingPollers' = ClaimingPollers \ {p}
          /\ p \in CountedPollers /\ CountedPollers' = CountedPollers \ {p}
          /\ h \notin LiveHandlers /\ LiveHandlers' = LiveHandlers \cup {h}
          /\ h \notin ActiveHandlers /\ ActiveHandlers' = ActiveHandlers \cup {h}
          /\ UNCHANGED <<claimsInFlight, activeTasks>>
      BY <1>4
         DEF Spawn, TypeOK, ClaimingPollers, LiveHandlers, CountedPollers, ActiveHandlers
    <2>2. /\ Cardinality(ClaimingPollers') = Cardinality(ClaimingPollers) - 1
          /\ Cardinality(CountedPollers') = Cardinality(CountedPollers) - 1
      BY <2>1, OneLess, Finite
    <2>3. /\ Cardinality(LiveHandlers') = Cardinality(LiveHandlers) + 1
          /\ Cardinality(ActiveHandlers') = Cardinality(ActiveHandlers) + 1
      BY <2>1, OneMore, Finite
    <2> QED
      BY <2>1, <2>2, <2>3, Finite DEF Counted
  <1>5. ASSUME NEW h \in Handlers, CountDown(h)
        PROVE  Counted'
    <2>1. UNCHANGED <<ClaimingPollers, LiveHandlers, CountedPollers, claimsInFlight>>
      BY <1>5
         DEF CountDown, pollVars, TypeOK, ClaimingPollers, LiveHandlers, CountedPollers, ActiveHandlers
    <2>2. /\ h \in ActiveHandlers /\ ActiveHandlers' = ActiveHandlers \ {h}
          /\ activeTasks' = activeTasks - 1
      BY <1>5
         DEF CountDown, TypeOK, ClaimingPollers, LiveHandlers, CountedPollers, ActiveHandlers
    <2>3. Cardinality(ActiveHandlers') = Cardinality(ActiveHandlers) - 1
      BY <2>2, OneLess, Finite
    <2> QED
      BY <2>1, <2>2, <2>3, Finite DEF Counted
  <1>6. ASSUME NEW h \in Handlers, ExitClaim(h)
        PROVE  Counted'
    <2>1. UNCHANGED <<ClaimingPollers, ActiveHandlers, CountedPollers, activeTasks>>
      BY <1>6
         DEF ExitClaim, pollVars, TypeOK, ClaimingPollers, LiveHandlers, CountedPollers, ActiveHandlers
    <2>2. /\ h \in LiveHandlers /\ LiveHandlers' = LiveHandlers \ {h}
          /\ claimsInFlight' = claimsInFlight - 1
      BY <1>6
         DEF ExitClaim, TypeOK, ClaimingPollers, LiveHandlers, CountedPollers, ActiveHandlers
    <2>3. Cardinality(LiveHandlers') = Cardinality(LiveHandlers) - 1
      BY <2>2, OneLess, Finite
    <2> QED
      BY <2>1, <2>2, <2>3, Finite DEF Counted
  <1>7. CASE \/ \E p \in Pollers : \/ StartPoller(p) \/ CancelPoller(p) \/ Pass(p) \/ Leave(p)
                                   \/ AtCapacity(p) \/ ReturnSlot(p)
                                   \/ \E s \in Slots : AcquireSlot(p, s)
             \/ \E h \in Handlers : FreeSlot(h)
             \/ AutoTick \/ AutoStep
             \/ \E u \in Updates : ManualAsk(u) \/ ManualStep(u)
             \/ Stop \/ PollersGone \/ Exit
             \/ UNCHANGED vars
    BY <1>7, SameSets DEF Counted
  <1> QED
    BY <1>1, <1>2, <1>3, <1>4, <1>5, <1>6, <1>7 DEF Next, Poll, Handle

(* The counters cannot go below zero: they are sums of cardinalities. *)
LEMMA TypeStep == TypeOK /\ Counted' /\ SlotsPlaced /\ [Next]_vars => TypeOK'
  <1> SUFFICES ASSUME TypeOK, Counted', SlotsPlaced, [Next]_vars
               PROVE  TypeOK'
    OBVIOUS
  <1>1. (claimsInFlight \in Nat /\ activeTasks \in Nat)'
    <2>1. /\ IsFiniteSet(ClaimingPollers') /\ IsFiniteSet(LiveHandlers')
          /\ IsFiniteSet(CountedPollers')  /\ IsFiniteSet(ActiveHandlers')
      BY FiniteAssumption, FS_Subset
         DEF ClaimingPollers, LiveHandlers, CountedPollers, ActiveHandlers
    <2> QED
      BY <2>1, FS_CardinalityType DEF Counted
  <1>2. ASSUME NEW p \in Pollers, StartPoller(p) \/ CancelPoller(p)
        PROVE  TypeOK'
    BY <1>1, <1>2 DEF TypeOK, StartPoller, CancelPoller, taskVars, updateVars
  <1>3. ASSUME NEW p \in Pollers, Poll(p)
        PROVE  TypeOK'
    <2>1. CASE Pass(p) \/ Leave(p) \/ AtCapacity(p) \/ NoTask(p) \/ GotTask(p)
      BY <1>1, <2>1 DEF TypeOK, Pass, Leave, AtCapacity, NoTask, GotTask, taskVars, updateVars
    <2>2. CASE TryEnterClaim(p)
      BY <1>1, <2>2 DEF TypeOK, TryEnterClaim, taskVars, updateVars
    <2>3. CASE ReturnSlot(p)
      <3>1. slotOf[p] \in Slots
        BY <2>3 DEF ReturnSlot, SlotsPlaced
      <3> QED
        BY <1>1, <2>3, <3>1 DEF TypeOK, ReturnSlot, PutBack, taskVars, updateVars
    <2>4. ASSUME NEW s \in Slots, AcquireSlot(p, s)
          PROVE  TypeOK'
      BY <1>1, <2>4 DEF TypeOK, AcquireSlot, taskVars, updateVars
    <2>5. ASSUME NEW h \in Handlers, Spawn(p, h)
          PROVE  TypeOK'
      BY <1>1, <2>5 DEF TypeOK, Spawn, taskVars, updateVars
    <2> QED
      BY <1>3, <2>1, <2>2, <2>3, <2>4, <2>5 DEF Poll
  <1>4. ASSUME NEW h \in Handlers, Handle(h)
        PROVE  TypeOK'
    <2>1. CASE FreeSlot(h)
      <3>1. slotIn[h] \in Slots
        BY <2>1 DEF FreeSlot, SlotsPlaced
      <3> QED
        BY <1>1, <2>1, <3>1 DEF TypeOK, FreeSlot, pollVars, updateVars
    <2>2. CASE CountDown(h) \/ ExitClaim(h)
      BY <1>1, <2>2 DEF TypeOK, CountDown, ExitClaim, pollVars, updateVars
    <2> QED
      BY <1>4, <2>1, <2>2 DEF Handle
  <1>5. CASE AutoTick \/ AutoStep
    BY <1>1, <1>5 DEF TypeOK, AutoTick, AutoStep, AutoFetch, AutoSwap, AutoBarrier, AutoFail,
                      BarrierAfterFailure, AutoRelease, AutoRestart, triggerRestart,
                      pollVars, taskVars
  <1>6. ASSUME NEW u \in Updates, ManualAsk(u) \/ ManualStep(u)
        PROVE  TypeOK'
    BY <1>1, <1>6 DEF TypeOK, ManualAsk, ManualStep, ManualSwap, ManualEnd, ManualRelease,
                      triggerRestart, pollVars, taskVars
  <1>7. CASE Stop \/ PollersGone \/ Exit
    BY <1>1, <1>7 DEF TypeOK, Stop, PollersGone, Exit, pollVars, taskVars
  <1>8. CASE UNCHANGED vars
    BY <1>8 DEF TypeOK, vars
  <1> QED
    BY <1>2, <1>3, <1>4, <1>5, <1>6, <1>7, <1>8 DEF Next

-----------------------------------------------------------------------------
(* The barrier goes up when both counters are zero; while it is up no claim is
   entered, and with none in flight none can end. *)
LEMMA BarrierStep == TypeOK /\ Counted /\ Barrier /\ [Next]_vars => Barrier'
  <1> SUFFICES ASSUME TypeOK, Counted, Barrier, [Next]_vars
               PROVE  Barrier'
    OBVIOUS
  <1> DEFINE Raised == auto \in {"upgrading", "restarting"}
  <1>1. claimsInFlight = 0 => ClaimingPollers = {} /\ LiveHandlers = {}
    <2>1. claimsInFlight = 0 => Cardinality(ClaimingPollers) = 0 /\ Cardinality(LiveHandlers) = 0
      BY Finite DEF Counted
    <2> QED
      BY <2>1, Finite, FS_EmptySet
  <1>2. ASSUME NEW p \in Pollers, Poll(p) \/ StartPoller(p) \/ CancelPoller(p)
        PROVE  Barrier'
    <2>1. UNCHANGED <<auto, pauseClaims>>
      BY <1>2 DEF Poll, StartPoller, CancelPoller, Pass, Leave, AtCapacity, AcquireSlot,
                  TryEnterClaim, NoTask, ReturnSlot, GotTask, Spawn, updateVars
    <2>2. Raised => UNCHANGED claimsInFlight
      <3>1. Raised => ~ MayClaim /\ poller[p] # "claiming"
        BY <1>1 DEF Barrier, MayClaim, ClaimingPollers
      <3> QED
        BY <1>2, <3>1 DEF Poll, StartPoller, CancelPoller, Pass, Leave, AtCapacity, AcquireSlot,
                          TryEnterClaim, NoTask, ReturnSlot, GotTask, Spawn
    <2> QED
      BY <2>1, <2>2 DEF Barrier
  <1>3. ASSUME NEW h \in Handlers, Handle(h)
        PROVE  Barrier'
    <2>1. UNCHANGED <<auto, pauseClaims>>
      BY <1>3 DEF Handle, FreeSlot, CountDown, ExitClaim, updateVars
    <2>2. ~ Raised
      BY <1>1, <1>3 DEF Barrier, LiveHandlers, Handle, FreeSlot, CountDown, ExitClaim
    <2> QED
      BY <2>1, <2>2 DEF Barrier
  <1>4. CASE AutoTick \/ AutoStep
    BY <1>4 DEF Barrier, AutoTick, AutoStep, AutoFetch, AutoSwap, AutoBarrier, Quiescent,
                AutoFail, AutoRelease, AutoRestart
  <1>5. CASE \/ \E u \in Updates : ManualAsk(u) \/ ManualStep(u)
             \/ Stop \/ PollersGone \/ Exit
             \/ UNCHANGED vars
    BY <1>5 DEF Barrier, ManualAsk, ManualStep, ManualSwap, ManualEnd, ManualRelease,
                Stop, PollersGone, Exit, vars
  <1> QED
    BY <1>2, <1>3, <1>4, <1>5 DEF Next

(* The flag has one owner from the CompareAndSwap to the deferred Store. *)
LEMMA FlagStep == TypeOK /\ FlagOwned /\ [Next]_vars => FlagOwned'
  <1> SUFFICES ASSUME TypeOK, FlagOwned, [Next]_vars
               PROVE  FlagOwned'
    OBVIOUS
  <1> USE DEF FlagOwned, AutoOwns, ManualOwns
  <1>1. CASE AutoSwap
    BY <1>1 DEF AutoSwap, FlagFree
  <1>2. CASE AutoTick \/ AutoFetch \/ AutoBarrier \/ AutoFail \/ AutoRelease \/ AutoRestart
    BY <1>2 DEF AutoTick, AutoFetch, AutoBarrier, AutoFail, AutoRelease, AutoRestart
  <1>3. ASSUME NEW u \in Updates, ManualSwap(u)
        PROVE  FlagOwned'
    BY <1>3 DEF TypeOK, ManualSwap, FlagFree
  <1>4. ASSUME NEW u \in Updates, ManualAsk(u) \/ ManualEnd(u) \/ ManualRelease(u)
        PROVE  FlagOwned'
    BY <1>4 DEF TypeOK, ManualAsk, ManualEnd, ManualRelease
  <1>5. CASE \/ \E p \in Pollers : StartPoller(p) \/ CancelPoller(p) \/ Poll(p)
             \/ \E h \in Handlers : Handle(h)
             \/ Stop \/ PollersGone \/ Exit
             \/ UNCHANGED vars
    <2>1. UNCHANGED <<updating, auto, manual>>
      BY <1>5 DEF Poll, StartPoller, CancelPoller, Pass, Leave, AtCapacity, AcquireSlot,
                  TryEnterClaim, NoTask, ReturnSlot, GotTask, Spawn, Handle, FreeSlot, CountDown,
                  ExitClaim, Stop, PollersGone, Exit, updateVars, vars
    <2> QED
      BY <2>1
  <1> QED
    BY <1>1, <1>2, <1>3, <1>4, <1>5 DEF Next, AutoStep, ManualStep

-----------------------------------------------------------------------------
(* A slot moves from the channel to a poller, on to a task goroutine and back;
   each move takes it from the one place where it was. *)
LEMMA SlotsStep ==
    TypeOK /\ SlotsPlaced /\ SlotsConserved /\ [Next]_vars => SlotsPlaced' /\ SlotsConserved'
  <1> SUFFICES ASSUME TypeOK, SlotsPlaced, SlotsConserved, [Next]_vars
               PROVE  SlotsPlaced' /\ SlotsConserved'
    OBVIOUS
  <1>1. ASSUME NEW p \in Pollers, NEW s \in Slots, AcquireSlot(p, s)
        PROVE  SlotsPlaced' /\ SlotsConserved'
    <2>1. /\ free' = free \ {s}
          /\ slotOf' = [slotOf EXCEPT ![p] = s]
          /\ poller' = [poller EXCEPT ![p] = "slot"]
          /\ UNCHANGED <<handler, slotIn>>
      BY <1>1 DEF AcquireSlot, taskVars
    <2>2. s \in free /\ slotOf[p] \notin Slots
      BY <1>1 DEF AcquireSlot, SlotsPlaced
    <2>3. SlotsPlaced'
      BY <2>1 DEF SlotsPlaced, TypeOK
    <2>4. SlotsConserved'
      BY <2>1, <2>2 DEF SlotsConserved, TypeOK
    <2> QED
      BY <2>3, <2>4
  <1>2. ASSUME NEW p \in Pollers, ReturnSlot(p)
        PROVE  SlotsPlaced' /\ SlotsConserved'
    <2>1. PICK pc \in {"top", "off"} : poller' = [poller EXCEPT ![p] = pc]
      BY <1>2 DEF ReturnSlot
    <2>2. /\ free' = free \cup {slotOf[p]}
          /\ slotOf' = [slotOf EXCEPT ![p] = NoSlot]
          /\ UNCHANGED <<handler, slotIn>>
      BY <1>2 DEF ReturnSlot, PutBack, taskVars
    <2>3. slotOf[p] \in Slots
      BY <1>2 DEF ReturnSlot, SlotsPlaced
    <2>4. SlotsPlaced'
      BY <2>1, <2>2, SlotsAssumption DEF SlotsPlaced, TypeOK
    <2>5. SlotsConserved'
      BY <2>2, <2>3, SlotsAssumption DEF SlotsConserved, TypeOK
    <2> QED
      BY <2>4, <2>5
  <1>3. ASSUME NEW p \in Pollers, NEW h \in Handlers, Spawn(p, h)
        PROVE  SlotsPlaced' /\ SlotsConserved'
    <2>1. /\ handler' = [handler EXCEPT ![h] = "running"]
          /\ slotIn' = [slotIn EXCEPT ![h] = slotOf[p]]
          /\ slotOf' = [slotOf EXCEPT ![p] = NoSlot]
          /\ poller' = [poller EXCEPT ![p] = "top"]
          /\ UNCHANGED free
      BY <1>3 DEF Spawn
    <2>2. slotOf[p] \in Slots /\ slotIn[h] \notin Slots
      BY <1>3 DEF Spawn, SlotsPlaced
    <2>3. SlotsPlaced'
      BY <2>1, <2>2, SlotsAssumption DEF SlotsPlaced, TypeOK
    <2>4. SlotsConserved'
      BY <2>1, <2>2, SlotsAssumption DEF SlotsConserved, TypeOK
    <2> QED
      BY <2>3, <2>4
  <1>4. ASSUME NEW h \in Handlers, FreeSlot(h)
        PROVE  SlotsPlaced' /\ SlotsConserved'
    <2>1. /\ free' = free \cup {slotIn[h]}
          /\ slotIn' = [slotIn EXCEPT ![h] = NoSlot]
          /\ handler' = [handler EXCEPT ![h] = "freed"]
          /\ UNCHANGED <<poller, slotOf>>
      BY <1>4 DEF FreeSlot, pollVars
    <2>2. slotIn[h] \in Slots
      BY <1>4 DEF FreeSlot, SlotsPlaced
    <2>3. SlotsPlaced'
      BY <2>1, SlotsAssumption DEF SlotsPlaced, TypeOK
    <2>4. SlotsConserved'
      BY <2>1, <2>2, SlotsAssumption DEF SlotsConserved, TypeOK
    <2> QED
      BY <2>3, <2>4
  <1>5. ASSUME NEW p \in Pollers,
               \/ StartPoller(p) \/ CancelPoller(p) \/ Pass(p) \/ Leave(p) \/ AtCapacity(p)
               \/ TryEnterClaim(p) \/ NoTask(p) \/ GotTask(p)
        PROVE  SlotsPlaced' /\ SlotsConserved'
    <2>1. UNCHANGED <<free, slotOf, handler, slotIn>>
      BY <1>5 DEF StartPoller, CancelPoller, Pass, Leave, AtCapacity, TryEnterClaim, NoTask,
                  GotTask, taskVars
    <2>2. SlotsPlaced'
      BY <1>5, <2>1 DEF StartPoller, CancelPoller, Pass, Leave, AtCapacity, TryEnterClaim,
                        NoTask, GotTask, SlotsPlaced, TypeOK
    <2> QED
      BY <2>1, <2>2 DEF SlotsConserved
  <1>6. ASSUME NEW h \in Handlers, CountDown(h) \/ ExitClaim(h)
        PROVE  SlotsPlaced' /\ SlotsConserved'
    <2>1. UNCHANGED <<free, poller, slotOf, slotIn>>
      BY <1>6 DEF CountDown, ExitClaim, pollVars
    <2>2. SlotsPlaced'
      BY <1>6, <2>1 DEF CountDown, ExitClaim, SlotsPlaced, TypeOK
    <2> QED
      BY <2>1, <2>2 DEF SlotsConserved
  <1>7. CASE \/ AutoTick \/ AutoStep
             \/ \E u \in Updates : ManualAsk(u) \/ ManualStep(u)
             \/ Stop \/ PollersGone \/ Exit
             \/ UNCHANGED vars
    <2>1. UNCHANGED <<free, poller, slotOf, handler, slotIn>>
      BY <1>7 DEF AutoTick, AutoStep, AutoFetch, AutoSwap, AutoBarrier, AutoFail, AutoRelease,
                  AutoRestart, ManualAsk, ManualStep, ManualSwap, ManualEnd, ManualRelease,
                  Stop, PollersGone, Exit, vars, pollVars, taskVars
    <2> QED
      BY <2>1 DEF SlotsPlaced, SlotsConserved
  <1> QED
    BY <1>1, <1>2, <1>3, <1>4, <1>5, <1>6, <1>7 DEF Next, Poll, Handle

-----------------------------------------------------------------------------
(* The strengthened invariant holds in every state the daemon reaches. *)
THEOREM Inductive == Spec => []IInv
  <1>1. IInv /\ [Next]_vars => IInv'
    BY CountedStep, TypeStep, BarrierStep, FlagStep, SlotsStep DEF IInv
  <1> QED
    BY InitInv, <1>1, PTL DEF Spec

(* Every variable has its type; the two counters of runRuntimePoller and
   trySetClaimBarrier never go below zero. *)
THEOREM TypeCorrect == Spec => []TypeOK
  BY Inductive, PTL DEF IInv

(* The slot semaphore: whichever way claims and tasks end, each slot is in the
   channel or held by exactly one goroutine. *)
THEOREM SlotsAreConserved == Spec => []SlotsConserved
  BY Inductive, PTL DEF IInv

(* tryAutoUpdate never interrupts a claim or a task: while it replaces the
   binary, and until the process is gone, there is none. *)
THEOREM NeverInterrupts == Spec => []AutoUpgradeIdle
  <1>1. IInv => AutoUpgradeIdle
    <2> SUFFICES ASSUME IInv, auto \in {"upgrading", "restarting"}
                 PROVE  ClaimingPollers = {} /\ LiveHandlers = {}
      BY DEF AutoUpgradeIdle
    <2>1. Cardinality(ClaimingPollers) = 0 /\ Cardinality(LiveHandlers) = 0
      BY Finite DEF IInv, Barrier, Counted
    <2> QED
      BY <2>1, Finite, FS_EmptySet
  <1> QED
    BY Inductive, <1>1, PTL

(* The updating flag: no two upgrades, automatic or asked for, run at once. *)
THEOREM SingleUpgrade == Spec => []OneUpgrade
  <1>1. IInv => OneUpgrade
    BY DEF IInv, FlagOwned, AutoOwns, ManualOwns, OneUpgrade
  <1> QED
    BY Inductive, <1>1, PTL
=============================================================================
