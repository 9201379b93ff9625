------------------------------ MODULE DaemonLoop ------------------------------
(***************************************************************************)
(* One daemon process: the pollers, one per runtime, the task goroutines   *)
(* they start, the execution slots and counters they share, and the two    *)
(* ways the daemon replaces its own binary (server/internal/daemon:        *)
(* daemon.go, auto_update.go). A goroutine's statements on shared state    *)
(* are separate steps; what it does under claimMu is one step.             *)
(*                                                                         *)
(* Counters are the code's: claimsInFlight covers a claim from             *)
(* tryEnterClaim to the end of the task it brought, activeTasks the task.  *)
(***************************************************************************)
EXTENDS Integers, FiniteSets

CONSTANTS
    Pollers,    \* runtime pollers, started and stopped as the runtime set changes
    Slots,      \* execution slots, cfg.MaxConcurrentTasks of them
    Handlers,   \* task goroutines
    Updates,    \* handleUpdate goroutines
    ExecutableKnown,  \* what os.Executable answers, fixed when the process starts
    NoSlot

ASSUME SlotsAssumption == NoSlot \notin Slots
ASSUME ExecutableAssumption == ExecutableKnown \in BOOLEAN
ASSUME FiniteAssumption ==
    IsFiniteSet(Pollers) /\ IsFiniteSet(Slots) /\ IsFiniteSet(Handlers)

VARIABLES
    free,            \* slots in the semaphore channel
    poller, slotOf,  \* where each poller is, and the slot it holds
    cancelled,       \* pollers whose own context is cancelled
    handler, slotIn, \* where each task goroutine is, and its slot
    claimsInFlight,
    activeTasks,
    pauseClaims,
    updating,
    auto,            \* where autoUpdateLoop is
    manual,          \* where each handleUpdate is
    main             \* where pollLoop is

vars == <<free, poller, slotOf, cancelled, handler, slotIn, claimsInFlight, activeTasks,
          pauseClaims, updating, auto, manual, main>>

pollVars   == <<poller, slotOf, cancelled>>
taskVars   == <<handler, slotIn>>
updateVars == <<auto, manual, main>>

Init ==
    /\ free = Slots
    /\ poller = [p \in Pollers |-> "off"]
    /\ slotOf = [p \in Pollers |-> NoSlot]
    /\ cancelled = {}
    /\ handler = [h \in Handlers |-> "off"]
    /\ slotIn = [h \in Handlers |-> NoSlot]
    /\ claimsInFlight = 0
    /\ activeTasks = 0
    /\ pauseClaims = FALSE
    /\ updating = FALSE
    /\ auto = "idle"
    /\ manual = [u \in Updates |-> "idle"]
    /\ main = "running"

-----------------------------------------------------------------------------
(* Pollers: runRuntimePoller *)

(* syncPollers starts a poller for a new runtime ... *)
StartPoller(p) ==
    /\ main = "running"
    /\ poller[p] = "off"
    /\ poller' = [poller EXCEPT ![p] = "top"]
    /\ cancelled' = cancelled \ {p}
    /\ UNCHANGED <<free, slotOf, taskVars, claimsInFlight, activeTasks, pauseClaims,
                   updating, updateVars>>

(* ... and cancels the poller of a runtime that has gone. *)
CancelPoller(p) ==
    /\ main = "running"
    /\ poller[p] # "off"
    /\ cancelled' = cancelled \cup {p}
    /\ UNCHANGED <<free, poller, slotOf, taskVars, claimsInFlight, activeTasks,
                   pauseClaims, updating, updateVars>>

(* Mutant: the poller's context is not derived from the daemon's. *)
DoneOwnContext(p) == p \in cancelled

Done(p) == p \in cancelled \/ main # "running"

(* The context is looked at once at the top of the loop ... *)
Pass(p) ==
    /\ poller[p] = "top"
    /\ ~ Done(p)
    /\ poller' = [poller EXCEPT ![p] = "select"]
    /\ UNCHANGED <<free, slotOf, cancelled, taskVars, claimsInFlight, activeTasks,
                   pauseClaims, updating, updateVars>>

Leave(p) ==
    /\ poller[p] \in {"top", "select"}
    /\ Done(p)
    /\ poller' = [poller EXCEPT ![p] = "off"]
    /\ UNCHANGED <<free, slotOf, cancelled, taskVars, claimsInFlight, activeTasks,
                   pauseClaims, updating, updateVars>>

(* ... then the select takes a slot if there is one, even when the context has
   been cancelled meanwhile; at capacity the poller sleeps and starts over. *)
AtCapacity(p) ==
    /\ poller[p] = "select"
    /\ free = {}
    /\ poller' = [poller EXCEPT ![p] = "top"]
    /\ UNCHANGED <<free, slotOf, cancelled, taskVars, claimsInFlight, activeTasks,
                   pauseClaims, updating, updateVars>>

AcquireSlot(p, s) ==
    /\ poller[p] = "select"
    /\ s \in free
    /\ free' = free \ {s}
    /\ slotOf' = [slotOf EXCEPT ![p] = s]
    /\ poller' = [poller EXCEPT ![p] = "slot"]
    /\ UNCHANGED <<cancelled, taskVars, claimsInFlight, activeTasks, pauseClaims,
                   updating, updateVars>>

MayClaim == ~ pauseClaims

(* tryEnterClaim, under claimMu: claim, or give the slot back. *)
TryEnterClaim(p) ==
    /\ poller[p] = "slot"
    /\ IF MayClaim
         THEN /\ claimsInFlight' = claimsInFlight + 1
              /\ poller' = [poller EXCEPT ![p] = "claiming"]
         ELSE /\ poller' = [poller EXCEPT ![p] = "returning"]
              /\ UNCHANGED claimsInFlight
    /\ UNCHANGED <<free, slotOf, cancelled, taskVars, activeTasks, pauseClaims,
                   updating, updateVars>>

(* Mutant: the claim is sent again without entering again. *)
NoTaskAgain(p) ==
    /\ poller[p] = "claiming"
    /\ claimsInFlight' = claimsInFlight - 1
    /\ UNCHANGED <<free, pollVars, taskVars, activeTasks, pauseClaims, updating, updateVars>>

(* ClaimTask fails or brings nothing: exitClaim. *)
NoTask(p) ==
    /\ poller[p] = "claiming"
    /\ claimsInFlight' = claimsInFlight - 1
    /\ poller' = [poller EXCEPT ![p] = "returning"]
    /\ UNCHANGED <<free, slotOf, cancelled, taskVars, activeTasks, pauseClaims,
                   updating, updateVars>>

(* Mutant: the slot is not put back. *)
KeptSlot(s) == free

PutBack(s) == free \cup {s}

(* The slot goes back, then the poller sleeps and starts over, or returns when
   its runtime was not found. *)
ReturnSlot(p) ==
    /\ poller[p] = "returning"
    /\ free' = PutBack(slotOf[p])
    /\ slotOf' = [slotOf EXCEPT ![p] = NoSlot]
    /\ \E pc \in {"top", "off"} : poller' = [poller EXCEPT ![p] = pc]
    /\ UNCHANGED <<cancelled, taskVars, claimsInFlight, activeTasks, pauseClaims,
                   updating, updateVars>>

(* ClaimTask brings a task: it is counted ... *)
GotTask(p) ==
    /\ poller[p] = "claiming"
    /\ activeTasks' = activeTasks + 1
    /\ poller' = [poller EXCEPT ![p] = "counted"]
    /\ UNCHANGED <<free, slotOf, cancelled, taskVars, claimsInFlight, pauseClaims,
                   updating, updateVars>>

(* ... and handed to a goroutine with the slot and the claim. *)
Spawn(p, h) ==
    /\ poller[p] = "counted"
    /\ handler[h] = "off"
    /\ handler' = [handler EXCEPT ![h] = "running"]
    /\ slotIn' = [slotIn EXCEPT ![h] = slotOf[p]]
    /\ slotOf' = [slotOf EXCEPT ![p] = NoSlot]
    /\ poller' = [poller EXCEPT ![p] = "top"]
    /\ UNCHANGED <<free, cancelled, claimsInFlight, activeTasks, pauseClaims,
                   updating, updateVars>>

-----------------------------------------------------------------------------
(* The task goroutine: when handleTask returns its deferred calls run, last
   one first: the slot, activeTasks, exitClaim. *)

FreeSlot(h) ==
    /\ handler[h] = "running"
    /\ free' = free \cup {slotIn[h]}
    /\ slotIn' = [slotIn EXCEPT ![h] = NoSlot]
    /\ handler' = [handler EXCEPT ![h] = "freed"]
    /\ UNCHANGED <<pollVars, claimsInFlight, activeTasks, pauseClaims, updating, updateVars>>

CountDown(h) ==
    /\ handler[h] = "freed"
    /\ activeTasks' = activeTasks - 1
    /\ handler' = [handler EXCEPT ![h] = "uncounted"]
    /\ UNCHANGED <<free, pollVars, slotIn, claimsInFlight, pauseClaims, updating, updateVars>>

ExitClaim(h) ==
    /\ handler[h] = "uncounted"
    /\ claimsInFlight' = claimsInFlight - 1
    /\ handler' = [handler EXCEPT ![h] = "off"]
    /\ UNCHANGED <<free, pollVars, slotIn, activeTasks, pauseClaims, updating, updateVars>>

-----------------------------------------------------------------------------
(* autoUpdateLoop and tryAutoUpdate *)

(* A tick: the flag is looked at, then the tasks; a newer release is fetched. *)
AutoTick ==
    /\ auto = "idle"
    /\ main = "running"
    /\ ~ updating
    /\ auto' = "checked"
    /\ UNCHANGED <<free, pollVars, taskVars, claimsInFlight, activeTasks, pauseClaims,
                   updating, manual, main>>

AutoFetch ==
    /\ auto = "checked"
    /\ auto' \in (IF activeTasks = 0 THEN {"fetched", "idle"} ELSE {"idle"})
    /\ UNCHANGED <<free, pollVars, taskVars, claimsInFlight, activeTasks, pauseClaims,
                   updating, manual, main>>

(* Mutant: the flag is set without looking at it. *)
FlagFreeAlways == TRUE

FlagFree == ~ updating

(* updating.CompareAndSwap; the tick is over when another update holds it. *)
AutoSwap ==
    /\ auto = "fetched"
    /\ updating' = TRUE
    /\ auto' = IF FlagFree THEN "owner" ELSE "idle"
    /\ UNCHANGED <<free, pollVars, taskVars, claimsInFlight, activeTasks, pauseClaims,
                   manual, main>>

(* Mutant: claims that have not brought a task yet are not counted. *)
IdleOfTasks == activeTasks = 0

Quiescent == claimsInFlight = 0 /\ activeTasks = 0

(* trySetClaimBarrier, under claimMu. *)
AutoBarrier ==
    /\ auto = "owner"
    /\ IF Quiescent
         THEN pauseClaims' = TRUE /\ auto' = "upgrading"
         ELSE auto' = "released" /\ UNCHANGED pauseClaims
    /\ UNCHANGED <<free, pollVars, taskVars, claimsInFlight, activeTasks, updating,
                   manual, main>>

(* Mutant: a failed upgrade leaves the barrier up. *)
BarrierAfterFailureKept == pauseClaims

BarrierAfterFailure == FALSE

(* The upgrade fails: the deferred calls release the barrier, then the flag. *)
AutoFail ==
    /\ auto = "upgrading"
    /\ pauseClaims' = BarrierAfterFailure
    /\ auto' = "released"
    /\ UNCHANGED <<free, pollVars, taskVars, claimsInFlight, activeTasks, updating,
                   manual, main>>

AutoRelease ==
    /\ auto = "released"
    /\ updating' = FALSE
    /\ auto' = "idle"
    /\ UNCHANGED <<free, pollVars, taskVars, claimsInFlight, activeTasks, pauseClaims,
                   manual, main>>

(* The root context is cancelled, unless the executable cannot be resolved. *)
triggerRestart ==
    main' = IF main = "running" /\ ExecutableKnown THEN "stopping" ELSE main

(* The upgrade succeeds: the barrier and the flag are kept, the loop goes on. *)
AutoRestart ==
    /\ auto = "upgrading"
    /\ triggerRestart
    /\ auto' = "restarting"
    /\ UNCHANGED <<free, pollVars, taskVars, claimsInFlight, activeTasks, pauseClaims,
                   updating, manual>>

-----------------------------------------------------------------------------
(* handleUpdate, a goroutine started from a heartbeat's answer *)

ManualAsk(u) ==
    /\ main = "running"
    /\ manual[u] = "idle"
    /\ manual' = [manual EXCEPT ![u] = "asked"]
    /\ UNCHANGED <<free, pollVars, taskVars, claimsInFlight, activeTasks, pauseClaims,
                   updating, auto, main>>

ManualSwap(u) ==
    /\ manual[u] = "asked"
    /\ updating' = TRUE
    /\ manual' = [manual EXCEPT ![u] = IF FlagFree THEN "upgrading" ELSE "idle"]
    /\ UNCHANGED <<free, pollVars, taskVars, claimsInFlight, activeTasks, pauseClaims,
                   auto, main>>

(* The upgrade fails, or succeeds and the daemon is to restart ... *)
ManualEnd(u) ==
    /\ manual[u] = "upgrading"
    /\ manual' = [manual EXCEPT ![u] = "released"]
    /\ triggerRestart \/ UNCHANGED main
    /\ UNCHANGED <<free, pollVars, taskVars, claimsInFlight, activeTasks, pauseClaims,
                   updating, auto>>

(* ... and the deferred call clears the flag either way. *)
ManualRelease(u) ==
    /\ manual[u] = "released"
    /\ updating' = FALSE
    /\ manual' = [manual EXCEPT ![u] = "idle"]
    /\ UNCHANGED <<free, pollVars, taskVars, claimsInFlight, activeTasks, pauseClaims,
                   auto, main>>

-----------------------------------------------------------------------------
(* pollLoop's shutdown: the pollers first, then the tasks or thirty seconds *)

Stop ==
    /\ main = "running"
    /\ main' = "stopping"
    /\ UNCHANGED <<free, pollVars, taskVars, claimsInFlight, activeTasks, pauseClaims,
                   updating, auto, manual>>

PollersGone ==
    /\ main = "stopping"
    /\ \A p \in Pollers : poller[p] = "off"
    /\ main' = "draining"
    /\ UNCHANGED <<free, pollVars, taskVars, claimsInFlight, activeTasks, pauseClaims,
                   updating, auto, manual>>

Exit ==
    /\ main = "draining"
    /\ main' = "exited"
    /\ UNCHANGED <<free, pollVars, taskVars, claimsInFlight, activeTasks, pauseClaims,
                   updating, auto, manual>>

-----------------------------------------------------------------------------
Poll(p) ==
    \/ Pass(p) \/ Leave(p) \/ AtCapacity(p) \/ TryEnterClaim(p)
    \/ NoTask(p) \/ ReturnSlot(p) \/ GotTask(p)
    \/ \E s \in Slots : AcquireSlot(p, s)
    \/ \E h \in Handlers : Spawn(p, h)

Handle(h) == FreeSlot(h) \/ CountDown(h) \/ ExitClaim(h)

AutoStep == AutoFetch \/ AutoSwap \/ AutoBarrier \/ AutoFail \/ AutoRelease \/ AutoRestart

ManualStep(u) == ManualSwap(u) \/ ManualEnd(u) \/ ManualRelease(u)

(* Once the process has exited nothing moves. *)
Next ==
    /\ main # "exited"
    /\ \/ \E p \in Pollers : StartPoller(p) \/ CancelPoller(p) \/ Poll(p)
       \/ \E h \in Handlers : Handle(h)
       \/ AutoTick \/ AutoStep
       \/ \E u \in Updates : ManualAsk(u) \/ ManualStep(u)
       \/ Stop \/ PollersGone \/ Exit

Spec == Init /\ [][Next]_vars

-----------------------------------------------------------------------------
(* Every variable has its type. *)
TypeOK ==
    /\ free \subseteq Slots
    /\ poller \in [Pollers -> {"off", "top", "select", "slot", "claiming", "counted",
                            "returning"}]
    /\ slotOf \in [Pollers -> Slots \cup {NoSlot}]
    /\ cancelled \subseteq Pollers
    /\ handler \in [Handlers -> {"off", "running", "freed", "uncounted"}]
    /\ slotIn \in [Handlers -> Slots \cup {NoSlot}]
    /\ claimsInFlight \in Nat /\ activeTasks \in Nat
    /\ pauseClaims \in BOOLEAN /\ updating \in BOOLEAN
    /\ auto \in {"idle", "checked", "fetched", "owner", "upgrading", "released", "restarting"}
    /\ manual \in [Updates -> {"idle", "asked", "upgrading", "released"}]
    /\ main \in {"running", "stopping", "draining", "exited"}

(* No slot is lost, duplicated or shared by two goroutines, whichever way a
   claim or a task ends: each is in the channel or held by exactly one. *)
SlotsConserved ==
    \A s \in Slots :
       /\ s \in free <=> /\ \A p \in Pollers : slotOf[p] # s
                        /\ \A h \in Handlers : slotIn[h] # s
       /\ \A p, q \in Pollers : slotOf[p] = s /\ slotOf[q] = s => p = q
       /\ \A h, k \in Handlers : slotIn[h] = s /\ slotIn[k] = s => h = k
       /\ \A p \in Pollers, h \in Handlers : ~ (slotOf[p] = s /\ slotIn[h] = s)

(* Who claimsInFlight and activeTasks count. *)
ClaimingPollers == {p \in Pollers : poller[p] \in {"claiming", "counted"}}
LiveHandlers    == {h \in Handlers : handler[h] # "off"}
CountedPollers  == {p \in Pollers : poller[p] = "counted"}
ActiveHandlers  == {h \in Handlers : handler[h] \in {"running", "freed"}}

(* From the moment the automatic path starts to replace the binary until the
   process is gone, no claim is in flight and no task runs: "we never interrupt
   running agents" (auto_update.go). *)
AutoUpgradeIdle ==
    auto \in {"upgrading", "restarting"} => ClaimingPollers = {} /\ LiveHandlers = {}

(* Two upgrades never run at once. *)
OneUpgrade ==
    /\ \A u \in Updates : manual[u] = "upgrading" => auto \notin {"owner", "upgrading"}
    /\ \A u, v \in Updates : manual[u] = "upgrading" /\ manual[v] = "upgrading" => u = v

(* After a restart has been triggered no upgrade begins. *)
NoUpgradeMidShutdown ==
    [][main # "running" => (auto' = "upgrading" => auto = "upgrading")]_vars

-----------------------------------------------------------------------------
(* Every goroutine goes on: a claim is answered or times out after thirty
   seconds, an agent run ends at its timeout, an upgrade ends. *)
Fairness ==
    /\ \A p \in Pollers : WF_vars(main # "exited" /\ Poll(p))
    /\ \A h \in Handlers : WF_vars(main # "exited" /\ Handle(h))
    /\ WF_vars(main # "exited" /\ AutoStep)
    /\ \A u \in Updates : WF_vars(main # "exited" /\ ManualStep(u))
    /\ WF_vars(PollersGone) /\ WF_vars(Exit)

FairSpec == Spec /\ Fairness

(* Claims are paused only while an upgrade or a restart is under way. *)
ClaimsResume == pauseClaims ~> (~ pauseClaims \/ main = "exited")

(* A shutdown ends. *)
ShutdownEnds == main = "stopping" ~> main = "exited"
=============================================================================
