------------------------------ MODULE DaemonManager ------------------------------
(***************************************************************************)
(* The part of the desktop application's main process that owns the local  *)
(* daemon (apps/desktop/src/main/daemon-manager.ts): credentials in the    *)
(* profile's config.json and the sidecar that says whose they are, start,  *)
(* stop and restart through the CLI, the status poll and the restart on a  *)
(* version mismatch. Every IPC call and every timer tick is an async       *)
(* function; what runs between two of its awaits is one step, and steps of *)
(* different calls interleave.                                             *)
(*                                                                         *)
(* The renderer is the environment: it syncs a token and auto-starts when  *)
(* a user logs in, clears the token and stops on logout (App.tsx), and     *)
(* passes the session user's own token.                                    *)
(***************************************************************************)
EXTENDS Naturals

CONSTANTS
    Users,
    None,        \* no user, no token, no sidecar
    Calls,       \* async calls in flight in the main process
    Overlap,     \* whether a login may begin while an earlier sync or logout runs
    MaxEvents    \* bound: logins, presses of start, stop and restart, faults (CLI
                 \* errors, failed mints, daemon deaths) and exits of the application

ASSUME NoneAssumption == None \notin Users
ASSUME OverlapAssumption == Overlap \in BOOLEAN
ASSUME BoundsAssumption == MaxEvents \in Nat

VARIABLES
    session,     \* the user logged in
    token,       \* config.json: the user whose PAT is cached
    sidecar,     \* .desktop-user-id
    daemon,      \* the daemon process: stage, credentials, old version, busy
    state,       \* currentState
    guard,       \* operationInProgress
    pending,     \* pendingVersionRestart
    cli,         \* cachedCliBinary: unresolved, found, missing
    call,        \* the frame of each call in flight
    logins, ops, stops, faults, exits,
    torn         \* history: an exit fell between the two files of a sync

files  == <<token, sidecar>>
counts == <<logins, ops, stops, faults, exits, torn>>
vars   == <<session, files, daemon, state, guard, pending, cli, call, counts>>

Stages == {"down", "spawned", "authed", "running"}
States == {"installing_cli", "cli_not_found", "stopped", "starting", "running", "stopping"}
Seen   == {"none", "current", "idleOld", "busyOld"}
Points ==
    {"idle", "readConfig", "readUser", "mint", "writeConfig", "writeUser",
     "userAsk", "autoAsk", "verAsk", "verGot",
     "startAsk", "startGot", "startCli", "startWait", "stop", "stopCli", "stopDone",
     "pollAsk", "pollGot", "clearRead", "clearWrite", "clearUser", "logoutStop"}
Owner  == Users \cup {None}

Frame ==
    [at : Points, user : Owner, jwt : Owner, tok : Owner, prev : Owner, seen : Seen,
     guarded : BOOLEAN, restart : BOOLEAN]

Idle ==
    [at |-> "idle", user |-> None, jwt |-> None, tok |-> None, prev |-> None,
     seen |-> "none", guarded |-> FALSE, restart |-> FALSE]

Running == daemon.proc = "running"

(* The application starts over files and a daemon of an earlier run: none, or
   those of one user, the daemon perhaps started by an older CLI. *)
Init ==
    /\ session = None
    /\ \E u \in Owner, p \in {"down", "running"}, old \in BOOLEAN :
         /\ token = u /\ sidecar = u
         /\ p = "running" => u # None
         /\ daemon = [proc |-> p, tok |-> IF p = "running" THEN u ELSE None,
                      old |-> old /\ p = "running", busy |-> FALSE]
    /\ state = "installing_cli"
    /\ guard = FALSE
    /\ pending = FALSE
    /\ cli = "unresolved"
    /\ call = [c \in Calls |-> Idle]
    /\ logins = 0 /\ ops = 0 /\ stops = 0 /\ faults = 0 /\ exits = 0
    /\ torn = FALSE

At(c, p) == call[c].at = p

Jump(c, p) == call' = [call EXCEPT ![c] = [@ EXCEPT !.at = p]]

(* Go on without the variables of what came before. *)
Enter(c, p) == call' = [call EXCEPT ![c] = [Idle EXCEPT !.at = p, !.guarded = call[c].guarded]]

(* A call returns; withGuard's finally releases the guard if it took it. *)
Release(c) == guard' = (guard /\ ~ call[c].guarded)

Return(c) == call' = [call EXCEPT ![c] = Idle] /\ Release(c)

(* A call returns having called pollOnce without waiting for it. *)
ReturnAndPoll(c) ==
    call' = [call EXCEPT ![c] = [Idle EXCEPT !.at = "pollAsk"]] /\ Release(c)

MoreEvents == logins + ops + faults + exits < MaxEvents

Fault == MoreEvents /\ faults' = faults + 1

-----------------------------------------------------------------------------
(* The renderer *)

SyncPoints ==
    {"readConfig", "readUser", "mint", "writeConfig", "writeUser"}

SessionPoints ==
    SyncPoints \cup {"userAsk", "autoAsk", "clearRead", "clearWrite",
                     "clearUser", "logoutStop"}

(* No call of an earlier login or logout is still running. *)
Settled == \A c \in Calls : call[c].at \notin SessionPoints /\ ~ call[c].guarded

(* The [user] effect: syncToken, then autoStart. *)
Sync(c, jwt, u) ==
    /\ call[c] = Idle
    /\ call' = [call EXCEPT ![c] = [Idle EXCEPT !.at = "readConfig", !.user = u, !.jwt = jwt]]

Login(c, u) ==
    /\ MoreEvents
    /\ Overlap \/ Settled
    /\ Sync(c, u, u)
    /\ session' = u
    /\ logins' = logins + 1
    /\ UNCHANGED <<files, daemon, state, guard, pending, cli, ops, stops, faults, exits, torn>>

(* handleDaemonLogout: clearToken, then stop. *)
Logout(c) ==
    /\ session # None
    /\ call[c] = Idle
    /\ session' = None
    /\ call' = [call EXCEPT ![c] = [Idle EXCEPT !.at = "clearRead"]]
    /\ UNCHANGED <<files, daemon, state, guard, pending, cli, counts>>

(* Start, stop and restart from the runtime card, and the restart after the first
   workspace: refused while another guarded operation runs. *)
Press(c, p, again) ==
    /\ MoreEvents
    /\ call[c] = Idle
    /\ ~ guard
    /\ guard' = TRUE
    /\ call' = [call EXCEPT ![c] = [Idle EXCEPT !.at = p, !.guarded = TRUE, !.restart = again]]
    /\ ops' = ops + 1
    /\ stops' = IF p = "stop" /\ ~ again THEN stops + 1 ELSE stops
    /\ UNCHANGED <<session, files, daemon, state, pending, cli, logins, faults, exits, torn>>

Operate(c) == Press(c, "startAsk", FALSE) \/ Press(c, "stop", FALSE) \/ Press(c, "stop", TRUE)

-----------------------------------------------------------------------------
(* syncToken *)

ReadConfig(c) ==
    /\ At(c, "readConfig")
    /\ call' = [call EXCEPT ![c] = [@ EXCEPT !.tok = token, !.at = "readUser"]]
    /\ UNCHANGED <<session, files, daemon, state, guard, pending, cli, counts>>

(* Mutant: a cached token is reused whoever it was minted for. *)
AnyCached(c) == call[c].tok # None

SameUserWithCachedPat(c) == sidecar = call[c].user /\ call[c].tok # None

(* The renderer may pass a PAT, which is written through; else the cached one is
   reused, or a new one minted. *)
ReadUser(c) ==
    /\ At(c, "readUser")
    /\ \/ call' = [call EXCEPT ![c] =
             [@ EXCEPT !.prev = sidecar, !.tok = call[c].jwt, !.at = "writeConfig"]]
       \/ /\ SameUserWithCachedPat(c)
          /\ call' = [call EXCEPT ![c] = [@ EXCEPT !.prev = sidecar, !.at = "writeConfig"]]
       \/ /\ ~ SameUserWithCachedPat(c)
          /\ call' = [call EXCEPT ![c] = [@ EXCEPT !.prev = sidecar, !.at = "mint"]]
    /\ UNCHANGED <<session, files, daemon, state, guard, pending, cli, counts>>

MintPat(c) ==
    /\ At(c, "mint")
    /\ call' = [call EXCEPT ![c] = [@ EXCEPT !.tok = call[c].jwt, !.at = "writeConfig"]]
    /\ UNCHANGED <<session, files, daemon, state, guard, pending, cli, counts>>

(* The error reaches the renderer, which does not go on to autoStart. *)
MintFails(c) ==
    /\ At(c, "mint")
    /\ Fault
    /\ Return(c)
    /\ UNCHANGED <<session, files, daemon, state, pending, cli, logins, ops, stops, exits, torn>>

WriteConfig(c) ==
    /\ At(c, "writeConfig")
    /\ token' = call[c].tok
    /\ Jump(c, "writeUser")
    /\ UNCHANGED <<session, sidecar, daemon, state, guard, pending, cli, counts>>

UserChanged(c) == call[c].prev # None /\ call[c].prev # call[c].user

(* Mutant: the sidecar is written only when a user was recorded before. *)
WriteUserIfChanged(c) ==
    /\ At(c, "writeUser")
    /\ sidecar' = IF sidecar = None THEN call[c].user ELSE sidecar
    /\ Enter(c, IF UserChanged(c) THEN "userAsk" ELSE "autoAsk")
    /\ UNCHANGED <<session, token, daemon, state, guard, pending, cli, counts>>

WriteUser(c) ==
    /\ At(c, "writeUser")
    /\ sidecar' = call[c].user
    /\ Enter(c, IF UserChanged(c) THEN "userAsk" ELSE "autoAsk")
    /\ UNCHANGED <<session, token, daemon, state, guard, pending, cli, counts>>

(* After a change of user a running daemon is restarted, by a call nobody waits for;
   syncToken is done and the renderer calls autoStart. *)
RestartOnSwitch(c) ==
    /\ At(c, "userAsk")
    /\ IF Running
         THEN \E d \in Calls \ {c} :
                /\ call[d] = Idle
                /\ call' = [call EXCEPT ![c] = [Idle EXCEPT !.at = "autoAsk"],
                                        ![d] = [Idle EXCEPT !.at = "stop", !.restart = TRUE]]
         ELSE Enter(c, "autoAsk")
    /\ UNCHANGED <<session, files, daemon, state, guard, pending, cli, counts>>

-----------------------------------------------------------------------------
(* clearToken, then the renderer's stop *)

ClearRead(c) ==
    /\ At(c, "clearRead")
    /\ Jump(c, IF token = None THEN "clearUser" ELSE "clearWrite")
    /\ UNCHANGED <<session, files, daemon, state, guard, pending, cli, counts>>

ClearWrite(c) ==
    /\ At(c, "clearWrite")
    /\ token' = None
    /\ Jump(c, "clearUser")
    /\ UNCHANGED <<session, sidecar, daemon, state, guard, pending, cli, counts>>

ClearUser(c) ==
    /\ At(c, "clearUser")
    /\ sidecar' = None
    /\ Jump(c, "logoutStop")
    /\ UNCHANGED <<session, token, daemon, state, guard, pending, cli, counts>>

LogoutStop(c) ==
    /\ At(c, "logoutStop")
    /\ IF guard
         THEN Return(c)
         ELSE /\ guard' = TRUE
              /\ call' = [call EXCEPT ![c] = [Idle EXCEPT !.at = "stop", !.guarded = TRUE]]
    /\ UNCHANGED <<session, files, daemon, state, pending, cli, counts>>

-----------------------------------------------------------------------------
(* Health, version check, start, stop *)

Health ==
    IF ~ Running THEN "none"
    ELSE IF ~ daemon.old THEN "current"
    ELSE IF daemon.busy THEN "busyOld" ELSE "idleOld"

Asks == [verAsk |-> "verGot", startAsk |-> "startGot", pollAsk |-> "pollGot"]

(* resolveCliBinary is awaited first by those that run the CLI; without a CLI
   they give up. *)
NeedsCli == {"autoAsk", "startAsk", "stop"}

AskHealth(c) ==
    /\ call[c].at \in DOMAIN Asks
    /\ call[c].at \in NeedsCli => cli = "found"
    /\ call' = [call EXCEPT ![c] = [@ EXCEPT !.seen = Health, !.at = Asks[call[c].at]]]
    /\ UNCHANGED <<session, files, daemon, state, guard, pending, cli, counts>>

NoCli(c) ==
    /\ call[c].at \in NeedsCli
    /\ cli = "missing"
    /\ Return(c)
    /\ UNCHANGED <<session, files, daemon, state, pending, cli, counts>>

(* autoStart: a daemon that answers has its version checked, else one is started. *)
AutoStart(c) ==
    /\ At(c, "autoAsk")
    /\ cli = "found"
    /\ Enter(c, IF Running THEN "verAsk" ELSE "startAsk")
    /\ UNCHANGED <<session, files, daemon, state, guard, pending, cli, counts>>

(* decideVersionAction on the health that was read, and its consequences. *)
decideVersionAction(seen) ==
    CASE seen = "none" -> "not_running"
      [] seen = "current" -> "ok"
      [] seen = "busyOld" -> "defer"
      [] seen = "idleOld" -> "restart"

VerGot(c) ==
    /\ At(c, "verGot")
    /\ LET action == decideVersionAction(call[c].seen) IN
         /\ pending' = (action = "defer")
         /\ IF action = "restart"
              THEN /\ call' = [call EXCEPT ![c] = [Idle EXCEPT !.at = "stop", !.restart = TRUE]]
                   /\ UNCHANGED guard
              ELSE Return(c)
    /\ UNCHANGED <<session, files, daemon, state, cli, counts>>

StartGot(c) ==
    /\ At(c, "startGot")
    /\ IF call[c].seen # "none"
         THEN ReturnAndPoll(c) /\ UNCHANGED state
         ELSE state' = "starting" /\ Jump(c, "startCli") /\ UNCHANGED guard
    /\ UNCHANGED <<session, files, daemon, pending, cli, counts>>

(* `daemon start`: an error if a daemon answers, else a child is spawned; the child
   exits at once if another has bound the port. *)
StartCli(c) ==
    /\ At(c, "startCli")
    /\ \/ /\ ~ Running
          /\ daemon' = IF daemon.proc = "down"
                         THEN [proc |-> "spawned", tok |-> None, old |-> FALSE, busy |-> FALSE]
                         ELSE daemon
          /\ Jump(c, "startWait")
          /\ UNCHANGED <<state, guard, faults>>
       \/ /\ (Running /\ UNCHANGED faults) \/ Fault
          /\ state' = "stopped"
          /\ Return(c)
          /\ UNCHANGED daemon
    /\ UNCHANGED <<session, files, pending, cli, logins, ops, stops, exits, torn>>

StartWait(c) ==
    /\ At(c, "startWait")
    /\ ReturnAndPoll(c)
    /\ UNCHANGED <<session, files, daemon, state, pending, cli, counts>>

StopDaemon(c) ==
    /\ At(c, "stop")
    /\ cli = "found"
    /\ state' = "stopping"
    /\ Jump(c, "stopCli")
    /\ UNCHANGED <<session, files, daemon, guard, pending, cli, counts>>

Down == [proc |-> "down", tok |-> None, old |-> FALSE, busy |-> FALSE]

(* `daemon stop` finds a daemon by its health endpoint; a failure of the CLI ends
   a restart. *)
StopCli(c) ==
    /\ At(c, "stopCli")
    /\ \/ /\ daemon' = IF Running THEN Down ELSE daemon
          /\ Jump(c, "stopDone")
          /\ UNCHANGED faults
       \/ /\ Fault
          /\ call' = [call EXCEPT ![c] = [@ EXCEPT !.at = "stopDone", !.restart = FALSE]]
          /\ UNCHANGED daemon
    /\ UNCHANGED <<session, files, state, guard, pending, cli, logins, ops, stops, exits, torn>>

(* Mutant: a restart ends with the stop. *)
StopOnly(c) ==
    /\ At(c, "stopDone")
    /\ state' = "stopped"
    /\ Return(c)
    /\ UNCHANGED <<session, files, daemon, pending, cli, counts>>

StopDone(c) ==
    /\ At(c, "stopDone")
    /\ state' = "stopped"
    /\ IF call[c].restart THEN Enter(c, "startAsk") /\ UNCHANGED guard ELSE Return(c)
    /\ UNCHANGED <<session, files, daemon, pending, cli, counts>>

-----------------------------------------------------------------------------
(* The poll, and the CLI *)

(* Ticks are 5 s apart and a probe ends in 2 s: two of the timer's polls do not
   overlap. Polling starts when the CLI has been found. *)
Poll(c) ==
    /\ cli = "found"
    /\ call[c] = Idle
    /\ \A d \in Calls : call[d].at \notin {"pollAsk", "pollGot"}
    /\ call' = [call EXCEPT ![c] = [Idle EXCEPT !.at = "pollGot", !.seen = Health]]
    /\ UNCHANGED <<session, files, daemon, state, guard, pending, cli, counts>>

(* Mutant: the status of the health payload is shown as it is. *)
RawStatus(seen) ==
    IF seen # "none" THEN "running"
    ELSE IF state = "starting" THEN "starting" ELSE seen

(* Mutant: a state that is being left is kept until its operation says otherwise. *)
KeepTransition(seen) ==
    IF state \in {"starting", "stopping"} THEN state
    ELSE IF seen = "none" THEN "stopped" ELSE "running"

fetchHealth(seen) ==
    IF seen # "none" THEN "running"
    ELSE IF state = "starting" THEN "starting" ELSE "stopped"

(* Mutant: the poll only reports. *)
RetryNever(s) == FALSE

RetryDeferred(s) == pending /\ s = "running"

PollGot(c) ==
    /\ At(c, "pollGot")
    /\ state' = fetchHealth(call[c].seen)
    /\ IF RetryDeferred(fetchHealth(call[c].seen))
         THEN Enter(c, "verAsk") /\ UNCHANGED guard
         ELSE Return(c)
    /\ UNCHANGED <<session, files, daemon, pending, cli, counts>>

(* bootstrapCli, at start and on retry-install. *)
ResolveCli ==
    /\ cli = "unresolved"
    /\ \/ cli' = "found" /\ state' = "stopped" /\ UNCHANGED faults
       \/ Fault /\ cli' = "missing" /\ state' = "cli_not_found"
    /\ UNCHANGED <<session, files, daemon, guard, pending, call, logins, ops, stops, exits, torn>>

RetryInstall ==
    /\ cli = "missing"
    /\ cli' = "unresolved"
    /\ UNCHANGED <<session, files, daemon, state, guard, pending, call, counts>>

-----------------------------------------------------------------------------
(* The daemon process *)

(* Run: bind the port, read the token, and only later answer on /health. *)
LoadAuth ==
    /\ daemon.proc = "spawned"
    /\ daemon' = IF token = None THEN Down ELSE [daemon EXCEPT !.proc = "authed", !.tok = token]
    /\ UNCHANGED <<session, files, state, guard, pending, cli, call, counts>>

ServeHealth ==
    /\ daemon.proc = "authed"
    /\ daemon' = [daemon EXCEPT !.proc = "running"]
    /\ UNCHANGED <<session, files, state, guard, pending, cli, call, counts>>

Die ==
    /\ daemon.proc # "down"
    /\ Fault
    /\ daemon' = Down
    /\ UNCHANGED <<session, files, state, guard, pending, cli, call, logins, ops, stops, exits, torn>>

TaskBeginsOrEnds ==
    /\ Running
    /\ daemon' = [daemon EXCEPT !.busy = ~ daemon.busy]
    /\ UNCHANGED <<session, files, state, guard, pending, cli, call, counts>>

(* The application exits and is started again; with autoStop the daemon may have
   been stopped (preventDefault comes after an await, so the exit may win). *)
Exit ==
    /\ MoreEvents
    /\ exits' = exits + 1
    /\ session' = None
    /\ daemon' \in {daemon, IF Running THEN Down ELSE daemon}
    /\ state' = "installing_cli"
    /\ cli' = "unresolved"
    /\ guard' = FALSE
    /\ pending' = FALSE
    /\ call' = [c \in Calls |-> Idle]
    /\ torn' = (torn \/ \E c \in Calls : At(c, "writeUser"))
    /\ UNCHANGED <<files, logins, ops, stops, faults>>

-----------------------------------------------------------------------------

Step(c) ==
    \/ ReadConfig(c) \/ ReadUser(c) \/ MintPat(c) \/ MintFails(c)
    \/ WriteConfig(c) \/ WriteUser(c) \/ RestartOnSwitch(c)
    \/ ClearRead(c) \/ ClearWrite(c) \/ ClearUser(c) \/ LogoutStop(c)
    \/ AskHealth(c) \/ NoCli(c) \/ AutoStart(c) \/ VerGot(c)
    \/ StartGot(c) \/ StartCli(c) \/ StartWait(c)
    \/ StopDaemon(c) \/ StopCli(c) \/ StopDone(c)
    \/ PollGot(c)

World == ResolveCli \/ RetryInstall \/ LoadAuth \/ ServeHealth \/ Die \/ TaskBeginsOrEnds \/ Exit

Main == World \/ \E c \in Calls : Operate(c) \/ Poll(c) \/ Step(c)

Next ==
    \/ Main
    \/ \E c \in Calls : Logout(c) \/ \E u \in Users : Login(c, u)

Spec == Init /\ [][Next]_vars

(* An async call goes on, the timer ticks, the CLI is resolved, a daemon boots. *)
Fairness ==
    /\ \A c \in Calls : WF_vars(Step(c))
    /\ SF_vars(\E c \in Calls : Poll(c))
    /\ WF_vars(ResolveCli) /\ WF_vars(LoadAuth) /\ WF_vars(ServeHealth)

FairSpec == Spec /\ Fairness

-----------------------------------------------------------------------------

TypeOK ==
    /\ session \in Owner
    /\ token \in Owner
    /\ sidecar \in Owner
    /\ daemon \in [proc : Stages, tok : Owner, old : BOOLEAN, busy : BOOLEAN]
    /\ state \in States
    /\ guard \in BOOLEAN
    /\ pending \in BOOLEAN
    /\ cli \in {"unresolved", "found", "missing"}
    /\ call \in [Calls -> Frame]
    /\ logins \in Nat /\ ops \in Nat /\ stops \in Nat /\ faults \in Nat /\ exits \in Nat
    /\ torn \in BOOLEAN

(* The sidecar never vouches for somebody else's token: outside the window between
   the two writes of a sync, the user it names is the owner of the cached PAT
   (syncToken, clearToken), whatever a logout in flight does to the files. An exit
   inside the window is the exception, remembered in torn. *)
SidecarTruthful ==
    \/ token = None \/ sidecar = None \/ sidecar = token
    \/ torn
    \/ \E c \in Calls : At(c, "writeUser")

(* A sync only ever writes a token of the user it was called for: what it reused from
   the config it read before the sidecar belongs to that user ("without it, a previous
   user's PAT would be used by a new session"). *)
OwnToken ==
    torn \/ \A c \in Calls :
              call[c].at \in {"writeConfig", "writeUser"} => call[c].tok = call[c].user

(* When every call has returned, a daemon that answers holds the token of the session's
   user: syncToken restarts it "so the in-memory token in the Go process matches the new
   config", and logout stops it. *)
SessionDaemon ==
    (Running /\ session # None /\ faults + exits = 0 /\ \A c \in Calls : call[c] = Idle)
        => daemon.tok = session

(* Login brings a daemon up: while the user stays logged in, presses no stop and
   nothing fails, the sync, the auto-start, the restarts by user switch, version
   and button end with a daemon that answers, in whatever order they meet. *)
LoginBringsUp ==
    \A u \in Users :
        (session = u /\ faults = 0)
            ~> (Running \/ session # u \/ faults > 0 \/ stops > 0)

(* The state shown in the end is the daemon's: a poll that answers late, a stop or
   start callback that comes after it, and a second start that the CLI refuses may
   each show a wrong state, but not for ever. *)
StatusConverges ==
    <>[](Running /\ cli = "found") => <>[](state = "running")

(* A restart deferred because the daemon was busy does happen once it stays idle, by
   the poll ("the poll loop retries the check on each tick and fires the restart"),
   unless the CLI fails to stop the daemon: then nothing is pending any more. *)
DeferredRestartFires ==
    <>[](~ daemon.busy)
        => (pending ~> (~ Running \/ ~ daemon.old \/ exits > 0 \/ faults > 0))
=============================================================================
