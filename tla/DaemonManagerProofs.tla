-------------------------- MODULE DaemonManagerProofs --------------------------
(***************************************************************************)
(* Whose token the desktop application caches and hands to the daemon, for *)
(* any number of users, calls in flight and events.                        *)
(***************************************************************************)
EXTENDS DaemonManager, TLAPS

(* The frames of a sync are for a user, and carry that user's own token. *)
SyncsOwn ==
    \A c \in Calls : call[c].at \in SyncPoints =>
        call[c].user \in Users /\ call[c].jwt = call[c].user

(* A login begins when nothing of an earlier one runs: one sync at a time. *)
OneSync ==
    \A c, d \in Calls : call[c].at \in SyncPoints /\ call[d].at \in SyncPoints => c = d

Agree(s, t) == s = None \/ t = None \/ s = t

(* The two files agree but between the two writes of a sync; so do the token a *)
(* sync has read and the sidecar it is about to read, whatever a logout clears. *)
FilesAgree ==
    /\ Agree(sidecar, token) \/ \E c \in Calls : At(c, "writeUser")
    /\ \A c \in Calls :
        /\ At(c, "readUser") => Agree(sidecar, call[c].tok)
        /\ call[c].at \in {"writeConfig", "writeUser"} => call[c].tok = call[c].user
        /\ At(c, "writeUser") => Agree(call[c].user, token)

IInv == TypeOK /\ SyncsOwn /\ OneSync /\ (torn \/ FilesAgree)

----------------------------------------------------------------------------
(* Types *)

LEMMA FramesOf ==
    ASSUME NEW f \in Frame
    PROVE  /\ \A p \in Points : [f EXCEPT !.at = p] \in Frame
           /\ \A p \in Points, u \in Owner : [f EXCEPT !.tok = u, !.at = p] \in Frame
           /\ \A p \in Points, u \in Owner : [f EXCEPT !.prev = u, !.at = p] \in Frame
           /\ \A p \in Points, u, v \in Owner : [f EXCEPT !.prev = u, !.tok = v, !.at = p] \in Frame
           /\ \A p \in Points, s \in Seen : [f EXCEPT !.seen = s, !.at = p] \in Frame
           /\ \A p \in Points, r \in BOOLEAN : [f EXCEPT !.at = p, !.restart = r] \in Frame
           /\ \A p \in Points, g \in BOOLEAN : [f EXCEPT !.at = p, !.guarded = g] \in Frame
           /\ \A p \in Points, g, r \in BOOLEAN : [f EXCEPT !.at = p, !.guarded = g, !.restart = r] \in Frame
           /\ \A p \in Points, u, v \in Owner : [f EXCEPT !.at = p, !.user = u, !.jwt = v] \in Frame
           /\ \A p \in Points, s \in Seen : [f EXCEPT !.at = p, !.seen = s] \in Frame
<1>1. \A p \in Points : [f EXCEPT !.at = p] \in Frame
  BY DEF Frame
<1>2. \A p \in Points, u \in Owner : [f EXCEPT !.tok = u, !.at = p] \in Frame
  BY DEF Frame
<1>3. \A p \in Points, u \in Owner : [f EXCEPT !.prev = u, !.at = p] \in Frame
  BY DEF Frame
<1>4. \A p \in Points, u, v \in Owner : [f EXCEPT !.prev = u, !.tok = v, !.at = p] \in Frame
  BY DEF Frame
<1>5. \A p \in Points, s \in Seen : [f EXCEPT !.seen = s, !.at = p] \in Frame
  BY DEF Frame
<1>6. \A p \in Points, r \in BOOLEAN : [f EXCEPT !.at = p, !.restart = r] \in Frame
  BY DEF Frame
<1>7. \A p \in Points, g \in BOOLEAN : [f EXCEPT !.at = p, !.guarded = g] \in Frame
  BY DEF Frame
<1>8. \A p \in Points, g, r \in BOOLEAN : [f EXCEPT !.at = p, !.guarded = g, !.restart = r] \in Frame
  BY DEF Frame
<1>9. \A p \in Points, u, v \in Owner : [f EXCEPT !.at = p, !.user = u, !.jwt = v] \in Frame
  BY DEF Frame
<1>10. \A p \in Points, s \in Seen : [f EXCEPT !.at = p, !.seen = s] \in Frame
  BY DEF Frame
<1> QED BY <1>1, <1>2, <1>3, <1>4, <1>5, <1>6, <1>7, <1>8, <1>9, <1>10

LEMMA IdleFrame == Idle \in Frame
BY DEF Idle, Frame, Points, Owner, Seen

LEMMA InitType == Init => TypeOK
<1> SUFFICES ASSUME Init PROVE TypeOK
  OBVIOUS
<1>1. call \in [Calls -> Frame]
  BY IdleFrame DEF Init
<1>2. session \in Owner /\ token \in Owner /\ sidecar \in Owner
  BY DEF Init, Owner
<1>3. daemon \in [proc : Stages, tok : Owner, old : BOOLEAN, busy : BOOLEAN]
  <2>1. PICK u \in Owner, p \in {"down", "running"}, old \in BOOLEAN :
          daemon = [proc |-> p, tok |-> IF p = "running" THEN u ELSE None,
                    old |-> old /\ p = "running", busy |-> FALSE]
    BY DEF Init
  <2>2. None \in Owner /\ p \in Stages /\ (old /\ p = "running") \in BOOLEAN
    BY DEF Owner, Stages
  <2> QED BY <2>1, <2>2
<1> QED BY <1>1, <1>2, <1>3 DEF Init, TypeOK, States

(* The frames of a step of c, and all the rest. *)
LEMMA CallType ==
    ASSUME TypeOK, NEW c \in Calls
    PROVE  /\ call[c] \in Frame
           /\ \A f \in Frame : [call EXCEPT ![c] = f] \in [Calls -> Frame]
           /\ \A f, h \in Frame, d \in Calls : [call EXCEPT ![c] = f, ![d] = h] \in [Calls -> Frame]
           /\ \A p \in Points : Jump(c, p) => call' \in [Calls -> Frame]
           /\ \A p \in Points : Enter(c, p) => call' \in [Calls -> Frame]
           /\ Return(c) => call' \in [Calls -> Frame] /\ guard' \in BOOLEAN
           /\ ReturnAndPoll(c) => call' \in [Calls -> Frame] /\ guard' \in BOOLEAN
<1>1. call \in [Calls -> Frame] /\ call[c] \in Frame
  BY DEF TypeOK
<1>2. \A f \in Frame : [call EXCEPT ![c] = f] \in [Calls -> Frame]
  BY <1>1
<1>3. \A f, h \in Frame, d \in Calls : [call EXCEPT ![c] = f, ![d] = h] \in [Calls -> Frame]
  BY <1>1
<1>4. call[c].guarded \in BOOLEAN /\ guard \in BOOLEAN
  BY <1>1 DEF Frame, TypeOK
<1>5. \A p \in Points : Jump(c, p) => call' \in [Calls -> Frame]
  <2> SUFFICES ASSUME NEW p \in Points, Jump(c, p) PROVE call' \in [Calls -> Frame]
    OBVIOUS
  <2>1. [call[c] EXCEPT !.at = p] \in Frame
    BY <1>1, FramesOf
  <2>2. call' = [call EXCEPT ![c] = [call[c] EXCEPT !.at = p]]
    BY DEF Jump
  <2> QED BY <1>2, <2>1, <2>2
<1>6. \A p \in Points : Enter(c, p) => call' \in [Calls -> Frame]
  <2> SUFFICES ASSUME NEW p \in Points, Enter(c, p) PROVE call' \in [Calls -> Frame]
    OBVIOUS
  <2>1. [Idle EXCEPT !.at = p, !.guarded = call[c].guarded] \in Frame
    BY <1>4, IdleFrame, FramesOf
  <2> QED BY <1>2, <2>1 DEF Enter
<1>7. Return(c) => call' \in [Calls -> Frame] /\ guard' \in BOOLEAN
  BY <1>2, <1>4, IdleFrame DEF Return, Release
<1>8. ReturnAndPoll(c) => call' \in [Calls -> Frame] /\ guard' \in BOOLEAN
  <2>1. [Idle EXCEPT !.at = "pollAsk"] \in Frame
    <3>1. "pollAsk" \in Points
      BY DEF Points
    <3> QED BY <3>1, IdleFrame, FramesOf
  <2> QED BY <1>2, <1>4, <2>1 DEF ReturnAndPoll, Release
<1> QED BY <1>1, <1>2, <1>3, <1>5, <1>6, <1>7, <1>8

----------------------------------------------------------------------------
(* Every step keeps the types. *)

LEMMA OwnerIn == None \in Owner /\ Users \subseteq Owner /\ Health \in Seen
BY DEF Owner, Health, Seen

LEMMA DaemonOf ==
    ASSUME TypeOK, NEW D, D = [proc : Stages, tok : Owner, old : BOOLEAN, busy : BOOLEAN]
    PROVE  /\ daemon \in D /\ Down \in D
           /\ [proc |-> "spawned", tok |-> None, old |-> FALSE, busy |-> FALSE] \in D
BY DEF TypeOK, Down, Stages, Owner

LEMMA RendererType ==
    ASSUME TypeOK, NEW c \in Calls,
           Operate(c) \/ Logout(c) \/ \E u \in Users : Login(c, u)
    PROVE  TypeOK'
<1>1. ASSUME NEW p \in {"startAsk", "stop"}, NEW again \in BOOLEAN, Press(c, p, again) PROVE TypeOK'
  <2>1. p \in Points
    BY DEF Points
  <2>2. call' \in [Calls -> Frame]
    BY <1>1, <2>1, IdleFrame, FramesOf, CallType DEF Press
  <2> QED BY <1>1, <2>2 DEF Press, TypeOK, files
<1>2. ASSUME Logout(c) PROVE TypeOK'
  <2>1. "clearRead" \in Points
    BY DEF Points
  <2>2. call' \in [Calls -> Frame]
    BY <1>2, <2>1, IdleFrame, FramesOf, CallType DEF Logout
  <2> QED BY <1>2, <2>2, OwnerIn DEF Logout, TypeOK, files, counts
<1>3. ASSUME NEW u \in Users, Login(c, u) PROVE TypeOK'
  <2>1. "readConfig" \in Points /\ u \in Owner
    BY DEF Points, Owner
  <2>2. call' \in [Calls -> Frame]
    BY <1>3, <2>1, IdleFrame, FramesOf, CallType DEF Login, Sync
  <2> QED BY <1>3, <2>1, <2>2 DEF Login, TypeOK, files
<1> QED BY <1>1, <1>2, <1>3 DEF Operate

LEMMA SyncType ==
    ASSUME TypeOK, NEW c \in Calls,
           \/ ReadConfig(c) \/ ReadUser(c) \/ MintPat(c) \/ MintFails(c)
           \/ WriteConfig(c) \/ WriteUser(c) \/ RestartOnSwitch(c)
    PROVE  TypeOK'
<1>1. call[c] \in Frame /\ call[c].tok \in Owner /\ call[c].jwt \in Owner /\ call[c].user \in Owner
      /\ token \in Owner /\ sidecar \in Owner
  BY CallType DEF TypeOK, Frame
<1>2. {"readUser", "mint", "writeConfig", "writeUser", "userAsk", "autoAsk", "stop"} \subseteq Points
  BY DEF Points
<1>3. CASE ReadConfig(c)
  <2>1. [call[c] EXCEPT !.tok = token, !.at = "readUser"] \in Frame
    BY <1>1, <1>2, FramesOf
  <2>2. call' \in [Calls -> Frame]
    BY <1>3, <2>1, CallType DEF ReadConfig
  <2> QED BY <1>3, <2>2 DEF ReadConfig, TypeOK, files, counts
<1>4. CASE ReadUser(c)
  <2>1. /\ [call[c] EXCEPT !.prev = sidecar, !.tok = call[c].jwt, !.at = "writeConfig"] \in Frame
        /\ [call[c] EXCEPT !.prev = sidecar, !.at = "writeConfig"] \in Frame
        /\ [call[c] EXCEPT !.prev = sidecar, !.at = "mint"] \in Frame
    BY <1>1, <1>2, FramesOf
  <2>2. call' \in [Calls -> Frame]
    BY <1>4, <2>1, CallType DEF ReadUser
  <2> QED BY <1>4, <2>2 DEF ReadUser, TypeOK, files, counts
<1>5. CASE MintPat(c)
  <2>1. [call[c] EXCEPT !.tok = call[c].jwt, !.at = "writeConfig"] \in Frame
    BY <1>1, <1>2, FramesOf
  <2>2. call' \in [Calls -> Frame]
    BY <1>5, <2>1, CallType DEF MintPat
  <2> QED BY <1>5, <2>2 DEF MintPat, TypeOK, files, counts
<1>6. CASE MintFails(c)
  <2>1. call' \in [Calls -> Frame] /\ guard' \in BOOLEAN
    BY <1>6, CallType DEF MintFails
  <2> QED BY <1>6, <2>1 DEF MintFails, Fault, TypeOK, files
<1>7. CASE WriteConfig(c)
  <2>1. call' \in [Calls -> Frame]
    BY <1>2, <1>7, CallType DEF WriteConfig
  <2> QED BY <1>1, <1>7, <2>1 DEF WriteConfig, TypeOK, counts
<1>8. CASE WriteUser(c)
  <2>1. call' \in [Calls -> Frame]
    BY <1>2, <1>8, CallType DEF WriteUser
  <2> QED BY <1>1, <1>8, <2>1 DEF WriteUser, TypeOK, counts
<1>9. CASE RestartOnSwitch(c)
  <2>1. [Idle EXCEPT !.at = "autoAsk"] \in Frame /\ [Idle EXCEPT !.at = "stop", !.restart = TRUE] \in Frame
    BY <1>2, IdleFrame, FramesOf
  <2>2. call' \in [Calls -> Frame]
    BY <1>2, <1>9, <2>1, CallType DEF RestartOnSwitch
  <2> QED BY <1>9, <2>2 DEF RestartOnSwitch, TypeOK, files, counts
<1> QED BY <1>3, <1>4, <1>5, <1>6, <1>7, <1>8, <1>9

LEMMA ClearType ==
    ASSUME TypeOK, NEW c \in Calls,
           ClearRead(c) \/ ClearWrite(c) \/ ClearUser(c) \/ LogoutStop(c)
    PROVE  TypeOK'
<1>1. {"clearWrite", "clearUser", "logoutStop", "stop"} \subseteq Points
  BY DEF Points
<1>2. CASE ClearRead(c)
  <2>1. call' \in [Calls -> Frame]
    BY <1>1, <1>2, CallType DEF ClearRead
  <2> QED BY <1>2, <2>1 DEF ClearRead, TypeOK, files, counts
<1>3. CASE ClearWrite(c)
  <2>1. call' \in [Calls -> Frame]
    BY <1>1, <1>3, CallType DEF ClearWrite
  <2> QED BY <1>3, <2>1, OwnerIn DEF ClearWrite, TypeOK, counts
<1>4. CASE ClearUser(c)
  <2>1. call' \in [Calls -> Frame]
    BY <1>1, <1>4, CallType DEF ClearUser
  <2> QED BY <1>4, <2>1, OwnerIn DEF ClearUser, TypeOK, counts
<1>5. CASE LogoutStop(c)
  <2>1. [Idle EXCEPT !.at = "stop", !.guarded = TRUE] \in Frame
    BY <1>1, IdleFrame, FramesOf
  <2>2. call' \in [Calls -> Frame] /\ guard' \in BOOLEAN
    BY <1>5, <2>1, CallType DEF LogoutStop
  <2> QED BY <1>5, <2>2 DEF LogoutStop, TypeOK, files, counts
<1> QED BY <1>2, <1>3, <1>4, <1>5

LEMMA DaemonType ==
    ASSUME TypeOK, NEW c \in Calls,
           \/ AskHealth(c) \/ NoCli(c) \/ AutoStart(c) \/ VerGot(c) \/ StartGot(c) \/ StartCli(c)
           \/ StartWait(c) \/ StopDaemon(c) \/ StopCli(c) \/ StopDone(c) \/ PollGot(c) \/ Poll(c)
    PROVE  TypeOK'
<1>1. {"verAsk", "verGot", "startAsk", "startGot", "startCli", "startWait", "stop", "stopCli",
       "stopDone", "pollGot"} \subseteq Points
  BY DEF Points
<1>2. call[c] \in Frame /\ call \in [Calls -> Frame]
  BY DEF TypeOK
<1>3. CASE AskHealth(c)
  <2>1. Asks[call[c].at] \in Points
    BY <1>1, <1>3 DEF AskHealth, Asks
  <2>2. [call[c] EXCEPT !.seen = Health, !.at = Asks[call[c].at]] \in Frame
    BY <1>2, <2>1, OwnerIn, FramesOf
  <2>3. call' \in [Calls -> Frame]
    BY <1>3, <2>2, CallType DEF AskHealth
  <2> QED BY <1>3, <2>3 DEF AskHealth, TypeOK, files, counts
<1>4. CASE NoCli(c)
  <2>1. call' \in [Calls -> Frame] /\ guard' \in BOOLEAN
    BY <1>4, CallType DEF NoCli
  <2> QED BY <1>4, <2>1 DEF NoCli, TypeOK, files, counts
<1>5. CASE AutoStart(c)
  <2>1. call' \in [Calls -> Frame]
    BY <1>1, <1>5, CallType DEF AutoStart
  <2> QED BY <1>5, <2>1 DEF AutoStart, TypeOK, files, counts
<1>6. CASE VerGot(c)
  <2>1. [Idle EXCEPT !.at = "stop", !.restart = TRUE] \in Frame
    BY <1>1, IdleFrame, FramesOf
  <2>2. call' \in [Calls -> Frame] /\ guard' \in BOOLEAN
    BY <1>6, <2>1, CallType DEF VerGot, TypeOK
  <2>3. pending' \in BOOLEAN
    BY <1>6 DEF VerGot
  <2> QED BY <1>6, <2>2, <2>3 DEF VerGot, TypeOK, files, counts
<1>7. CASE StartGot(c)
  <2>1. call' \in [Calls -> Frame] /\ guard' \in BOOLEAN
    BY <1>1, <1>7, CallType DEF StartGot, TypeOK
  <2> QED BY <1>7, <2>1 DEF StartGot, TypeOK, States, files, counts
<1>8. CASE StartCli(c)
  <2>1. call' \in [Calls -> Frame] /\ guard' \in BOOLEAN
    BY <1>1, <1>8, CallType DEF StartCli, TypeOK
  <2>2. daemon' \in [proc : Stages, tok : Owner, old : BOOLEAN, busy : BOOLEAN]
    BY <1>8, DaemonOf DEF StartCli
  <2> QED BY <1>8, <2>1, <2>2 DEF StartCli, Fault, TypeOK, States, files
<1>9. CASE StartWait(c)
  <2>1. call' \in [Calls -> Frame] /\ guard' \in BOOLEAN
    BY <1>9, CallType DEF StartWait
  <2> QED BY <1>9, <2>1 DEF StartWait, TypeOK, files, counts
<1>10. CASE StopDaemon(c)
  <2>1. call' \in [Calls -> Frame]
    BY <1>1, <1>10, CallType DEF StopDaemon
  <2> QED BY <1>10, <2>1 DEF StopDaemon, TypeOK, States, files, counts
<1>11. CASE StopCli(c)
  <2>1. [call[c] EXCEPT !.at = "stopDone", !.restart = FALSE] \in Frame
    BY <1>1, <1>2, FramesOf
  <2>2. call' \in [Calls -> Frame]
    BY <1>1, <1>11, <2>1, CallType DEF StopCli
  <2>3. daemon' \in [proc : Stages, tok : Owner, old : BOOLEAN, busy : BOOLEAN]
    BY <1>11, DaemonOf DEF StopCli
  <2> QED BY <1>11, <2>2, <2>3 DEF StopCli, Fault, TypeOK, files
<1>12. CASE StopDone(c)
  <2>1. call' \in [Calls -> Frame] /\ guard' \in BOOLEAN
    BY <1>1, <1>12, CallType DEF StopDone, TypeOK
  <2> QED BY <1>12, <2>1 DEF StopDone, TypeOK, States, files, counts
<1>13. CASE PollGot(c)
  <2>1. call' \in [Calls -> Frame] /\ guard' \in BOOLEAN
    BY <1>1, <1>13, CallType DEF PollGot, TypeOK
  <2> QED BY <1>13, <2>1 DEF PollGot, fetchHealth, TypeOK, States, files, counts
<1>14. CASE Poll(c)
  <2>1. [Idle EXCEPT !.at = "pollGot", !.seen = Health] \in Frame
    BY <1>1, IdleFrame, OwnerIn, FramesOf
  <2>2. call' \in [Calls -> Frame]
    BY <1>14, <2>1, CallType DEF Poll
  <2> QED BY <1>14, <2>2 DEF Poll, TypeOK, files, counts
<1> QED BY <1>3, <1>4, <1>5, <1>6, <1>7, <1>8, <1>9, <1>10, <1>11, <1>12, <1>13, <1>14

LEMMA WorldType ==
    ASSUME TypeOK, World
    PROVE  TypeOK'
<1> USE DEF TypeOK
<1>1. CASE ResolveCli
  BY <1>1 DEF ResolveCli, Fault, States, files
<1>2. CASE RetryInstall
  BY <1>2 DEF RetryInstall, files, counts
<1>3. CASE LoadAuth
  <2>1. daemon' \in [proc : Stages, tok : Owner, old : BOOLEAN, busy : BOOLEAN]
    BY <1>3, OwnerIn DEF LoadAuth, Down, Stages
  <2> QED BY <1>3, <2>1 DEF LoadAuth, files, counts
<1>4. CASE ServeHealth
  BY <1>4 DEF ServeHealth, Stages, files, counts
<1>5. CASE Die
  BY <1>5, OwnerIn DEF Die, Fault, Down, Stages, files
<1>6. CASE TaskBeginsOrEnds
  BY <1>6 DEF TaskBeginsOrEnds, files, counts
<1>7. CASE Exit
  <2>1. daemon' \in [proc : Stages, tok : Owner, old : BOOLEAN, busy : BOOLEAN]
    BY <1>7, DaemonOf DEF Exit
  <2>2. call' \in [Calls -> Frame]
    BY <1>7, IdleFrame DEF Exit
  <2>3. torn' \in BOOLEAN
    BY <1>7 DEF Exit
  <2>4. session' \in Owner /\ state' \in States /\ cli' \in {"unresolved", "found", "missing"}
        /\ guard' \in BOOLEAN /\ pending' \in BOOLEAN
    BY <1>7, OwnerIn DEF Exit, States
  <2> QED BY <1>7, <2>1, <2>2, <2>3, <2>4 DEF Exit, files
<1> QED BY <1>1, <1>2, <1>3, <1>4, <1>5, <1>6, <1>7 DEF World

LEMMA StepType == TypeOK /\ [Next]_vars => TypeOK'
<1>1. ASSUME TypeOK, UNCHANGED vars PROVE TypeOK'
  BY <1>1 DEF vars, TypeOK, files, counts
<1>2. ASSUME TypeOK, Next PROVE TypeOK'
  BY <1>2, WorldType, RendererType, SyncType, ClearType, DaemonType DEF Next, Main, Step
<1> QED BY <1>1, <1>2

(* Every call in flight is where an await can leave it, and every variable   *)
(* has its type, for any number of users, calls and events.                  *)
THEOREM TypeCorrect == Spec => []TypeOK
BY InitType, StepType, PTL DEF Spec

----------------------------------------------------------------------------
(* The files *)

LEMMA InitFiles == Init => IInv
<1> SUFFICES ASSUME Init PROVE IInv
  OBVIOUS
<1>1. \A c \in Calls : call[c].at = "idle"
  BY DEF Init, Idle
<1>2. SyncsOwn /\ OneSync
  BY <1>1 DEF SyncsOwn, OneSync, SyncPoints
<1>3. FilesAgree
  <2>1. sidecar = token
    BY DEF Init
  <2> QED BY <1>1, <2>1 DEF FilesAgree, Agree, At
<1> QED BY <1>2, <1>3, InitType DEF IInv

(* A step beside the syncs: the frames it changes leave no window open and enter no sync. *)
Aside ==
    \A d \in Calls :
        call'[d] = call[d] \/ (call[d].at # "writeUser" /\ call'[d].at \notin SyncPoints)

LEMMA AsideKeeps ==
    ASSUME IInv, TypeOK', Aside, UNCHANGED <<token, sidecar, torn>>
    PROVE  IInv'
<1>1. \A d \in Calls : call'[d].at \in SyncPoints => call'[d] = call[d]
  BY DEF Aside
<1>2. SyncsOwn'
  BY <1>1 DEF IInv, SyncsOwn
<1>3. OneSync'
  BY <1>1 DEF IInv, OneSync
<1>4. ASSUME FilesAgree PROVE FilesAgree'
  <2>1. \A c \in Calls : At(c, "writeUser") => At(c, "writeUser")'
    BY DEF Aside, At
  <2>2. Agree(sidecar, token)' \/ \E c \in Calls : At(c, "writeUser")'
    BY <1>4, <2>1 DEF FilesAgree, Agree
  <2>3. ASSUME NEW c \in Calls
        PROVE  /\ At(c, "readUser")' => Agree(sidecar, call[c].tok)'
               /\ call'[c].at \in {"writeConfig", "writeUser"} => call'[c].tok = call'[c].user
               /\ At(c, "writeUser")' => Agree(call[c].user, token)'
    <3>1. CASE call'[c] = call[c]
      BY <1>4, <3>1 DEF FilesAgree, At, Agree
    <3>2. CASE call'[c].at \notin SyncPoints
      BY <3>2 DEF SyncPoints, At
    <3> QED BY <3>1, <3>2 DEF Aside
  <2> QED BY <2>2, <2>3 DEF FilesAgree
<1> QED BY <1>2, <1>3, <1>4 DEF IInv

(* The ways a frame moves on, all of them beside the syncs. *)
LEMMA Elsewhere ==
    ASSUME TypeOK, NEW c \in Calls, call[c].at # "writeUser"
    PROVE  /\ \A f : f.at \notin SyncPoints /\ call' = [call EXCEPT ![c] = f] => Aside
           /\ \A p : p \notin SyncPoints /\ Jump(c, p) => Aside
           /\ \A p : p \notin SyncPoints /\ Enter(c, p) => Aside
           /\ Return(c) => Aside
           /\ ReturnAndPoll(c) => Aside
<1>0. call \in [Calls -> Frame]
  BY DEF TypeOK
<1>1. \A f : f.at \notin SyncPoints /\ call' = [call EXCEPT ![c] = f] => Aside
  BY <1>0 DEF Aside
<1>2. \A p : p \notin SyncPoints /\ Jump(c, p) => Aside
  <2> SUFFICES ASSUME NEW p, p \notin SyncPoints, Jump(c, p) PROVE Aside
    OBVIOUS
  <2>1. call' = [call EXCEPT ![c] = [call[c] EXCEPT !.at = p]]
    BY DEF Jump
  <2>2. [call[c] EXCEPT !.at = p].at = p
    BY <1>0 DEF Frame
  <2> QED BY <1>1, <2>1, <2>2
<1>3. \A p : p \notin SyncPoints /\ Enter(c, p) => Aside
  <2> SUFFICES ASSUME NEW p, p \notin SyncPoints, Enter(c, p) PROVE Aside
    OBVIOUS
  <2>1. [Idle EXCEPT !.at = p, !.guarded = call[c].guarded].at = p
    BY DEF Idle
  <2> QED BY <1>1, <2>1 DEF Enter
<1>4. "idle" \notin SyncPoints /\ "pollAsk" \notin SyncPoints
  BY DEF SyncPoints
<1>5. Return(c) => Aside
  <2>1. Idle.at = "idle"
    BY DEF Idle
  <2> QED BY <1>1, <1>4, <2>1 DEF Return
<1>6. ReturnAndPoll(c) => Aside
  <2>1. [Idle EXCEPT !.at = "pollAsk"].at = "pollAsk"
    BY DEF Idle
  <2> QED BY <1>1, <1>4, <2>1 DEF ReturnAndPoll
<1> QED BY <1>1, <1>2, <1>3, <1>5, <1>6

LEMMA NoSync ==
    \A p \in {"idle", "userAsk", "autoAsk", "verAsk", "verGot", "startAsk", "startGot", "startCli",
              "startWait", "stop", "stopCli", "stopDone", "pollAsk", "pollGot", "clearRead",
              "clearWrite", "clearUser", "logoutStop"} : p \notin SyncPoints /\ p # "writeUser"
BY DEF SyncPoints

(* A frame made anew. *)
LEMMA Anew ==
    ASSUME TypeOK, NEW c \in Calls, call[c].at # "writeUser", NEW p, p \notin SyncPoints
    PROVE  /\ call' = [call EXCEPT ![c] = [Idle EXCEPT !.at = p]] => Aside
           /\ call' = [call EXCEPT ![c] = [Idle EXCEPT !.at = p, !.restart = TRUE]] => Aside
           /\ call' = [call EXCEPT ![c] = [Idle EXCEPT !.at = p, !.guarded = TRUE]] => Aside
           /\ \A r : call' = [call EXCEPT ![c] = [Idle EXCEPT !.at = p, !.guarded = TRUE, !.restart = r]] => Aside
           /\ \A s : call' = [call EXCEPT ![c] = [Idle EXCEPT !.at = p, !.seen = s]] => Aside
           /\ \A s : call' = [call EXCEPT ![c] = [call[c] EXCEPT !.seen = s, !.at = p]] => Aside
<1>1. [Idle EXCEPT !.at = p].at = p /\ [Idle EXCEPT !.at = p, !.restart = TRUE].at = p
      /\ [Idle EXCEPT !.at = p, !.guarded = TRUE].at = p
  BY DEF Idle
<1>2. \A r : [Idle EXCEPT !.at = p, !.guarded = TRUE, !.restart = r].at = p
  BY DEF Idle
<1>3. \A s : [Idle EXCEPT !.at = p, !.seen = s].at = p
  BY DEF Idle
<1>4. \A s : [call[c] EXCEPT !.seen = s, !.at = p].at = p
  BY DEF TypeOK, Frame
<1>5. \A f : f.at \notin SyncPoints /\ call' = [call EXCEPT ![c] = f] => Aside
  BY Elsewhere
<1>6. \A r : call' = [call EXCEPT ![c] = [Idle EXCEPT !.at = p, !.guarded = TRUE, !.restart = r]] => Aside
  BY <1>2, <1>5
<1>7. \A s : call' = [call EXCEPT ![c] = [Idle EXCEPT !.at = p, !.seen = s]] => Aside
  BY <1>3, <1>5
<1>8. \A s : call' = [call EXCEPT ![c] = [call[c] EXCEPT !.seen = s, !.at = p]] => Aside
  BY <1>4, <1>5
<1> QED BY <1>1, <1>5, <1>6, <1>7, <1>8

(* Start, stop, restart, version check and poll, and the beginning of a logout. *)
LEMMA DaemonAside ==
    ASSUME TypeOK, NEW c \in Calls,
           \/ AskHealth(c) \/ NoCli(c) \/ AutoStart(c) \/ VerGot(c) \/ StartGot(c) \/ StartCli(c)
           \/ StartWait(c) \/ StopDaemon(c) \/ StopCli(c) \/ StopDone(c) \/ PollGot(c) \/ Poll(c)
           \/ RestartOnSwitch(c) \/ MintFails(c) \/ ClearRead(c) \/ LogoutStop(c)
           \/ Operate(c) \/ Logout(c)
    PROVE  Aside /\ UNCHANGED <<token, sidecar, torn>>
<1>0. call \in [Calls -> Frame] /\ call[c] \in Frame
  BY DEF TypeOK
<1>1. call[c].at # "writeUser"
  BY DEF AskHealth, Asks, NoCli, NeedsCli, AutoStart, VerGot, StartGot, StartCli, StartWait,
                StopDaemon, StopCli, StopDone, PollGot, Poll, RestartOnSwitch, MintFails, ClearRead,
                LogoutStop, Operate, Press, Logout, Idle, At
<1>2. UNCHANGED <<token, sidecar, torn>>
  BY DEF AskHealth, NoCli, AutoStart, VerGot, StartGot, StartCli, StartWait, StopDaemon, StopCli,
         StopDone, PollGot, Poll, RestartOnSwitch, MintFails, ClearRead, LogoutStop, Operate, Press,
         Logout, files, counts
<1>3. CASE AskHealth(c)
  <2>1. Asks[call[c].at] \in {"verGot", "startGot", "pollGot"}
    BY <1>3 DEF AskHealth, Asks
  <2>2. Asks[call[c].at] \notin SyncPoints
    BY <2>1, NoSync
  <2>3. call' = [call EXCEPT ![c] = [call[c] EXCEPT !.seen = Health, !.at = Asks[call[c].at]]]
    BY <1>3 DEF AskHealth
  <2> QED BY <1>1, <1>2, <2>2, <2>3, Anew
<1>4. CASE NoCli(c) \/ MintFails(c)
  BY <1>1, <1>2, <1>4, Elsewhere DEF NoCli, MintFails
<1>5. CASE AutoStart(c)
  BY <1>1, <1>2, <1>5, NoSync, Elsewhere DEF AutoStart
<1>6. CASE VerGot(c)
  <2>1. Return(c) \/ call' = [call EXCEPT ![c] = [Idle EXCEPT !.at = "stop", !.restart = TRUE]]
    BY <1>6 DEF VerGot
  <2>2. "stop" \notin SyncPoints
    BY NoSync
  <2> QED BY <1>1, <1>2, <2>1, <2>2, Elsewhere, Anew
<1>7. CASE StartGot(c)
  BY <1>1, <1>2, <1>7, NoSync, Elsewhere DEF StartGot
<1>8. CASE StartCli(c)
  BY <1>1, <1>2, <1>8, NoSync, Elsewhere DEF StartCli
<1>9. CASE StartWait(c)
  BY <1>1, <1>2, <1>9, Elsewhere DEF StartWait
<1>10. CASE StopDaemon(c)
  BY <1>1, <1>2, <1>10, NoSync, Elsewhere DEF StopDaemon
<1>11. CASE StopCli(c)
  <2>1. CASE Jump(c, "stopDone")
    BY <1>1, <1>2, <2>1, NoSync, Elsewhere
  <2>2. CASE call' = [call EXCEPT ![c] = [call[c] EXCEPT !.at = "stopDone", !.restart = FALSE]]
    <3>1. [call[c] EXCEPT !.at = "stopDone", !.restart = FALSE].at = "stopDone"
      BY <1>0 DEF Frame
    <3> QED BY <1>1, <1>2, <2>2, <3>1, NoSync, Elsewhere
  <2> QED BY <1>11, <2>1, <2>2 DEF StopCli
<1>12. CASE StopDone(c)
  BY <1>1, <1>2, <1>12, NoSync, Elsewhere DEF StopDone
<1>13. CASE PollGot(c)
  BY <1>1, <1>2, <1>13, NoSync, Elsewhere DEF PollGot
<1>14. CASE Poll(c)
  <2>1. "pollGot" \notin SyncPoints
    BY NoSync
  <2>2. call' = [call EXCEPT ![c] = [Idle EXCEPT !.at = "pollGot", !.seen = Health]]
    BY <1>14 DEF Poll
  <2> QED BY <1>1, <1>2, <2>1, <2>2, Anew
<1>15. CASE RestartOnSwitch(c)
  <2>1. CASE Running
    <3>1. PICK d \in Calls \ {c} :
            /\ call[d] = Idle
            /\ call' = [call EXCEPT ![c] = [Idle EXCEPT !.at = "autoAsk"],
                                    ![d] = [Idle EXCEPT !.at = "stop", !.restart = TRUE]]
      BY <1>15, <2>1 DEF RestartOnSwitch
    <3>2. call[d].at # "writeUser"
      BY <3>1 DEF Idle
    <3>3. /\ call'[c] = [Idle EXCEPT !.at = "autoAsk"]
          /\ call'[d] = [Idle EXCEPT !.at = "stop", !.restart = TRUE]
          /\ \A e \in Calls \ {c, d} : call'[e] = call[e]
      BY <1>0, <3>1
    <3>4. call'[c].at = "autoAsk" /\ call'[d].at = "stop"
      BY <3>3 DEF Idle
    <3> QED BY <1>1, <1>2, <3>2, <3>3, <3>4, NoSync DEF Aside
  <2>2. CASE ~ Running
    BY <1>1, <1>2, <1>15, <2>2, NoSync, Elsewhere DEF RestartOnSwitch
  <2> QED BY <2>1, <2>2
<1>16. CASE ClearRead(c)
  BY <1>1, <1>2, <1>16, NoSync, Elsewhere DEF ClearRead
<1>17. CASE LogoutStop(c)
  <2>1. Return(c) \/ call' = [call EXCEPT ![c] = [Idle EXCEPT !.at = "stop", !.guarded = TRUE]]
    BY <1>17 DEF LogoutStop
  <2>2. "stop" \notin SyncPoints
    BY NoSync
  <2> QED BY <1>1, <1>2, <2>1, <2>2, Elsewhere, Anew
<1>18. CASE Operate(c)
  <2>1. ASSUME NEW p \in {"startAsk", "stop"}, NEW r, Press(c, p, r) PROVE Aside
    <3>1. p \notin SyncPoints
      BY NoSync
    <3>2. call' = [call EXCEPT ![c] = [Idle EXCEPT !.at = p, !.guarded = TRUE, !.restart = r]]
      BY <2>1 DEF Press
    <3> QED BY <1>1, <3>1, <3>2, Anew
  <2> QED BY <1>2, <1>18, <2>1 DEF Operate
<1>19. CASE Logout(c)
  <2>1. "clearRead" \notin SyncPoints
    BY NoSync
  <2> QED BY <1>1, <1>2, <1>19, <2>1, Anew DEF Logout
<1> QED BY <1>3, <1>4, <1>5, <1>6, <1>7, <1>8, <1>9, <1>10, <1>11, <1>12, <1>13, <1>14, <1>15,
           <1>16, <1>17, <1>18, <1>19

(* A login beside nothing else. *)
LEMMA LoginFiles ==
    ASSUME IInv, TypeOK', Overlap = FALSE, NEW c \in Calls, NEW u \in Users, Login(c, u)
    PROVE  IInv'
<1>1. call \in [Calls -> Frame] /\ \A d \in Calls : call[d].at \notin SyncPoints
  <2>1. Settled
    BY DEF Login
  <2> QED BY <2>1 DEF Settled, SessionPoints, IInv, TypeOK
<1>2. UNCHANGED <<token, sidecar, torn>>
  BY DEF Login, files
<1>3. /\ call'[c] = [Idle EXCEPT !.at = "readConfig", !.user = u, !.jwt = u]
      /\ \A d \in Calls \ {c} : call'[d] = call[d]
  BY <1>1 DEF Login, Sync
<1>4. call'[c].at = "readConfig" /\ call'[c].user = u /\ call'[c].jwt = u
  BY <1>3 DEF Idle
<1>5. SyncsOwn'
  BY <1>1, <1>3, <1>4 DEF SyncsOwn
<1>6. OneSync'
  BY <1>1, <1>3 DEF OneSync
<1>7. \A d \in Calls : call[d].at # "writeUser"
                       /\ call'[d].at \notin {"readUser", "writeConfig", "writeUser"}
  BY <1>1, <1>3, <1>4 DEF SyncPoints
<1>8. FilesAgree => FilesAgree'
  BY <1>2, <1>7 DEF FilesAgree, Agree, At
<1> QED BY <1>2, <1>5, <1>6, <1>8 DEF IInv

(* A step of the one sync there is: where its frame stands after the step, what it holds, *)
(* and the files then.                                                                    *)
LEMMA SyncStep ==
    ASSUME IInv, TypeOK', NEW c \in Calls, call[c].at \in SyncPoints, UNCHANGED torn,
           NEW f \in Frame, call' = [call EXCEPT ![c] = f],
           f.at \in SyncPoints => f.user = call[c].user /\ f.jwt = call[c].jwt,
           ~ torn => /\ Agree(sidecar', token') \/ f.at = "writeUser"
                     /\ f.at = "readUser" => Agree(sidecar', f.tok)
                     /\ f.at \in {"writeConfig", "writeUser"} => f.tok = f.user
                     /\ f.at = "writeUser" => Agree(f.user, token')
    PROVE  IInv'
<1>1. /\ call \in [Calls -> Frame] /\ call'[c] = f
      /\ \A d \in Calls \ {c} : call'[d] = call[d]
  BY DEF IInv, TypeOK
<1>2. \A d \in Calls \ {c} : call'[d] = call[d] /\ call[d].at \notin SyncPoints
  BY <1>1 DEF IInv, OneSync
<1>3. SyncsOwn'
  BY <1>1, <1>2 DEF SyncsOwn, IInv
<1>4. OneSync'
  BY <1>2 DEF OneSync
<1>5. \A d \in Calls \ {c} : call'[d].at \notin {"readUser", "writeConfig", "writeUser"}
  BY <1>2 DEF SyncPoints
<1>6. ASSUME ~ torn PROVE FilesAgree'
  <2>1. Agree(sidecar, token)' \/ At(c, "writeUser")'
    BY <1>1, <1>6 DEF Agree, At
  <2>2. /\ At(c, "readUser")' => Agree(sidecar, call[c].tok)'
        /\ call'[c].at \in {"writeConfig", "writeUser"} => call'[c].tok = call'[c].user
        /\ At(c, "writeUser")' => Agree(call[c].user, token)'
    BY <1>1, <1>6 DEF Agree, At
  <2> QED BY <1>5, <2>1, <2>2 DEF FilesAgree, At
<1> QED BY <1>3, <1>4, <1>6 DEF IInv

LEMMA SyncFiles ==
    ASSUME IInv, TypeOK', NEW c \in Calls,
           ReadConfig(c) \/ ReadUser(c) \/ MintPat(c) \/ WriteConfig(c) \/ WriteUser(c)
    PROVE  IInv'
<1>1. /\ call[c] \in Frame /\ token \in Owner /\ sidecar \in Owner
      /\ call[c].tok \in Owner /\ call[c].user \in Owner /\ call[c].jwt \in Owner
  BY DEF IInv, TypeOK, Frame
<1>2. call[c].at \in SyncPoints
  BY DEF ReadConfig, ReadUser, MintPat, WriteConfig, WriteUser, At, SyncPoints
<1>3. call[c].user \in Users /\ call[c].jwt = call[c].user
  BY <1>2 DEF IInv, SyncsOwn
<1>4. {"readUser", "mint", "writeConfig", "writeUser", "userAsk", "autoAsk"} \subseteq Points
  BY DEF Points
<1>5. ASSUME ~ torn, call[c].at # "writeUser" PROVE Agree(sidecar, token)
  <2>1. \A d \in Calls : ~ At(d, "writeUser")
    BY <1>2, <1>5 DEF IInv, OneSync, At, SyncPoints
  <2> QED BY <1>5, <2>1 DEF IInv, FilesAgree
<1>6. CASE ReadConfig(c)
  <2> DEFINE f == [call[c] EXCEPT !.tok = token, !.at = "readUser"]
  <2>1. f \in Frame
    BY <1>1, <1>4, FramesOf
  <2>2. f.at = "readUser" /\ f.tok = token /\ f.user = call[c].user /\ f.jwt = call[c].jwt
    BY <1>1 DEF Frame
  <2>3. call' = [call EXCEPT ![c] = f] /\ UNCHANGED <<token, sidecar, torn>> /\ call[c].at # "writeUser"
    BY <1>6 DEF ReadConfig, At, files, counts
  <2> HIDE DEF f
  <2> QED BY <1>2, <1>5, <2>1, <2>2, <2>3, SyncStep
<1>7. CASE ReadUser(c)
  <2>0. UNCHANGED <<token, sidecar, torn>> /\ call[c].at = "readUser"
    BY <1>7 DEF ReadUser, At, files, counts
  <2>1. CASE call' = [call EXCEPT ![c] =
               [call[c] EXCEPT !.prev = sidecar, !.tok = call[c].jwt, !.at = "writeConfig"]]
    <3> DEFINE f == [call[c] EXCEPT !.prev = sidecar, !.tok = call[c].jwt, !.at = "writeConfig"]
    <3>1. f \in Frame
      BY <1>1, <1>4, FramesOf
    <3>2. f.at = "writeConfig" /\ f.tok = call[c].jwt /\ f.user = call[c].user /\ f.jwt = call[c].jwt
      BY <1>1 DEF Frame
    <3>3. call' = [call EXCEPT ![c] = f]
      BY <2>1
    <3> HIDE DEF f
    <3> QED BY <1>2, <1>3, <1>5, <2>0, <3>1, <3>2, <3>3, SyncStep
  <2>2. CASE /\ SameUserWithCachedPat(c)
             /\ call' = [call EXCEPT ![c] = [call[c] EXCEPT !.prev = sidecar, !.at = "writeConfig"]]
    <3> DEFINE f == [call[c] EXCEPT !.prev = sidecar, !.at = "writeConfig"]
    <3>1. f \in Frame
      BY <1>1, <1>4, FramesOf
    <3>2. f.at = "writeConfig" /\ f.tok = call[c].tok /\ f.user = call[c].user /\ f.jwt = call[c].jwt
      BY <1>1 DEF Frame
    <3>3. call' = [call EXCEPT ![c] = f]
      BY <2>2
    <3>4. ~ torn => call[c].tok = call[c].user
      <4>1. ~ torn => Agree(sidecar, call[c].tok)
        BY <2>0 DEF IInv, FilesAgree, At
      <4> QED BY <1>3, <2>2, <4>1, NoneAssumption DEF SameUserWithCachedPat, Agree
    <3> HIDE DEF f
    <3> QED BY <1>2, <1>5, <2>0, <3>1, <3>2, <3>3, <3>4, SyncStep
  <2>3. CASE call' = [call EXCEPT ![c] = [call[c] EXCEPT !.prev = sidecar, !.at = "mint"]]
    <3> DEFINE f == [call[c] EXCEPT !.prev = sidecar, !.at = "mint"]
    <3>1. f \in Frame
      BY <1>1, <1>4, FramesOf
    <3>2. f.at = "mint" /\ f.user = call[c].user /\ f.jwt = call[c].jwt
      BY <1>1 DEF Frame
    <3>3. call' = [call EXCEPT ![c] = f]
      BY <2>3
    <3> HIDE DEF f
    <3> QED BY <1>2, <1>5, <2>0, <3>1, <3>2, <3>3, SyncStep
  <2> QED BY <1>7, <2>1, <2>2, <2>3 DEF ReadUser
<1>8. CASE MintPat(c)
  <2> DEFINE f == [call[c] EXCEPT !.tok = call[c].jwt, !.at = "writeConfig"]
  <2>1. f \in Frame
    BY <1>1, <1>4, FramesOf
  <2>2. f.at = "writeConfig" /\ f.tok = call[c].jwt /\ f.user = call[c].user /\ f.jwt = call[c].jwt
    BY <1>1 DEF Frame
  <2>3. call' = [call EXCEPT ![c] = f] /\ UNCHANGED <<token, sidecar, torn>> /\ call[c].at # "writeUser"
    BY <1>8 DEF MintPat, At, files, counts
  <2> HIDE DEF f
  <2> QED BY <1>2, <1>3, <1>5, <2>1, <2>2, <2>3, SyncStep
<1>9. CASE WriteConfig(c)
  <2> DEFINE f == [call[c] EXCEPT !.at = "writeUser"]
  <2>1. f \in Frame
    BY <1>1, <1>4, FramesOf
  <2>2. f.at = "writeUser" /\ f.tok = call[c].tok /\ f.user = call[c].user /\ f.jwt = call[c].jwt
    BY <1>1 DEF Frame
  <2>3. call' = [call EXCEPT ![c] = f] /\ token' = call[c].tok /\ UNCHANGED torn
    BY <1>9 DEF WriteConfig, Jump, counts
  <2>4. ~ torn => call[c].tok = call[c].user
    BY <1>9 DEF WriteConfig, At, IInv, FilesAgree
  <2>5. ~ torn => Agree(f.user, token')
    BY <2>2, <2>3, <2>4 DEF Agree
  <2> HIDE DEF f
  <2> QED BY <1>2, <2>1, <2>2, <2>3, <2>4, <2>5, SyncStep
<1>10. CASE WriteUser(c)
  <2>1. PICK p \in {"userAsk", "autoAsk"} : Enter(c, p)
    BY <1>10 DEF WriteUser
  <2> DEFINE f == [Idle EXCEPT !.at = p, !.guarded = call[c].guarded]
  <2>2. f \in Frame
    <3>1. call[c].guarded \in BOOLEAN /\ p \in Points
      BY <1>1, <1>4 DEF Frame
    <3> QED BY <3>1, IdleFrame, FramesOf
  <2>3. f.at = p /\ p \notin SyncPoints /\ p \notin {"readUser", "writeConfig", "writeUser"}
    BY DEF Idle, SyncPoints
  <2>4. call' = [call EXCEPT ![c] = f]
    BY <2>1 DEF Enter
  <2>5. UNCHANGED torn /\ sidecar' = call[c].user /\ token' = token
    BY <1>10 DEF WriteUser, counts
  <2>6. ~ torn => Agree(sidecar', token')
    BY <1>10, <2>5 DEF WriteUser, At, IInv, FilesAgree
  <2> HIDE DEF f
  <2> QED BY <1>2, <2>2, <2>3, <2>4, <2>5, <2>6, SyncStep
<1> QED BY <1>6, <1>7, <1>8, <1>9, <1>10

(* A logout clears the files under a sync that has read them. *)
LEMMA ClearFiles ==
    ASSUME IInv, TypeOK', NEW c \in Calls, ClearWrite(c) \/ ClearUser(c)
    PROVE  IInv'
<1>1. /\ UNCHANGED torn
      /\ \/ token' = None /\ sidecar' = sidecar
         \/ sidecar' = None /\ token' = token
  BY DEF ClearWrite, ClearUser, counts
<1>2. call[c].at # "writeUser"
  BY DEF ClearWrite, ClearUser, At
<1>3. Aside
  BY <1>2, NoSync, Elsewhere DEF ClearWrite, ClearUser, IInv
<1>4. \A d \in Calls : call'[d].at \in SyncPoints => call'[d] = call[d]
  BY <1>3 DEF Aside
<1>5. SyncsOwn'
  BY <1>4 DEF IInv, SyncsOwn
<1>6. OneSync'
  BY <1>4 DEF IInv, OneSync
<1>7. ASSUME FilesAgree PROVE FilesAgree'
  <2>1. Agree(sidecar, token)'
    BY <1>1 DEF Agree
  <2>2. ASSUME NEW d \in Calls
        PROVE  /\ At(d, "readUser")' => Agree(sidecar, call[d].tok)'
               /\ call'[d].at \in {"writeConfig", "writeUser"} => call'[d].tok = call'[d].user
               /\ At(d, "writeUser")' => Agree(call[d].user, token)'
    <3>1. CASE call'[d] = call[d]
      BY <1>1, <1>7, <3>1 DEF FilesAgree, At, Agree
    <3>2. CASE call'[d].at \notin SyncPoints
      BY <3>2 DEF SyncPoints, At
    <3> QED BY <1>3, <3>1, <3>2 DEF Aside
  <2> QED BY <2>1, <2>2 DEF FilesAgree
<1> QED BY <1>1, <1>5, <1>6, <1>7 DEF IInv

LEMMA WorldFiles ==
    ASSUME IInv, TypeOK', World
    PROVE  IInv'
<1>1. CASE Exit
  <2>1. \A d \in Calls : call'[d].at = "idle"
    BY <1>1 DEF Exit, Idle
  <2>2. SyncsOwn' /\ OneSync'
    BY <2>1 DEF SyncsOwn, OneSync, SyncPoints
  <2>3. UNCHANGED <<token, sidecar>> /\ torn' = (torn \/ \E d \in Calls : At(d, "writeUser"))
    BY <1>1 DEF Exit, files
  <2>4. ~ torn' => FilesAgree'
    BY <2>1, <2>3 DEF IInv, FilesAgree, At, Agree
  <2> QED BY <2>2, <2>4 DEF IInv
<1>2. CASE UNCHANGED <<call, token, sidecar, torn>>
  BY <1>2, AsideKeeps DEF Aside
<1>3. Exit \/ UNCHANGED <<call, token, sidecar, torn>>
  BY DEF World, ResolveCli, RetryInstall, LoadAuth, ServeHealth, Die, TaskBeginsOrEnds, files, counts
<1> QED BY <1>1, <1>2, <1>3

LEMMA StepFiles == Overlap = FALSE /\ IInv /\ [Next]_vars => IInv'
<1> SUFFICES ASSUME Overlap = FALSE, IInv, [Next]_vars PROVE IInv'
  OBVIOUS
<1>1. TypeOK'
  BY StepType DEF IInv
<1>2. CASE UNCHANGED vars
  BY <1>1, <1>2, AsideKeeps DEF vars, files, counts, Aside
<1>3. CASE World
  BY <1>1, <1>3, WorldFiles
<1>4. ASSUME NEW c \in Calls, NEW u \in Users, Login(c, u) PROVE IInv'
  BY <1>1, <1>4, LoginFiles
<1>5. ASSUME NEW c \in Calls, Operate(c) \/ Poll(c) \/ Logout(c) \/ Step(c) PROVE IInv'
  <2>1. CASE ReadConfig(c) \/ ReadUser(c) \/ MintPat(c) \/ WriteConfig(c) \/ WriteUser(c)
    BY <1>1, <2>1, SyncFiles
  <2>2. CASE ClearWrite(c) \/ ClearUser(c)
    BY <1>1, <2>2, ClearFiles
  <2>3. CASE \/ AskHealth(c) \/ NoCli(c) \/ AutoStart(c) \/ VerGot(c) \/ StartGot(c) \/ StartCli(c)
             \/ StartWait(c) \/ StopDaemon(c) \/ StopCli(c) \/ StopDone(c) \/ PollGot(c) \/ Poll(c)
             \/ RestartOnSwitch(c) \/ MintFails(c) \/ ClearRead(c) \/ LogoutStop(c)
             \/ Operate(c) \/ Logout(c)
    <3>1. Aside /\ UNCHANGED <<token, sidecar, torn>>
      BY <2>3, DaemonAside DEF IInv
    <3> QED BY <1>1, <3>1, AsideKeeps
  <2> QED BY <1>5, <2>1, <2>2, <2>3 DEF Step
<1> QED BY <1>2, <1>3, <1>4, <1>5 DEF Next, Main

(* When a login waits for what an earlier one started, there is one sync at a time, it *)
(* is for its own user, and the files agree but inside its window.                     *)
THEOREM Inductive == Overlap = FALSE => (Spec => []IInv)
<1> SUFFICES ASSUME Overlap = FALSE PROVE Spec => []IInv
  OBVIOUS
<1>1. IInv /\ [Next]_vars => IInv'
  BY StepFiles
<1> QED BY <1>1, InitFiles, PTL DEF Spec

(* The sidecar never vouches for somebody else's token, for any number of users, calls *)
(* and events.                                                                         *)
THEOREM SidecarNeverLies == Overlap = FALSE => (Spec => []SidecarTruthful)
<1>1. IInv => SidecarTruthful
  BY DEF IInv, FilesAgree, Agree, SidecarTruthful
<1> QED BY <1>1, Inductive, PTL

(* A sync writes a token of the user it was called for, reused or minted. *)
THEOREM SyncWritesOwnToken == Overlap = FALSE => (Spec => []OwnToken)
<1>1. IInv => OwnToken
  BY DEF IInv, FilesAgree, OwnToken
<1> QED BY <1>1, Inductive, PTL
=============================================================================
