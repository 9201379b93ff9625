------------------------------- MODULE DesktopApp -------------------------------
(***************************************************************************)
(* DaemonManager with the renderer as it is (apps/desktop/src/renderer/    *)
(* src/App.tsx, packages/core/auth/store.ts): the session's token is in    *)
(* localStorage, the auth store keeps it under one key and the effect that *)
(* syncs the daemon reads another.                                         *)
(***************************************************************************)
EXTENDS DaemonManager

VARIABLE store   \* localStorage: for each key the user whose token it holds

StoredKey == "multicacan_token"
SyncedKey == "multica_token"

(* A token under the other key is left from an installation before the renaming. *)
AppInit ==
    /\ Init
    /\ store \in [{StoredKey, SyncedKey} -> Owner]
    /\ store[StoredKey] = None

(* loginWithToken or verifyCode, then the [user] effect of AppContent. *)
AppLogin(c, u) ==
    /\ MoreEvents
    /\ Overlap \/ Settled
    /\ store' = [store EXCEPT ![StoredKey] = u]
    /\ session' = u
    /\ IF store[SyncedKey] = None THEN UNCHANGED call ELSE Sync(c, store[SyncedKey], u)
    /\ logins' = logins + 1
    /\ UNCHANGED <<files, daemon, state, guard, pending, cli, ops, stops, faults, exits, torn>>

AppLogout(c) ==
    /\ Logout(c)
    /\ store' = [store EXCEPT ![StoredKey] = None]

AppNext ==
    \/ Main /\ UNCHANGED store
    \/ \E c \in Calls : AppLogout(c) \/ \E u \in Users : AppLogin(c, u)

AppSpec == AppInit /\ [][AppNext]_<<vars, store>> /\ Fairness
=============================================================================
