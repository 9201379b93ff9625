------------------------------- MODULE DesktopTabs -------------------------------
(***************************************************************************)
(* The tabs of the desktop application: the store of TabStore, the memory  *)
(* router each tab has, and what the renderer does with them. A page's     *)
(* navigation adapter pushes and replaces in its own tab unless the path   *)
(* is of another workspace or the active tab is pinned (platform/          *)
(* navigation.tsx); the tab that is visible copies its router's location   *)
(* and history into the store (use-tab-router-sync.ts); the tab bar, links *)
(* in content and the workspace list act on the store directly.            *)
(*                                                                         *)
(* Only the shown workspace's tabs are mounted, and of those only the      *)
(* active one listens to its router, but a page may navigate after its tab *)
(* was left: an answer that arrives late ends in a push.                   *)
(***************************************************************************)
EXTENDS TabStore

CONSTANTS
    MaxTabs,     \* bound: tabs ever created
    MaxEvents    \* bound: steps of a run

ASSUME BoundsAssumption == MaxTabs \in Nat /\ MaxEvents \in Nat

VARIABLES
    store,       \* the tab store
    next,        \* the next tab id
    router,      \* the memory router of each tab: entries and position
    refs,        \* indexRef and lengthRef of useTabRouterSync, per tab
    list,        \* the workspace list rendered last
    fetched,     \* workspaceListFetched
    events,      \* steps so far
    leaked,      \* history: tabs that took a path of a workspace not theirs
    lost         \* history: tabs whose history the refs no longer follow

vars == <<store, next, router, refs, list, fetched, events, leaked, lost>>

Router == [stack : Seq(Location), at : Nat]
Refs   == [at : Nat, len : Nat]
Fresh  == [at |-> 0, len |-> 1]

createTabRouter(p) == [stack |-> <<p>>, at |-> 1]
LocationOf(r)      == r.stack[r.at]

(* getActiveTab: the only tab that is visible, as a set. *)
Visible(s) == IF s.shown = None THEN {} ELSE {s.by[s.shown].active}
Mounted(s) == IF s.shown = None THEN {} ELSE IdsIn(s.by[s.shown])

OwnerOf(s, i)    == CHOOSE w \in DOMAIN s.by : i \in IdsIn(s.by[w])
PositionOf(g, i) == CHOOSE k \in DOMAIN g.tabs : g.tabs[k].id = i
TabOf(s, i)      == LET g == s.by[OwnerOf(s, i)] IN g.tabs[PositionOf(g, i)]

Init ==
    /\ store = reset
    /\ next = 1
    /\ router = [i \in {} |-> createTabRouter(Root)]
    /\ refs = [i \in {} |-> Fresh]
    /\ list = {}
    /\ fetched = FALSE
    /\ events = 0
    /\ leaked = {}
    /\ lost = {}

(* The effect of useTabRouterSync when a tab becomes visible: its path. *)
Synced(s, r) ==
    IF Visible(s) = {} THEN s
    ELSE LET w == s.shown
             k == PositionOf(s.by[w], s.by[w].active)
         IN updateTab(s, w, k, LocationOf(r[s.by[w].active]))

(* The renderer after the store became s: tabs of a workspace that comes  *)
(* into view are mounted anew, with new refs on routers that kept their   *)
(* entries, and the visible tab syncs.                                    *)
Rendered(s) ==
    LET live == LiveIds(s)
        r    == [i \in live |-> IF i \in DOMAIN router THEN router[i]
                                ELSE createTabRouter(TabOf(s, i).path)]
        anew == IF s.shown = store.shown THEN {} ELSE Mounted(s)
    IN /\ store' = Synced(s, r)
       /\ router' = r
       /\ refs' = [i \in live |-> IF i \in DOMAIN refs \ anew THEN refs[i] ELSE Fresh]
       /\ lost' = (lost \cap live) \cup {i \in anew : Len(r[i].stack) > 1}
       /\ next' = IF next \in live THEN next + 1 ELSE next


----------------------------------------------------------------------------
(* Routers *)

Pushed(r, p) == [stack |-> Append(SubSeq(r.stack, 1, r.at), p), at |-> r.at + 1]
Replaced(r, p) == [r EXCEPT !.stack[r.at] = p]
Popped(r)      == [r EXCEPT !.at = IF @ > 1 THEN @ - 1 ELSE @]
Forwarded(r)   == [r EXCEPT !.at = IF @ < Len(r.stack) THEN @ + 1 ELSE @]

(* Mutants: a POP at the first entry counts on; the hint of goForward is lost. *)
RefsPoppedBelow(f) == [f EXCEPT !.at = @ - 1]
RefsHintLost(f)    == [f EXCEPT !.at = IF @ > 0 THEN @ - 1 ELSE @]

RefsPushed(f) == [at |-> f.at + 1, len |-> f.at + 2]

RefsPopped(f) == [f EXCEPT !.at = IF @ > 0 THEN @ - 1 ELSE @]

RefsForwarded(f) == [f EXCEPT !.at = IF @ < f.len - 1 THEN @ + 1 ELSE @]

(* Tab i's router becomes r; its subscription, if it has one, makes its refs f. *)
Navigated(i, r, f) ==
    /\ router' = [router EXCEPT ![i] = r]
    /\ IF i \in Visible(store)
       THEN LET w == store.shown
                k == PositionOf(store.by[w], i)
            IN /\ refs' = [refs EXCEPT ![i] = f]
               /\ store' = updateTabHistory(updateTab(store, w, k, LocationOf(r)), w, k, f.at, f.len)
               /\ lost' = lost
       ELSE /\ lost' = lost \cup {j \in {i} : f # refs[i]}
            /\ UNCHANGED <<store, refs>>
    /\ UNCHANGED <<next, list, fetched>>

----------------------------------------------------------------------------
(* The navigation adapters. i is the tab the page is in; the shell's adapter *)
(* is that of the visible tab.                                               *)

(* Mutant: a pinned tab is pushed to like any other. *)
NeverPinned(p) == FALSE

ActivePinned(p) ==
    \E i \in Visible(store) : TabOf(store, i).pinned /\ LocationOf(router[i]) # p

(* tryRouteToOtherWorkspace *)
Elsewhere(p) ==
    /\ p.ws # store.shown
    /\ Rendered(switchWorkspaceTo(store, p.ws, p, next))
    /\ UNCHANGED <<list, fetched, leaked>>

Here(i, p, r, f) ==
    /\ p.ws = store.shown
    /\ Navigated(i, r, f)
    /\ leaked' = leaked \cup {j \in {i} : OwnerOf(store, i) # p.ws}

PushElsewhere(i, p) == LocationOf(router[i]) # p /\ Elsewhere(p)

(* tryRouteToPinnedNewTab: openTab, then setActiveTab. *)
PushFromPinned(i, p) ==
    /\ LocationOf(router[i]) # p
    /\ p.ws = store.shown
    /\ ActivePinned(p)
    /\ Rendered(Focused(openTab(store, p, next), store.shown, openedBy(store, p, next)))
    /\ UNCHANGED <<list, fetched, leaked>>

(* Also a push that changes only the search, which the path leaves out. *)
PushHere(i, p) ==
    /\ ~ActivePinned(p)
    /\ Here(i, p, Pushed(router[i], p), RefsPushed(refs[i]))

ReplaceElsewhere(p) == Elsewhere(p)
ReplaceHere(i, p)   == Here(i, p, Replaced(router[i], p), refs[i])

(* tryRouteToOverlay: the tab goes to the root while the overlay is open. *)
Transition(i) ==
    /\ LocationOf(router[i]) # Root
    /\ Navigated(i, Replaced(router[i], Root), refs[i])
    /\ UNCHANGED leaked

(* The page's own back: a POP without a hint counts as back. *)
Back(i) ==
    /\ Navigated(i, Popped(router[i]), RefsPopped(refs[i]))
    /\ UNCHANGED leaked

(* The title bar's arrows: enabled by what the store says of the history. *)
GoBack ==
    \E i \in Visible(store) : TabOf(store, i).at > 0 /\ Back(i)

GoForward ==
    \E i \in Visible(store) :
        /\ TabOf(store, i).at < TabOf(store, i).len - 1
        /\ Navigated(i, Forwarded(router[i]), RefsForwarded(refs[i]))
        /\ UNCHANGED leaked

OpenInNewTab(p, activate) ==
    /\ p.ws = store.shown
    /\ LET s == openTab(store, p, next)
       IN Rendered(IF activate THEN Focused(s, s.shown, openedBy(store, p, next)) ELSE s)
    /\ UNCHANGED <<list, fetched, leaked>>

(* useInternalLinkHandler: a link in content or a notification, of any workspace. *)
InternalLink(p) ==
    /\ store.shown # None
    /\ Rendered(Focused(openTab(store, p, next), store.shown, openedBy(store, p, next)))
    /\ leaked' = leaked \cup {i \in {openedBy(store, p, next)} : p.ws # store.shown}
    /\ UNCHANGED <<list, fetched>>

----------------------------------------------------------------------------
(* The tab bar *)

NewTab ==
    /\ store.shown # None
    /\ Rendered(Focused(addTab(store, defaultPathFor(store.shown), next), store.shown, next))
    /\ UNCHANGED <<list, fetched, leaked>>

(* The X is not offered on a pinned tab nor on the only one. *)
CloseTab(k) ==
    /\ store.shown # None
    /\ LET g == store.by[store.shown]
       IN k \in DOMAIN g.tabs /\ ~g.tabs[k].pinned /\ Len(g.tabs) > 1
    /\ LET s == closeTab(store, store.shown, k, next)
       IN Rendered(s) /\ leaked' = leaked \cap LiveIds(s)
    /\ UNCHANGED <<list, fetched>>

Select(k) ==
    /\ store.shown # None
    /\ Known(store, store.shown, k)
    /\ Rendered(setActiveTab(store, store.shown, k))
    /\ UNCHANGED <<list, fetched, leaked>>

TogglePin(k) ==
    /\ store.shown # None
    /\ Known(store, store.shown, k)
    /\ Rendered(togglePin(store, store.shown, k))
    /\ UNCHANGED <<list, fetched, leaked>>

Drag(from, to) ==
    /\ store.shown # None
    /\ Known(store, store.shown, from) /\ Known(store, store.shown, to) /\ from # to
    /\ Rendered(moveTab(store, from, to))
    /\ UNCHANGED <<list, fetched, leaked>>

----------------------------------------------------------------------------
(* The session *)

FirstOf(W) == IF W = {} THEN {None} ELSE W

(* The list arrives or changes, and the effect of AppContent follows. *)
ListArrives(L, w) ==
    /\ w \in L
    /\ \E v \in FirstOf(DOMAIN store.by \cap L) :
        LET s == validateWorkspaceSlugs(store, L, v)
        IN /\ Rendered(IF s.shown = None THEN switchWorkspace(s, w, next) ELSE s)
           /\ leaked' = leaked \cap LiveIds(s)
    /\ list' = L
    /\ fetched' = TRUE

EmptyListArrives ==
    /\ Rendered(reset)
    /\ list' = {}
    /\ fetched' = TRUE
    /\ leaked' = {}

(* WorkspaceRouteLayout: the visible tab's slug is not in the list. *)
Heal ==
    /\ fetched
    /\ \E i \in Visible(store) : LocationOf(router[i]).ws \notin list \cup {None}
    /\ \E v \in FirstOf(DOMAIN store.by \cap list) :
        LET s == validateWorkspaceSlugs(store, list, v)
        IN Rendered(s) /\ leaked' = leaked \cap LiveIds(s)
    /\ UNCHANGED <<list, fetched>>

Logout ==
    /\ Rendered(reset)
    /\ leaked' = {}
    /\ list' = {}
    /\ fetched' = FALSE

(* The application quits and starts again on the persisted store. *)
Restart ==
    /\ \E v \in FirstOf(mergedSlugs(store)) :
        LET s    == merge(store, v)
            live == LiveIds(s)
            r    == [i \in live |-> createTabRouter(TabOf(s, i).path)]
        IN /\ store' = s
           /\ router' = r
           /\ refs' = [i \in live |-> Fresh]
    /\ leaked' = {}
    /\ lost' = {}
    /\ list' = {}
    /\ fetched' = FALSE
    /\ UNCHANGED next

Step ==
    \/ \E i \in DOMAIN router :
        \/ \E p \in Path :
            \/ PushElsewhere(i, p)
            \/ PushFromPinned(i, p)
            \/ PushHere(i, p)
            \/ ReplaceHere(i, p)
        \/ Transition(i)
        \/ Back(i)
    \/ \E p \in Path :
        \/ ReplaceElsewhere(p)
        \/ \E activate \in BOOLEAN : OpenInNewTab(p, activate)
        \/ InternalLink(p)
    \/ GoBack \/ GoForward \/ NewTab
    \/ \E k \in 1..(next - 1) : CloseTab(k) \/ Select(k) \/ TogglePin(k)
    \/ \E from, to \in 1..(next - 1) : Drag(from, to)
    \/ \E L \in SUBSET Workspaces, w \in Workspaces : ListArrives(L, w)
    \/ EmptyListArrives \/ Heal \/ Logout \/ Restart

Next == events < MaxEvents /\ events' = events + 1 /\ Step /\ next' <= MaxTabs + 1

Spec == Init /\ [][Next]_vars

----------------------------------------------------------------------------
(* The state is what the declarations say. *)
TypeOK ==
    /\ StoreType(store)
    /\ LiveIds(store) \subseteq 1..(next - 1)
    /\ DOMAIN router = LiveIds(store) /\ DOMAIN refs = LiveIds(store)
    /\ \A i \in DOMAIN router :
        router[i] \in Router /\ router[i].at \in DOMAIN router[i].stack /\ refs[i] \in Refs
    /\ next \in Nat
    /\ events \in Nat
    /\ list \subseteq Workspaces
    /\ fetched \in BOOLEAN
    /\ leaked \cup lost \subseteq LiveIds(store)

(* No tab is in two places, every open workspace has a tab in focus, and     *)
(* pinned tabs come first, through every composition of the operations, the  *)
(* workspace list changing under them and a restart (tab-store.ts:27-36).    *)
WellFormed == Sound(store)

(* A tab stays on paths of the workspace whose group it is in, in the store  *)
(* and in its router's whole history, except the tabs a link of another      *)
(* workspace or a late push took elsewhere (tab-store.ts:51-56).             *)
PathsScoped ==
    \A w \in DOMAIN store.by : \A k \in DOMAIN store.by[w].tabs :
        LET tab == store.by[w].tabs[k]
        IN tab.id \notin leaked =>
            /\ tab.path.ws \in {w, None}
            /\ \A j \in DOMAIN router[tab.id].stack : router[tab.id].stack[j].ws \in {w, None}

(* What the tab bar and the arrows show of the visible tab is where its      *)
(* router is; the arrows lie only for a tab that was unmounted or moved      *)
(* while it was hidden (use-tab-router-sync.ts, use-tab-history.ts).         *)
HistoryFaithful ==
    /\ \A i \in Visible(store) : TabOf(store, i).path = LocationOf(router[i])
    /\ \A i \in LiveIds(store) \ lost :
        /\ TabOf(store, i).at = router[i].at - 1
        /\ TabOf(store, i).len = Len(router[i].stack)

(* Once the list has arrived a user with a workspace is never left without   *)
(* one on screen, whatever is then revoked or healed (App.tsx:196-204).      *)
SomewhereToBe == fetched /\ list # {} => store.shown # None

(* No push events a pinned tab that is on screen: its router goes on only by  *)
(* forward or within the same page (tab-store.ts:24-28, navigation.tsx).     *)
PinnedParked ==
    [][\A i \in Visible(store) :
        TabOf(store, i).pinned /\ i \in DOMAIN router' /\ router'[i].at > router[i].at
        => router'[i].stack = router[i].stack \/ LocationOf(router'[i]) = LocationOf(router[i])]_vars

(* The renderer implements what the store promises. *)
Promise == INSTANCE TabGroups WITH
    open  <- [w \in DOMAIN store.by |-> IdsIn(store.by[w])],
    focus <- [w \in DOMAIN store.by |-> store.by[w].active],
    pins  <- {i \in LiveIds(store) : TabOf(store, i).pinned},
    shown <- store.shown,
    used  <- next - 1

PromiseKept == Promise!Spec
=============================================================================
