--------------------------- MODULE DesktopTabsProofs ---------------------------
(***************************************************************************)
(* The tabs of the desktop application stay well formed, whatever the      *)
(* number of workspaces, pages, tabs and steps.                            *)
(***************************************************************************)
EXTENDS DesktopTabs, TabStoreProofs

(* The store, a router and refs for each of its tabs, and ids in order. *)
Routed ==
    /\ DOMAIN router = LiveIds(store) /\ DOMAIN refs = LiveIds(store)
    /\ \A i \in LiveIds(store) :
        router[i] \in Router /\ router[i].at \in DOMAIN router[i].stack /\ refs[i] \in Refs

Numbered == next \in Nat /\ next >= 1 /\ LiveIds(store) \subseteq 1..(next - 1)

Core == SoundStore(store) /\ Routed /\ Numbered /\ lost \subseteq LiveIds(store)

(* Once the list is there, a workspace of it is open and one is shown. *)
Placed ==
    fetched /\ list # {} => store.shown # None /\ DOMAIN store.by \cap list # {}

IInv ==
    /\ Core
    /\ leaked \subseteq LiveIds(store)
    /\ events \in Nat
    /\ list \subseteq Workspaces
    /\ fetched \in BOOLEAN
    /\ Placed

----------------------------------------------------------------------------
(* Tabs and routers *)

LEMMA PositionIn ==
    ASSUME NEW g, SoundGroup(g), NEW i \in IdsIn(g)
    PROVE  /\ PositionOf(g, i) \in DOMAIN g.tabs
           /\ g.tabs[PositionOf(g, i)].id = i
           /\ g.tabs[PositionOf(g, i)] \in Tab
<1>1. \E k \in DOMAIN g.tabs : g.tabs[k].id = i
  BY DEF IdsIn
<1>2. PositionOf(g, i) \in DOMAIN g.tabs /\ g.tabs[PositionOf(g, i)].id = i
  BY <1>1 DEF PositionOf
<1>3. g.tabs \in Seq(Tab)
  BY DEF SoundGroup, Group
<1> QED BY <1>2, <1>3

LEMMA TabIn ==
    ASSUME NEW s, SoundStore(s), NEW i \in LiveIds(s)
    PROVE  TabOf(s, i) \in Tab
<1>1. \E w \in DOMAIN s.by : i \in IdsIn(s.by[w])
  BY DEF LiveIds
<1>2. OwnerOf(s, i) \in DOMAIN s.by /\ i \in IdsIn(s.by[OwnerOf(s, i)])
  BY <1>1 DEF OwnerOf
<1> QED BY <1>2, GroupIn, PositionIn DEF TabOf

LEMMA VisibleIn ==
    ASSUME NEW s, SoundStore(s), Visible(s) # {}
    PROVE  /\ s.shown \in DOMAIN s.by /\ Visible(s) = {s.by[s.shown].active}
           /\ SoundGroup(s.by[s.shown]) /\ s.by[s.shown].active \in IdsIn(s.by[s.shown])
           /\ s.by[s.shown].active \in LiveIds(s)
<1>1. s.shown # None /\ Visible(s) = {s.by[s.shown].active}
  BY DEF Visible
<1>2. s.shown \in DOMAIN s.by
  BY <1>1 DEF SoundStore
<1>3. SoundGroup(s.by[s.shown])
  BY <1>2, GroupIn
<1>4. s.by[s.shown].active \in IdsIn(s.by[s.shown])
  BY <1>3 DEF SoundGroup
<1> QED BY <1>1, <1>2, <1>3, <1>4, LiveIn

LEMMA MountedIn ==
    ASSUME NEW s, SoundStore(s)
    PROVE  Mounted(s) \subseteq LiveIds(s)
BY LiveIn DEF Mounted, SoundStore

OKRouter(r) == r \in Router /\ r.at \in DOMAIN r.stack

LEMMA NewRouter == \A p \in Location : OKRouter(createTabRouter(p))
BY DEF OKRouter, createTabRouter, Router

LEMMA WhereItIs ==
    ASSUME NEW r, OKRouter(r)
    PROVE  LocationOf(r) \in Location
BY DEF OKRouter, LocationOf, Router

(* The path of a tab, or its history, changed in the store. *)
LEMMA UpdateIn ==
    ASSUME NEW s, SoundStore(s), NEW w \in DOMAIN s.by, NEW k \in DOMAIN s.by[w].tabs,
           NEW p \in Location
    PROVE  LET r == updateTab(s, w, k, p)
           IN /\ SoundStore(r) /\ LiveIds(r) = LiveIds(s) /\ r.shown = s.shown
              /\ DOMAIN r.by = DOMAIN s.by /\ DOMAIN r.by[w].tabs = DOMAIN s.by[w].tabs
<1> DEFINE t == s.by[w].tabs
           x == [t[k] EXCEPT !.path = p]
           r == WithTabs(s, w, [t EXCEPT ![k] = x])
<1>1. t[k] \in Tab
  <2>1. t \in Seq(Tab)
    BY GroupIn
  <2> QED BY <2>1
<1>2. x \in Tab /\ x.id = t[k].id /\ x.pinned = t[k].pinned
  BY <1>1 DEF Tab
<1> HIDE DEF x
<1>3. /\ Grows(s, r, 0) /\ r.shown = s.shown /\ DOMAIN r.by = DOMAIN s.by
      /\ r.by[w].tabs = [t EXCEPT ![k] = x] /\ LiveIds(r) = LiveIds(s)
  BY <1>2, ChangeKeeps
<1>4. SoundStore(r)
  BY <1>3 DEF Grows, Keeps
<1>5. updateTab(s, w, k, p) = r
  BY DEF updateTab, x
<1> HIDE DEF r
<1>6. DOMAIN r.by[w].tabs = DOMAIN t
  BY <1>3
<1> QED BY <1>3, <1>4, <1>5, <1>6

LEMMA HistoryIn ==
    ASSUME NEW s, SoundStore(s), NEW w \in DOMAIN s.by, NEW k \in DOMAIN s.by[w].tabs,
           NEW at \in Nat, NEW len \in Nat
    PROVE  LET r == updateTabHistory(s, w, k, at, len)
           IN /\ SoundStore(r) /\ LiveIds(r) = LiveIds(s) /\ r.shown = s.shown
              /\ DOMAIN r.by = DOMAIN s.by
<1> DEFINE t == s.by[w].tabs
           x == [t[k] EXCEPT !.at = at, !.len = len]
           r == WithTabs(s, w, [t EXCEPT ![k] = x])
<1>1. t[k] \in Tab
  <2>1. t \in Seq(Tab)
    BY GroupIn
  <2> QED BY <2>1
<1>2. x \in Tab /\ x.id = t[k].id /\ x.pinned = t[k].pinned
  BY <1>1 DEF Tab
<1> HIDE DEF x
<1>3. /\ Grows(s, r, 0) /\ r.shown = s.shown /\ DOMAIN r.by = DOMAIN s.by
      /\ LiveIds(r) = LiveIds(s)
  BY <1>2, ChangeKeeps
<1>4. SoundStore(r)
  BY <1>3 DEF Grows, Keeps
<1>5. updateTabHistory(s, w, k, at, len) = r
  BY DEF updateTabHistory, x
<1> QED BY <1>3, <1>4, <1>5

----------------------------------------------------------------------------
(* The renderer follows the store; a router moves. *)

LEMMA RenderedCore ==
    ASSUME Core, NEW s, Keeps(store, s, next), Rendered(s)
    PROVE  /\ Core' /\ LiveIds(store)' = LiveIds(s)
           /\ store'.shown = s.shown /\ DOMAIN store'.by = DOMAIN s.by
<1> DEFINE live == LiveIds(s)
           r    == [i \in live |-> IF i \in DOMAIN router THEN router[i]
                                   ELSE createTabRouter(TabOf(s, i).path)]
           anew == IF s.shown = store.shown THEN {} ELSE Mounted(s)
<1>1. SoundStore(s) /\ live \subseteq LiveIds(store) \cup {next}
  BY DEF Keeps
<1>2. /\ store' = Synced(s, r) /\ router' = r
      /\ refs' = [i \in live |-> IF i \in DOMAIN refs \ anew THEN refs[i] ELSE Fresh]
      /\ lost' = (lost \cap live) \cup {i \in anew : Len(r[i].stack) > 1}
      /\ next' = IF next \in live THEN next + 1 ELSE next
  BY DEF Rendered
<1>3. \A i \in live : OKRouter(r[i])
  <2> SUFFICES ASSUME NEW i \in live PROVE OKRouter(r[i])
    OBVIOUS
  <2>1. CASE i \in DOMAIN router
    BY <2>1 DEF Core, Routed, OKRouter
  <2>2. CASE i \notin DOMAIN router
    <3>1. TabOf(s, i).path \in Location
      BY <1>1, TabIn DEF Tab
    <3> QED BY <2>2, <3>1, NewRouter
  <2> QED BY <2>1, <2>2
<1>4. DOMAIN r = live
  OBVIOUS
<1>5. anew \subseteq live
  BY <1>1, MountedIn
<1> HIDE DEF r, anew
<1>6. /\ SoundStore(Synced(s, r)) /\ LiveIds(Synced(s, r)) = live
      /\ Synced(s, r).shown = s.shown /\ DOMAIN Synced(s, r).by = DOMAIN s.by
  <2>1. CASE Visible(s) = {}
    BY <1>1, <2>1 DEF Synced
  <2>2. CASE Visible(s) # {}
    <3> DEFINE w == s.shown
               a == s.by[w].active
               k == PositionOf(s.by[w], a)
    <3>1. w \in DOMAIN s.by /\ SoundGroup(s.by[w]) /\ a \in IdsIn(s.by[w]) /\ a \in live
      BY <1>1, <2>2, VisibleIn
    <3>2. k \in DOMAIN s.by[w].tabs
      BY <3>1, PositionIn
    <3>3. LocationOf(r[a]) \in Location
      BY <1>3, <3>1, WhereItIs
    <3>4. Synced(s, r) = updateTab(s, w, k, LocationOf(r[a]))
      BY <2>2 DEF Synced
    <3> QED BY <1>1, <3>1, <3>2, <3>3, <3>4, UpdateIn
  <2> QED BY <2>1, <2>2
<1>7. LiveIds(store)' = live
  BY <1>2, <1>6 DEF LiveIds
<1>8. SoundStore(store)'
  BY <1>2, <1>6 DEF SoundStore
<1>9. Routed'
  <2>1. DOMAIN router' = live /\ DOMAIN refs' = live
    BY <1>2, <1>4
  <2>2. ASSUME NEW i \in live
        PROVE  router'[i] \in Router /\ router'[i].at \in DOMAIN router'[i].stack /\ refs'[i] \in Refs
    <3>1. refs'[i] \in Refs
      BY <1>2 DEF Core, Routed, Refs, Fresh
    <3> QED BY <1>2, <1>3, <3>1 DEF OKRouter
  <2> QED BY <1>7, <2>1, <2>2 DEF Routed
<1>10. Numbered'
  <2>1. next' \in Nat /\ next' >= 1 /\ live \subseteq 1..(next' - 1)
    BY <1>1, <1>2 DEF Core, Numbered
  <2> QED BY <1>7, <2>1 DEF Numbered
<1>11. lost' \subseteq live
  BY <1>2, <1>5
<1> QED BY <1>2, <1>6, <1>7, <1>8, <1>9, <1>10, <1>11 DEF Core

LEMMA NavigatedCore ==
    ASSUME Core, NEW i \in DOMAIN router, NEW r, OKRouter(r), NEW f \in Refs, Navigated(i, r, f)
    PROVE  /\ Core' /\ LiveIds(store)' = LiveIds(store)
           /\ store'.shown = store.shown /\ DOMAIN store'.by = DOMAIN store.by
           /\ UNCHANGED <<list, fetched>>
<1>1. router' = [router EXCEPT ![i] = r] /\ UNCHANGED <<next, list, fetched>>
  BY DEF Navigated
<1>2. /\ SoundStore(store') /\ LiveIds(store') = LiveIds(store)
      /\ store'.shown = store.shown /\ DOMAIN store'.by = DOMAIN store.by
      /\ DOMAIN refs' = DOMAIN refs /\ \A j \in DOMAIN refs : refs'[j] \in Refs
      /\ lost' \subseteq LiveIds(store)
  <2>1. CASE i \in Visible(store)
    <3> DEFINE w == store.shown
               k == PositionOf(store.by[w], i)
               s == updateTab(store, w, k, LocationOf(r))
    <3>1. refs' = [refs EXCEPT ![i] = f] /\ store' = updateTabHistory(s, w, k, f.at, f.len)
          /\ lost' = lost
      BY <2>1 DEF Navigated
    <3>2. w \in DOMAIN store.by /\ SoundGroup(store.by[w]) /\ i \in IdsIn(store.by[w])
      BY <2>1, VisibleIn DEF Core
    <3>3. k \in DOMAIN store.by[w].tabs
      BY <3>2, PositionIn
    <3>4. LocationOf(r) \in Location
      BY WhereItIs
    <3> HIDE DEF k
    <3>5. /\ SoundStore(s) /\ LiveIds(s) = LiveIds(store) /\ s.shown = store.shown
          /\ DOMAIN s.by = DOMAIN store.by /\ DOMAIN s.by[w].tabs = DOMAIN store.by[w].tabs
      BY <3>2, <3>3, <3>4, UpdateIn DEF Core
    <3>6. f.at \in Nat /\ f.len \in Nat
      BY DEF Refs
    <3> HIDE DEF s
    <3>7. /\ SoundStore(store') /\ LiveIds(store') = LiveIds(s)
          /\ store'.shown = s.shown /\ DOMAIN store'.by = DOMAIN s.by
      BY <3>1, <3>2, <3>3, <3>5, <3>6, HistoryIn
    <3>8. DOMAIN refs' = DOMAIN refs /\ \A j \in DOMAIN refs : refs'[j] \in Refs
      BY <3>1 DEF Core, Routed
    <3> QED BY <3>1, <3>5, <3>7, <3>8 DEF Core
  <2>2. CASE i \notin Visible(store)
    <3>1. UNCHANGED <<store, refs>> /\ lost' = lost \cup {j \in {i} : f # refs[i]}
      BY <2>2 DEF Navigated
    <3> QED BY <3>1 DEF Core, Routed
  <2> QED BY <2>1, <2>2
<1>3. LiveIds(store)' = LiveIds(store)
  BY <1>2 DEF LiveIds
<1>4. Routed'
  <2>1. DOMAIN router' = LiveIds(store) /\ DOMAIN refs' = LiveIds(store)
    BY <1>1, <1>2 DEF Core, Routed
  <2>2. \A j \in LiveIds(store) :
          router'[j] \in Router /\ router'[j].at \in DOMAIN router'[j].stack /\ refs'[j] \in Refs
    BY <1>1, <1>2 DEF Core, Routed, OKRouter
  <2> QED BY <1>3, <2>1, <2>2 DEF Routed
<1>5. Numbered'
  BY <1>1, <1>3 DEF Core, Numbered
<1>6. SoundStore(store)'
  BY <1>2 DEF SoundStore
<1> QED BY <1>1, <1>2, <1>3, <1>4, <1>5, <1>6 DEF Core

LEMMA RoutersMove ==
    ASSUME NEW r, OKRouter(r), NEW p \in Location
    PROVE  OKRouter(Pushed(r, p)) /\ OKRouter(Replaced(r, p)) /\ OKRouter(Popped(r)) /\ OKRouter(Forwarded(r))
<1>1. r \in Router /\ r.stack \in Seq(Location) /\ r.at \in 1..Len(r.stack) /\ Len(r.stack) \in Nat
  BY DEF OKRouter, Router
<1>2. OKRouter(Pushed(r, p))
  <2> DEFINE a == SubSeq(r.stack, 1, r.at)
  <2>1. a \in Seq(Location) /\ Len(a) = r.at
    BY <1>1, SubSeqProperties
  <2> HIDE DEF a
  <2>2. Append(a, p) \in Seq(Location) /\ Len(Append(a, p)) = r.at + 1 /\ r.at + 1 \in Nat
    BY <1>1, <2>1
  <2>3. r.at + 1 \in DOMAIN Append(a, p)
    BY <1>1, <2>2
  <2>4. Pushed(r, p) = [stack |-> Append(a, p), at |-> r.at + 1]
    BY DEF Pushed, a
  <2> QED BY <2>2, <2>3, <2>4 DEF OKRouter, Router
<1>3. OKRouter(Replaced(r, p))
  <2> DEFINE t == [r.stack EXCEPT ![r.at] = p]
  <2>1. t \in Seq(Location) /\ DOMAIN t = DOMAIN r.stack
    BY <1>1
  <2> HIDE DEF t
  <2>2. Replaced(r, p) = [r EXCEPT !.stack = t]
    BY DEF Replaced, t
  <2> QED BY <1>1, <2>1, <2>2 DEF OKRouter, Router
<1>4. \A a \in 1..Len(r.stack) : OKRouter([r EXCEPT !.at = a])
  BY <1>1 DEF OKRouter, Router
<1>5. OKRouter(Popped(r))
  <2>1. (IF r.at > 1 THEN r.at - 1 ELSE r.at) \in 1..Len(r.stack)
    BY <1>1
  <2> QED BY <1>4, <2>1 DEF Popped
<1>6. OKRouter(Forwarded(r))
  <2>1. (IF r.at < Len(r.stack) THEN r.at + 1 ELSE r.at) \in 1..Len(r.stack)
    BY <1>1
  <2> QED BY <1>4, <2>1 DEF Forwarded
<1> QED BY <1>2, <1>3, <1>5, <1>6

LEMMA RefsMove ==
    ASSUME NEW f \in Refs
    PROVE  RefsPushed(f) \in Refs /\ RefsPopped(f) \in Refs /\ RefsForwarded(f) \in Refs
BY DEF Refs, RefsPushed, RefsPopped, RefsForwarded

----------------------------------------------------------------------------
(* What a step keeps beside the store. *)

LEMMA ShownIn ==
    ASSUME Core, store.shown # None
    PROVE  store.shown \in DOMAIN store.by /\ next \in Nat /\ next \notin LiveIds(store)
BY DEF Core, SoundStore, Numbered

(* After an operation that closes nothing. *)
LEMMA Grown ==
    ASSUME IInv, NEW s, Grows(store, s, next), Rendered(s), UNCHANGED <<list, fetched>>,
           leaked' \subseteq LiveIds(s), events' \in Nat
    PROVE  IInv'
<1>1. /\ Core' /\ LiveIds(store)' = LiveIds(s)
      /\ store'.shown = s.shown /\ DOMAIN store'.by = DOMAIN s.by
  BY RenderedCore DEF IInv, Grows
<1>2. Placed'
  BY <1>1 DEF IInv, Placed, Grows
<1> QED BY <1>1, <1>2 DEF IInv

LEMMA GrownSame ==
    ASSUME IInv, NEW s, Grows(store, s, next), Rendered(s), UNCHANGED <<list, fetched, leaked>>,
           events' \in Nat
    PROVE  IInv'
<1>1. leaked' \subseteq LiveIds(s)
  BY DEF IInv, Grows
<1> QED BY <1>1, Grown

(* After a navigation within a tab. *)
LEMMA Moved ==
    ASSUME IInv, NEW i \in DOMAIN router, NEW r, OKRouter(r), NEW f \in Refs, Navigated(i, r, f),
           leaked' \subseteq leaked \cup {i}, events' \in Nat
    PROVE  IInv'
<1>1. /\ Core' /\ LiveIds(store)' = LiveIds(store)
      /\ store'.shown = store.shown /\ DOMAIN store'.by = DOMAIN store.by
      /\ UNCHANGED <<list, fetched>>
  BY NavigatedCore DEF IInv
<1>2. i \in LiveIds(store)
  BY DEF IInv, Core, Routed
<1>3. Placed'
  BY <1>1 DEF IInv, Placed
<1> QED BY <1>1, <1>2, <1>3 DEF IInv

LEMMA RouterIn ==
    ASSUME IInv, NEW i \in DOMAIN router
    PROVE  OKRouter(router[i]) /\ refs[i] \in Refs
BY DEF IInv, Core, Routed, OKRouter

----------------------------------------------------------------------------
(* The actions *)

LEMMA ElsewhereStep ==
    ASSUME IInv, NEW p \in Path, Elsewhere(p), events' \in Nat
    PROVE  IInv'
<1>1. p \in Location /\ p.ws \in Workspaces
  BY DEF Path, Location
<1>2. SoundStore(store) /\ next \in Nat /\ next \notin LiveIds(store)
  BY DEF IInv, Core, Numbered
<1>3. Grows(store, switchWorkspaceTo(store, p.ws, p, next), next)
  BY <1>1, <1>2, SwitchToKeeps
<1> QED BY <1>3, GrownSame DEF Elsewhere

LEMMA HereStep ==
    ASSUME IInv, NEW i \in DOMAIN router, NEW p, NEW r, OKRouter(r), NEW f \in Refs,
           Here(i, p, r, f), events' \in Nat
    PROVE  IInv'
BY Moved DEF Here

LEMMA Fields ==
    ASSUME NEW s, SoundStore(s)
    PROVE  \E b, c : s = [shown |-> b, by |-> c]
BY DEF SoundStore

(* openTab and the focus on what it opened. *)
LEMMA Opened ==
    ASSUME IInv, store.shown # None, NEW p \in Path
    PROVE  LET s == openTab(store, p, next)
               r == Focused(s, store.shown, openedBy(store, p, next))
           IN /\ Grows(store, s, next) /\ Grows(store, r, next) /\ s.shown = store.shown
              /\ openedBy(store, p, next) \in LiveIds(r)
<1> DEFINE s == openTab(store, p, next)
           w == store.shown
           a == openedBy(store, p, next)
           r == Focused(s, w, a)
<1>1. p \in Location /\ SoundStore(store)
  BY DEF Path, Location, IInv, Core
<1>2. w \in DOMAIN store.by /\ next \in Nat /\ next \notin LiveIds(store)
  BY ShownIn DEF IInv
<1>3. Grows(store, s, next) /\ Grows(store, r, next) /\ s.shown = w
  BY <1>1, <1>2, OpenKeeps
<1>4. w \in DOMAIN r.by /\ r.by[w].active = a
  <2>1. SoundStore(s) /\ w \in DOMAIN s.by
    BY <1>2, <1>3 DEF Grows, Keeps
  <2> HIDE DEF s, a
  <2>2. PICK b, c : s = [shown |-> b, by |-> c]
    BY <2>1, Fields
  <2>3. PICK t, j : s.by[w] = [tabs |-> t, active |-> j]
    <3>1. s.by[w] = [tabs |-> s.by[w].tabs, active |-> s.by[w].active]
      BY <2>1, GroupIn
    <3> QED BY ONLY <3>1
  <2>4. r.by[w] = [s.by[w] EXCEPT !.active = a] /\ w \in DOMAIN r.by
    BY <2>2 DEF Focused, WithGroup
  <2> QED BY <2>3, <2>4
<1>5. a \in LiveIds(r)
  BY <1>3, <1>4, GroupIn, LiveIn DEF Grows, Keeps, SoundGroup
<1> QED BY <1>3, <1>5

LEMMA PinnedStep ==
    ASSUME IInv, NEW i, NEW p \in Path, PushFromPinned(i, p), events' \in Nat
    PROVE  IInv'
<1>1. store.shown # None
  BY NoneAssumption DEF PushFromPinned, Path
<1> QED BY <1>1, Opened, GrownSame DEF PushFromPinned

LEMMA OpenStep ==
    ASSUME IInv, NEW p \in Path, NEW activate \in BOOLEAN, OpenInNewTab(p, activate), events' \in Nat
    PROVE  IInv'
<1>1. store.shown # None
  BY NoneAssumption DEF OpenInNewTab, Path
<1>2. CASE activate
  BY <1>1, <1>2, Opened, GrownSame DEF OpenInNewTab
<1>3. CASE ~activate
  BY <1>1, <1>3, Opened, GrownSame DEF OpenInNewTab
<1> QED BY <1>2, <1>3

LEMMA LinkStep ==
    ASSUME IInv, NEW p \in Path, InternalLink(p), events' \in Nat
    PROVE  IInv'
<1> DEFINE r == Focused(openTab(store, p, next), store.shown, openedBy(store, p, next))
<1>1. /\ store.shown # None /\ Rendered(r) /\ UNCHANGED <<list, fetched>>
      /\ leaked' = leaked \cup {i \in {openedBy(store, p, next)} : p.ws # store.shown}
  BY DEF InternalLink
<1>2. Grows(store, r, next) /\ openedBy(store, p, next) \in LiveIds(r)
  BY <1>1, Opened
<1> HIDE DEF r
<1>3. leaked' \subseteq LiveIds(r)
  BY <1>1, <1>2 DEF IInv, Grows
<1> QED BY <1>1, <1>2, <1>3, Grown

LEMMA NewTabStep ==
    ASSUME IInv, NewTab, events' \in Nat
    PROVE  IInv'
<1>1. store.shown # None /\ SoundStore(store)
  BY DEF NewTab, IInv, Core
<1>2. store.shown \in DOMAIN store.by /\ next \in Nat /\ next \notin LiveIds(store)
  BY <1>1, ShownIn DEF IInv
<1>3. defaultPathFor(store.shown) \in Location
  BY <1>1, <1>2, GroupIn, HomePath
<1>4. Grows(store, Focused(addTab(store, defaultPathFor(store.shown), next), store.shown, next), next)
  BY <1>1, <1>2, <1>3, AddKeeps
<1> QED BY <1>4, GrownSame DEF NewTab

LEMMA CloseStep ==
    ASSUME IInv, NEW k, CloseTab(k), events' \in Nat
    PROVE  IInv'
<1> DEFINE w == store.shown
           s == closeTab(store, w, k, next)
<1>1. /\ w # None /\ k \in DOMAIN store.by[w].tabs /\ Rendered(s)
      /\ leaked' = leaked \cap LiveIds(s) /\ UNCHANGED <<list, fetched>>
  BY DEF CloseTab
<1>2. w \in DOMAIN store.by /\ next \in Nat /\ next \notin LiveIds(store) /\ SoundStore(store)
  BY <1>1, ShownIn DEF IInv, Core
<1>3. Keeps(store, s, next) /\ s.shown = w /\ DOMAIN s.by = DOMAIN store.by
  BY <1>1, <1>2, CloseKeeps
<1> HIDE DEF s
<1>4. /\ Core' /\ LiveIds(store)' = LiveIds(s)
      /\ store'.shown = s.shown /\ DOMAIN store'.by = DOMAIN s.by
  BY <1>1, <1>3, RenderedCore DEF IInv
<1>5. Placed'
  BY <1>1, <1>3, <1>4 DEF IInv, Placed
<1> QED BY <1>1, <1>4, <1>5 DEF IInv

LEMMA SelectStep ==
    ASSUME IInv, NEW k, Select(k), events' \in Nat
    PROVE  IInv'
<1> DEFINE w == store.shown
<1>1. w # None /\ k \in DOMAIN store.by[w].tabs /\ SoundStore(store)
  BY DEF Select, Known, IInv, Core
<1>2. w \in DOMAIN store.by
  BY <1>1, ShownIn DEF IInv
<1>3. Grows(store, setActiveTab(store, w, k), next)
  BY <1>1, <1>2, FocusKeeps DEF setActiveTab
<1> QED BY <1>3, GrownSame DEF Select

LEMMA PinStep ==
    ASSUME IInv, NEW k, TogglePin(k), events' \in Nat
    PROVE  IInv'
<1> DEFINE w == store.shown
<1>1. w # None /\ k \in DOMAIN store.by[w].tabs /\ SoundStore(store)
  BY DEF TogglePin, Known, IInv, Core
<1>2. w \in DOMAIN store.by
  BY <1>1, ShownIn DEF IInv
<1>3. Grows(store, togglePin(store, w, k), next)
  BY <1>1, <1>2, ToggleKeeps
<1> QED BY <1>3, GrownSame DEF TogglePin

LEMMA DragStep ==
    ASSUME IInv, NEW from, NEW to, Drag(from, to), events' \in Nat
    PROVE  IInv'
<1> DEFINE w == store.shown
<1>1. /\ w # None /\ from \in DOMAIN store.by[w].tabs /\ to \in DOMAIN store.by[w].tabs
      /\ SoundStore(store)
  BY DEF Drag, Known, IInv, Core
<1>2. w \in DOMAIN store.by
  BY <1>1, ShownIn DEF IInv
<1>3. Grows(store, moveTab(store, from, to), next)
  BY <1>1, <1>2, MoveKeeps
<1> QED BY <1>3, GrownSame DEF Drag

LEMMA ListStep ==
    ASSUME IInv, NEW L \in SUBSET Workspaces, NEW w \in Workspaces, ListArrives(L, w), events' \in Nat
    PROVE  IInv'
<1>1. PICK v \in FirstOf(DOMAIN store.by \cap L) :
        LET s == validateWorkspaceSlugs(store, L, v)
        IN /\ Rendered(IF s.shown = None THEN switchWorkspace(s, w, next) ELSE s)
           /\ leaked' = leaked \cap LiveIds(s)
  BY DEF ListArrives
<1>2. w \in L /\ list' = L /\ fetched' = TRUE
  BY DEF ListArrives
<1> DEFINE s == validateWorkspaceSlugs(store, L, v)
           r == IF s.shown = None THEN switchWorkspace(s, w, next) ELSE s
<1>3. SoundStore(store) /\ next \in Nat /\ next \notin LiveIds(store)
  BY DEF IInv, Core, Numbered
<1>4. v \in (DOMAIN store.by \cap L) \cup {None}
  BY DEF FirstOf
<1>5. Keeps(store, s, next) /\ LiveIds(s) \subseteq LiveIds(store)
  BY <1>3, <1>4, ValidateKeeps
<1>6. DOMAIN s.by = DOMAIN store.by \cap L
  BY DEF validateWorkspaceSlugs
<1> HIDE DEF s
<1>7. SoundStore(s) /\ next \notin LiveIds(s)
  BY <1>3, <1>5 DEF Keeps
<1>8. /\ Keeps(store, r, next) /\ LiveIds(s) \subseteq LiveIds(r)
      /\ r.shown # None /\ DOMAIN r.by \cap L # {}
  <2>1. CASE s.shown = None
    <3> DEFINE q == switchWorkspace(s, w, next)
    <3>1. Grows(s, q, next) /\ q.shown = w /\ w \in DOMAIN q.by
      BY <1>3, <1>7, SwitchKeeps
    <3> QED BY <1>2, <1>5, <2>1, <3>1, NoneAssumption DEF Grows, Keeps
  <2>2. CASE s.shown # None
    <3>1. s.shown \in DOMAIN s.by
      BY <1>7, <2>2 DEF SoundStore
    <3> QED BY <1>5, <1>6, <2>2, <3>1
  <2> QED BY <2>1, <2>2
<1>9. Rendered(r) /\ leaked' = leaked \cap LiveIds(s)
  BY <1>1 DEF s
<1> HIDE DEF r
<1>10. /\ Core' /\ LiveIds(store)' = LiveIds(r)
       /\ store'.shown = r.shown /\ DOMAIN store'.by = DOMAIN r.by
  BY <1>8, <1>9, RenderedCore DEF IInv
<1>11. Placed'
  BY <1>2, <1>8, <1>10 DEF Placed
<1> QED BY <1>2, <1>8, <1>9, <1>10, <1>11 DEF IInv

LEMMA EmptyStep ==
    ASSUME IInv, EmptyListArrives \/ Logout, events' \in Nat
    PROVE  IInv'
<1>1. Rendered(reset) /\ list' = {} /\ leaked' = {} /\ fetched' \in BOOLEAN
  BY DEF EmptyListArrives, Logout
<1>2. Core'
  BY <1>1, ResetKeeps, RenderedCore DEF IInv
<1>3. Placed'
  BY <1>1 DEF Placed
<1> QED BY <1>1, <1>2, <1>3 DEF IInv

LEMMA HealStep ==
    ASSUME IInv, Heal, events' \in Nat
    PROVE  IInv'
<1>1. PICK v \in FirstOf(DOMAIN store.by \cap list) :
        LET s == validateWorkspaceSlugs(store, list, v)
        IN Rendered(s) /\ leaked' = leaked \cap LiveIds(s)
  BY DEF Heal
<1>2. UNCHANGED <<list, fetched>> /\ fetched
  BY DEF Heal
<1> DEFINE s == validateWorkspaceSlugs(store, list, v)
<1>3. v \in (DOMAIN store.by \cap list) \cup {None} /\ (DOMAIN store.by \cap list # {} => v \in list)
  BY DEF FirstOf
<1>4. Keeps(store, s, next)
  BY <1>3, ValidateKeeps DEF IInv, Core
<1>5. /\ DOMAIN s.by = DOMAIN store.by \cap list
      /\ s.shown = IF store.shown \in list \cup {None} THEN store.shown ELSE v
  BY DEF validateWorkspaceSlugs
<1> HIDE DEF s
<1>6. /\ Core' /\ LiveIds(store)' = LiveIds(s)
      /\ store'.shown = s.shown /\ DOMAIN store'.by = DOMAIN s.by
  BY <1>1, <1>4, RenderedCore DEF IInv, s
<1>7. Placed'
  <2>1. None \notin list
    BY NoneAssumption DEF IInv
  <2> QED BY <1>2, <1>3, <1>5, <1>6, <2>1 DEF IInv, Placed
<1>8. leaked' \subseteq LiveIds(s)
  BY <1>1 DEF s
<1> QED BY <1>2, <1>6, <1>7, <1>8 DEF IInv

LEMMA RestartStep ==
    ASSUME IInv, Restart, events' \in Nat
    PROVE  IInv'
<1>1. PICK v \in FirstOf(mergedSlugs(store)) :
        LET s    == merge(store, v)
            live == LiveIds(s)
            r    == [i \in live |-> createTabRouter(TabOf(s, i).path)]
        IN store' = s /\ router' = r /\ refs' = [i \in live |-> Fresh]
  BY DEF Restart
<1> DEFINE s == merge(store, v)
           live == LiveIds(s)
<1>2. v \in mergedSlugs(store) \cup {None}
  BY DEF FirstOf
<1>3. Keeps(store, s, 1)
  BY <1>2, MergeKeeps DEF IInv, Core
<1>3a. LiveIds(s) \subseteq LiveIds(store)
  BY <1>2, MergeKeeps DEF IInv, Core
<1>4. /\ store' = s /\ router' = [i \in live |-> createTabRouter(TabOf(s, i).path)]
      /\ refs' = [i \in live |-> Fresh]
  BY <1>1
<1> HIDE DEF s
<1>5. SoundStore(s)
  BY <1>3 DEF Keeps
<1>6. \A i \in live : OKRouter(router'[i]) /\ refs'[i] \in Refs
  <2> SUFFICES ASSUME NEW i \in live PROVE OKRouter(router'[i]) /\ refs'[i] \in Refs
    OBVIOUS
  <2>1. TabOf(s, i).path \in Location
    BY <1>5, TabIn DEF Tab
  <2>2. OKRouter(createTabRouter(TabOf(s, i).path))
    BY <2>1, NewRouter
  <2> QED BY <1>4, <2>2 DEF Fresh, Refs
<1>7. LiveIds(store)' = live
  BY <1>4 DEF LiveIds
<1>8. Routed'
  BY <1>4, <1>6, <1>7 DEF Routed, OKRouter
<1>9. Numbered'
  BY <1>3a, <1>7 DEF Restart, IInv, Core, Numbered
<1>10. SoundStore(store)'
  BY <1>4, <1>5 DEF SoundStore
<1>11. leaked' = {} /\ lost' = {} /\ list' = {} /\ fetched' = FALSE
  BY DEF Restart
<1> QED BY <1>8, <1>9, <1>10, <1>11 DEF IInv, Core, Placed

----------------------------------------------------------------------------
(* The pages of a tab *)

LEMMA PageStep ==
    ASSUME IInv, NEW i \in DOMAIN router, events' \in Nat,
           \/ \E p \in Path :
               \/ PushElsewhere(i, p) \/ PushFromPinned(i, p) \/ PushHere(i, p) \/ ReplaceHere(i, p)
           \/ Transition(i) \/ Back(i)
    PROVE  IInv'
<1>1. OKRouter(router[i]) /\ refs[i] \in Refs /\ Path \subseteq Location /\ Root \in Location
  BY RouterIn DEF Location
<1>2. ASSUME NEW p \in Path, PushElsewhere(i, p) PROVE IInv'
  BY <1>2, ElsewhereStep DEF PushElsewhere
<1>3. ASSUME NEW p \in Path, PushFromPinned(i, p) PROVE IInv'
  BY <1>3, PinnedStep
<1>4. ASSUME NEW p \in Path, PushHere(i, p) PROVE IInv'
  <2>1. OKRouter(Pushed(router[i], p)) /\ RefsPushed(refs[i]) \in Refs
    BY <1>1, RoutersMove, RefsMove
  <2> QED BY <1>4, <2>1, HereStep DEF PushHere
<1>5. ASSUME NEW p \in Path, ReplaceHere(i, p) PROVE IInv'
  <2>1. OKRouter(Replaced(router[i], p))
    BY <1>1, RoutersMove
  <2> QED BY <1>1, <1>5, <2>1, HereStep DEF ReplaceHere
<1>6. ASSUME Transition(i) PROVE IInv'
  <2>1. OKRouter(Replaced(router[i], Root))
    BY <1>1, RoutersMove
  <2> QED BY <1>1, <1>6, <2>1, Moved DEF Transition
<1>7. ASSUME Back(i) PROVE IInv'
  <2>1. OKRouter(Popped(router[i])) /\ RefsPopped(refs[i]) \in Refs
    BY <1>1, RoutersMove, RefsMove
  <2> QED BY <1>7, <2>1, Moved DEF Back
<1> QED BY <1>2, <1>3, <1>4, <1>5, <1>6, <1>7

LEMMA ArrowStep ==
    ASSUME IInv, GoBack \/ GoForward, events' \in Nat
    PROVE  IInv'
<1>1. \A i \in Visible(store) : i \in DOMAIN router
  BY VisibleIn DEF IInv, Core, Routed
<1>2. CASE GoBack
  BY <1>1, <1>2, PageStep DEF GoBack
<1>3. CASE GoForward
  <2>1. PICK i \in Visible(store) :
          Navigated(i, Forwarded(router[i]), RefsForwarded(refs[i])) /\ UNCHANGED leaked
    BY <1>3 DEF GoForward
  <2>2. i \in DOMAIN router
    BY <1>1
  <2>3. OKRouter(Forwarded(router[i])) /\ RefsForwarded(refs[i]) \in Refs
    BY <2>2, RouterIn, RoutersMove, RefsMove DEF Location
  <2> QED BY <2>1, <2>2, <2>3, Moved
<1> QED BY <1>2, <1>3

----------------------------------------------------------------------------
(* The invariant holds from the start and through every step. *)

LEMMA InitInv == Init => IInv
<1> SUFFICES ASSUME Init PROVE IInv
  OBVIOUS
<1>1. LiveIds(store) = {} /\ SoundStore(store)
  BY ResetKeeps DEF Init, reset, LiveIds, Keeps
<1>2. Routed /\ Numbered
  BY <1>1 DEF Init, Routed, Numbered
<1> QED BY <1>1, <1>2 DEF Init, IInv, Core, Placed

LEMMA StepInv == IInv /\ [Next]_vars => IInv'
<1>1. ASSUME IInv, UNCHANGED vars PROVE IInv'
  BY <1>1 DEF vars, IInv, Core, Routed, Numbered, Placed
<1> SUFFICES ASSUME IInv, Next PROVE IInv'
  BY <1>1
<1>2. events' \in Nat /\ Step
  BY DEF Next, IInv
<1>3. ASSUME NEW i \in DOMAIN router,
             \/ \E p \in Path :
                 \/ PushElsewhere(i, p) \/ PushFromPinned(i, p) \/ PushHere(i, p) \/ ReplaceHere(i, p)
             \/ Transition(i) \/ Back(i)
      PROVE  IInv'
  BY <1>2, <1>3, PageStep
<1>4. ASSUME NEW p \in Path, ReplaceElsewhere(p) PROVE IInv'
  BY <1>2, <1>4, ElsewhereStep DEF ReplaceElsewhere
<1>5. ASSUME NEW p \in Path, NEW activate \in BOOLEAN, OpenInNewTab(p, activate) PROVE IInv'
  BY <1>2, <1>5, OpenStep
<1>6. ASSUME NEW p \in Path, InternalLink(p) PROVE IInv'
  BY <1>2, <1>6, LinkStep
<1>7. ASSUME GoBack \/ GoForward PROVE IInv'
  BY <1>2, <1>7, ArrowStep
<1>8. ASSUME NewTab PROVE IInv'
  BY <1>2, <1>8, NewTabStep
<1>9. ASSUME NEW k, CloseTab(k) \/ Select(k) \/ TogglePin(k) PROVE IInv'
  BY <1>2, <1>9, CloseStep, SelectStep, PinStep
<1>10. ASSUME NEW from, NEW to, Drag(from, to) PROVE IInv'
  BY <1>2, <1>10, DragStep
<1>11. ASSUME NEW L \in SUBSET Workspaces, NEW w \in Workspaces, ListArrives(L, w) PROVE IInv'
  BY <1>2, <1>11, ListStep
<1>12. ASSUME EmptyListArrives \/ Logout PROVE IInv'
  BY <1>2, <1>12, EmptyStep
<1>13. ASSUME Heal PROVE IInv'
  BY <1>2, <1>13, HealStep
<1>14. ASSUME Restart PROVE IInv'
  BY <1>2, <1>14, RestartStep
<1> QED BY <1>2, <1>3, <1>4, <1>5, <1>6, <1>7, <1>8, <1>9, <1>10, <1>11, <1>12, <1>13, <1>14 DEF Step

(* The invariant the theorems rest on. *)
THEOREM Inductive == Spec => []IInv
BY InitInv, StepInv, PTL DEF Spec

(* The store, the routers and the refs have their types, and each live tab   *)
(* has exactly one router (tab-content.tsx, use-tab-router-sync.ts).         *)
THEOREM TypeCorrect == Spec => []TypeOK
<1>1. IInv => TypeOK
  <2> SUFFICES ASSUME IInv PROVE TypeOK
    OBVIOUS
  <2>1. StoreType(store)
    BY SoundIsSound DEF IInv, Core
  <2> QED BY <2>1 DEF IInv, Core, Routed, Numbered, TypeOK
<1> QED BY Inductive, <1>1, PTL

(* No tab is twice in the store, the focus of a workspace is one of its tabs *)
(* and pinned tabs come first, for any number of workspaces and tabs         *)
(* (tab-store.ts).                                                           *)
THEOREM StaysWellFormed == Spec => []WellFormed
<1>1. IInv => WellFormed
  BY SoundIsSound DEF IInv, Core, WellFormed
<1> QED BY Inductive, <1>1, PTL

(* Whatever is revoked or healed, a user with a workspace sees one (App.tsx  *)
(* 196-204, workspace-route-layout.tsx).                                     *)
THEOREM AlwaysSomewhere == Spec => []SomewhereToBe
<1>1. IInv => SomewhereToBe
  BY DEF IInv, Placed, SomewhereToBe
<1> QED BY Inductive, <1>1, PTL

----------------------------------------------------------------------------
(* Pinned tabs *)

(* What a step does with the router of tab j. *)
Parked(j) ==
    j \in DOMAIN router' /\ router'[j].at > router[j].at
    => router'[j].stack = router[j].stack \/ LocationOf(router'[j]) = LocationOf(router[j])

LEMMA RenderedParked ==
    ASSUME IInv, NEW s, Rendered(s), NEW j \in DOMAIN router
    PROVE  Parked(j)
<1>1. j \in DOMAIN router' => router'[j] = router[j]
  BY DEF Rendered
<1>2. OKRouter(router[j]) /\ ~(router[j].at > router[j].at)
  BY RouterIn DEF OKRouter, Router
<1> QED BY <1>1, <1>2 DEF Parked

(* A navigation that does not go on to another page. *)
LEMMA NavigatedParked ==
    ASSUME IInv, NEW i \in DOMAIN router, NEW r, NEW f, Navigated(i, r, f), NEW j \in DOMAIN router,
           j = i => \/ ~(r.at > router[i].at) \/ r.stack = router[i].stack
                    \/ LocationOf(r) = LocationOf(router[i])
    PROVE  Parked(j)
<1>1. router' = [router EXCEPT ![i] = r]
  BY DEF Navigated
<1>2. CASE j = i
  BY <1>1, <1>2 DEF Parked
<1>3. CASE j # i
  <2>1. router'[j] = router[j]
    BY <1>1, <1>3
  <2>2. OKRouter(router[j]) /\ ~(router[j].at > router[j].at)
    BY RouterIn DEF OKRouter, Router
  <2> QED BY <2>1, <2>2 DEF Parked
<1> QED BY <1>2, <1>3

LEMMA PushLands ==
    ASSUME NEW r, OKRouter(r), NEW p
    PROVE  LocationOf(Pushed(r, p)) = p
<1> DEFINE a == SubSeq(r.stack, 1, r.at)
<1>1. r.stack \in Seq(Location) /\ r.at \in 1..Len(r.stack)
  BY DEF OKRouter, Router
<1>2. a \in Seq(Location) /\ Len(a) = r.at
  BY <1>1, SubSeqProperties
<1> HIDE DEF a
<1>3. Append(a, p)[r.at + 1] = p
  BY <1>1, <1>2
<1> QED BY <1>3 DEF LocationOf, Pushed, a

LEMMA PageParked ==
    ASSUME IInv, NEW i \in DOMAIN router, NEW j \in Visible(store), TabOf(store, j).pinned,
           \/ \E p \in Path :
               \/ PushElsewhere(i, p) \/ PushFromPinned(i, p) \/ PushHere(i, p) \/ ReplaceHere(i, p)
           \/ Transition(i) \/ Back(i)
    PROVE  Parked(j)
<1>1. j \in DOMAIN router /\ OKRouter(router[i]) /\ router[i].at \in Nat
  BY VisibleIn, RouterIn DEF IInv, Core, Routed, OKRouter, Router
<1>2. ASSUME NEW p \in Path, PushElsewhere(i, p) \/ PushFromPinned(i, p) PROVE Parked(j)
  BY <1>1, <1>2, RenderedParked DEF PushElsewhere, Elsewhere, PushFromPinned
<1>3. ASSUME NEW p \in Path, PushHere(i, p) PROVE Parked(j)
  <2>1. j = i => LocationOf(Pushed(router[i], p)) = LocationOf(router[i])
    BY <1>1, <1>3, PushLands DEF PushHere, ActivePinned
  <2> QED BY <1>1, <1>3, <2>1, NavigatedParked DEF PushHere, Here
<1>4. ASSUME NEW p \in Location PROVE ~(Replaced(router[i], p).at > router[i].at)
  BY <1>1 DEF Replaced, OKRouter, Router
<1>5. ASSUME NEW p \in Path, ReplaceHere(i, p) PROVE Parked(j)
  BY <1>1, <1>4, <1>5, NavigatedParked DEF ReplaceHere, Here, Location
<1>6. ASSUME Transition(i) PROVE Parked(j)
  BY <1>1, <1>4, <1>6, NavigatedParked DEF Transition, Location
<1>7. ASSUME Back(i) PROVE Parked(j)
  <2>1. ~(Popped(router[i]).at > router[i].at)
    BY <1>1 DEF Popped, OKRouter, Router
  <2> QED BY <1>1, <1>7, <2>1, NavigatedParked DEF Back
<1> QED BY <1>2, <1>3, <1>5, <1>6, <1>7

LEMMA StepParked ==
    ASSUME IInv, Step, NEW j \in Visible(store), TabOf(store, j).pinned
    PROVE  Parked(j)
<1>1. j \in DOMAIN router /\ OKRouter(router[j])
  BY VisibleIn, RouterIn DEF IInv, Core, Routed
<1>2. ASSUME NEW i \in DOMAIN router,
             \/ \E p \in Path :
                 \/ PushElsewhere(i, p) \/ PushFromPinned(i, p) \/ PushHere(i, p) \/ ReplaceHere(i, p)
             \/ Transition(i) \/ Back(i)
      PROVE  Parked(j)
  BY <1>2, PageParked
<1>3. ASSUME NEW p \in Path, NEW activate \in BOOLEAN,
             ReplaceElsewhere(p) \/ OpenInNewTab(p, activate) \/ InternalLink(p)
      PROVE  Parked(j)
  BY <1>1, <1>3, RenderedParked DEF ReplaceElsewhere, Elsewhere, OpenInNewTab, InternalLink
<1>4. ASSUME GoBack PROVE Parked(j)
  <2>1. PICK i \in Visible(store) : Back(i)
    BY <1>4 DEF GoBack
  <2>2. i \in DOMAIN router
    BY VisibleIn DEF IInv, Core, Routed
  <2> QED BY <2>1, <2>2, PageParked
<1>5. ASSUME GoForward PROVE Parked(j)
  <2>1. PICK i \in Visible(store) : Navigated(i, Forwarded(router[i]), RefsForwarded(refs[i]))
    BY <1>5 DEF GoForward
  <2>2. i \in DOMAIN router
    BY VisibleIn DEF IInv, Core, Routed
  <2>3. Forwarded(router[i]).stack = router[i].stack
    BY <2>2, RouterIn DEF Forwarded, OKRouter, Router
  <2> QED BY <1>1, <2>1, <2>2, <2>3, NavigatedParked
<1>6. ASSUME NEW k, NewTab \/ CloseTab(k) \/ Select(k) \/ TogglePin(k) PROVE Parked(j)
  BY <1>1, <1>6, RenderedParked DEF NewTab, CloseTab, Select, TogglePin
<1>7. ASSUME NEW from, NEW to, Drag(from, to) PROVE Parked(j)
  BY <1>1, <1>7, RenderedParked DEF Drag
<1>8. ASSUME NEW L, NEW w, ListArrives(L, w) PROVE Parked(j)
  BY <1>1, <1>8, RenderedParked DEF ListArrives
<1>9. ASSUME EmptyListArrives \/ Heal \/ Logout PROVE Parked(j)
  BY <1>1, <1>9, RenderedParked DEF EmptyListArrives, Heal, Logout
<1>10. ASSUME Restart PROVE Parked(j)
  <2>1. j \in DOMAIN router' => router'[j].at = 1
    BY <1>10 DEF Restart, createTabRouter
  <2>2. ~(1 > router[j].at)
    BY <1>1 DEF OKRouter, Router
  <2> QED BY <2>1, <2>2 DEF Parked
<1> QED BY <1>2, <1>3, <1>4, <1>5, <1>6, <1>7, <1>8, <1>9, <1>10 DEF Step

(* No push of any page takes a pinned tab that is on screen to another page  *)
(* (tab-store.ts:24-28, tryRouteToPinnedNewTab).                             *)
THEOREM PinnedStay == Spec => PinnedParked
<1>1. IInv /\ [Next]_vars =>
        [\A i \in Visible(store) :
          TabOf(store, i).pinned /\ i \in DOMAIN router' /\ router'[i].at > router[i].at
          => router'[i].stack = router[i].stack \/ LocationOf(router'[i]) = LocationOf(router[i])]_vars
  BY StepParked DEF Next, Parked
<1> QED BY Inductive, <1>1, PTL DEF Spec, PinnedParked

----------------------------------------------------------------------------
(* What the store says of a tab and where its router is. *)

InScope(w, p) == p.ws \in {w, None}

(* Tab x of workspace w: unless it has leaked it and its whole history are in w; *)
(* unless it is lost its arrows and its refs count what its router holds; on     *)
(* screen its path is its router's.                                              *)
Scoped(w, x) ==
    x.id \notin leaked =>
        /\ InScope(w, x.path)
        /\ \A j \in DOMAIN router[x.id].stack : InScope(w, router[x.id].stack[j])

Counted(x) ==
    x.id \notin lost =>
        /\ x.at = router[x.id].at - 1 /\ x.len = Len(router[x.id].stack)
        /\ refs[x.id].at = x.at /\ refs[x.id].len = x.len

Synchronous(x) == x.id \in Visible(store) => x.path = LocationOf(router[x.id])

Tracks(w, x) == Scoped(w, x) /\ Counted(x) /\ Synchronous(x)

Tracked == \A w \in DOMAIN store.by : \A x \in TabsIn(store.by[w]) : Tracks(w, x)

LEMMA TabIs ==
    ASSUME NEW s, SoundStore(s), NEW w \in DOMAIN s.by, NEW x \in TabsIn(s.by[w])
    PROVE  /\ x \in Tab /\ x.id \in IdsIn(s.by[w]) /\ x.id \in LiveIds(s)
           /\ OwnerOf(s, x.id) = w /\ TabOf(s, x.id) = x
<1>1. SoundGroup(s.by[w]) /\ s.by[w].tabs \in Seq(Tab)
  BY GroupIn
<1>2. PICK k \in DOMAIN s.by[w].tabs : x = s.by[w].tabs[k]
  BY DEF TabsIn, Range
<1>3. x \in Tab /\ x.id \in IdsIn(s.by[w])
  BY <1>1, <1>2 DEF IdsIn
<1>4. x.id \in LiveIds(s)
  BY <1>3, LiveIn
<1>5. OwnerOf(s, x.id) = w
  BY <1>3 DEF OwnerOf, SoundStore
<1>6. PositionOf(s.by[w], x.id) = k
  BY <1>1, <1>2 DEF PositionOf, SoundGroup, UniqueIn
<1> QED BY <1>2, <1>3, <1>4, <1>5, <1>6 DEF TabOf

LEMMA TabWith ==
    ASSUME NEW s, SoundStore(s), NEW i \in LiveIds(s)
    PROVE  /\ OwnerOf(s, i) \in DOMAIN s.by /\ TabOf(s, i) \in TabsIn(s.by[OwnerOf(s, i)])
           /\ TabOf(s, i).id = i
<1>1. PICK w \in DOMAIN s.by : i \in IdsIn(s.by[w])
  BY DEF LiveIds
<1>2. PICK x \in TabsIn(s.by[w]) : x.id = i
  BY <1>1, IdsAre
<1> QED BY <1>2, TabIs

LEMMA VisibleTab ==
    ASSUME NEW s, SoundStore(s), NEW w \in DOMAIN s.by, NEW x \in TabsIn(s.by[w]),
           x.id \in Visible(s)
    PROVE  w = s.shown /\ x.id = s.by[w].active /\ x = s.by[w].tabs[PositionOf(s.by[w], x.id)]
<1>1. s.shown \in DOMAIN s.by /\ x.id = s.by[s.shown].active
      /\ x.id \in IdsIn(s.by[s.shown]) /\ x.id \in IdsIn(s.by[w])
  BY VisibleIn, TabIs
<1>2. w = s.shown
  BY <1>1 DEF SoundStore
<1>3. OwnerOf(s, x.id) = w /\ TabOf(s, x.id) = x
  BY TabIs
<1> QED BY <1>1, <1>2, <1>3 DEF TabOf

----------------------------------------------------------------------------
(* Rendering *)

(* A tab that an operation left as it was, up to its pin. *)
Kin(x, y) == x.id = y.id /\ x.path = y.path /\ x.at = y.at /\ x.len = y.len

Stays(w, x) ==
    /\ w \in DOMAIN store.by
    /\ \E y \in TabsIn(store.by[w]) : Kin(x, y)
    /\ x.id \notin leaked' => x.id \notin leaked

Starts(w, x) ==
    /\ x.id = next /\ x.at = 0 /\ x.len = 1
    /\ x.id \notin leaked' => InScope(w, x.path)

(* Every tab of s is one of the store's, or the new one. *)
Descends(s) == \A w \in DOMAIN s.by : \A x \in TabsIn(s.by[w]) : Stays(w, x) \/ Starts(w, x)

(* What Synced does with each tab. *)
LEMMA SyncedTabs ==
    ASSUME NEW s, SoundStore(s), NEW r, \A i \in LiveIds(s) : OKRouter(r[i]),
           NEW w \in DOMAIN Synced(s, r).by, NEW x \in TabsIn(Synced(s, r).by[w])
    PROVE  /\ w \in DOMAIN s.by
           /\ \E y \in TabsIn(s.by[w]) :
                /\ x.id = y.id /\ x.at = y.at /\ x.len = y.len /\ x.pinned = y.pinned
                /\ x.path = IF y.id \in Visible(s) THEN LocationOf(r[y.id]) ELSE y.path
<1>1. CASE Visible(s) = {}
  <2>1. Synced(s, r) = s
    BY <1>1 DEF Synced
  <2> QED BY <1>1, <2>1
<1>2. CASE Visible(s) # {}
  <2> DEFINE v == s.shown
             a == s.by[v].active
             k == PositionOf(s.by[v], a)
             z == s.by[v].tabs[k]
             u == [z EXCEPT !.path = LocationOf(r[a])]
             q == Synced(s, r)
  <2>1. v \in DOMAIN s.by /\ SoundGroup(s.by[v]) /\ a \in IdsIn(s.by[v]) /\ Visible(s) = {a}
    BY <1>2, VisibleIn
  <2>2. k \in DOMAIN s.by[v].tabs /\ z.id = a /\ z \in Tab
    BY <2>1, PositionIn
  <2>3. q = WithTabs(s, v, [s.by[v].tabs EXCEPT ![k] = u])
    BY <1>2 DEF Synced, updateTab
  <2>4. u.id = z.id /\ u.at = z.at /\ u.len = z.len /\ u.pinned = z.pinned /\ u.path = LocationOf(r[a])
    BY <2>2 DEF Tab
  <2>5. z \in TabsIn(s.by[v])
    BY <2>2, InRange DEF TabsIn
  <2> HIDE DEF u, k, q
  <2>6. Becomes(s, q, v, (TabsIn(s.by[v]) \ {z}) \cup {u}, a)
    BY <2>1, <2>2, <2>3, UpdateBecomes
  <2>7. w \in DOMAIN s.by
    BY <2>1, <2>6 DEF Becomes, q
  <2>8. CASE w = v /\ x = u
    BY <2>1, <2>2, <2>4, <2>5, <2>7, <2>8
  <2>9. CASE ~(w = v /\ x = u)
    <3>1. x \in TabsIn(s.by[w]) /\ x # z
      <4>1. CASE w = v
        BY <2>6, <2>9, <4>1 DEF Becomes, q
      <4>2. CASE w # v
        <5>1. x \in TabsIn(s.by[w])
          BY <2>6, <2>7, <4>2 DEF Becomes, q
        <5>2. OwnerOf(s, x.id) = w /\ OwnerOf(s, z.id) = v
          BY <2>1, <2>5, <2>7, <5>1, TabIs
        <5> QED BY <4>2, <5>1, <5>2
      <4> QED BY <4>1, <4>2
    <3>2. x.id # a
      <4>1. TabOf(s, x.id) = x /\ TabOf(s, z.id) = z
        BY <2>1, <2>5, <2>7, <3>1, TabIs
      <4> QED BY <2>2, <3>1, <4>1
    <3>3. x.id \notin Visible(s)
      BY <2>1, <3>2
    <3> QED BY <2>7, <3>1, <3>3
  <2> QED BY <2>8, <2>9
<1> QED BY <1>1, <1>2

LEMMA SyncedVisible ==
    ASSUME NEW s, SoundStore(s), NEW r
    PROVE  Visible(Synced(s, r)) = Visible(s)
<1>1. CASE Visible(s) = {}
  BY <1>1 DEF Synced
<1>2. CASE Visible(s) # {}
  <2> DEFINE v == s.shown
             a == s.by[v].active
             k == PositionOf(s.by[v], a)
             u == [s.by[v].tabs[k] EXCEPT !.path = LocationOf(r[a])]
             q == WithTabs(s, v, [s.by[v].tabs EXCEPT ![k] = u])
  <2>1. v \in DOMAIN s.by /\ k \in DOMAIN s.by[v].tabs /\ v # None
    BY <1>2, VisibleIn, PositionIn DEF Visible
  <2>2. Synced(s, r) = q
    BY <1>2 DEF Synced, updateTab
  <2> HIDE DEF u
  <2>3. Becomes(s, q, v, (TabsIn(s.by[v]) \ {s.by[v].tabs[k]}) \cup {u}, a) /\ q.shown = v
    BY <2>1, UpdateBecomes
  <2> HIDE DEF q
  <2>4. q.shown = v /\ q.by[v].active = a
    BY <2>3 DEF Becomes
  <2> QED BY <2>1, <2>2, <2>4 DEF Visible
<1> QED BY <1>1, <1>2

LEMMA AtLeastOne ==
    ASSUME NEW r, OKRouter(r)
    PROVE  /\ Len(r.stack) \in Nat /\ r.at \in Nat /\ r.at >= 1 /\ r.at <= Len(r.stack)
           /\ r.at \in DOMAIN r.stack
BY DEF OKRouter, Router

LEMMA RenderedTracked ==
    ASSUME Core, Tracked, NEW s, Keeps(store, s, next), Rendered(s), Descends(s)
    PROVE  Tracked'
<1> DEFINE live == LiveIds(s)
           r    == [i \in live |-> IF i \in DOMAIN router THEN router[i]
                                   ELSE createTabRouter(TabOf(s, i).path)]
           anew == IF s.shown = store.shown THEN {} ELSE Mounted(s)
<1>1. SoundStore(s) /\ next \notin LiveIds(store) /\ SoundStore(store)
      /\ DOMAIN router = LiveIds(store) /\ DOMAIN refs = LiveIds(store)
  BY DEF Keeps, Core, Numbered, Routed
<1>2. /\ store' = Synced(s, r) /\ router' = r
      /\ refs' = [i \in live |-> IF i \in DOMAIN refs \ anew THEN refs[i] ELSE Fresh]
      /\ lost' = (lost \cap live) \cup {i \in anew : Len(r[i].stack) > 1}
  BY DEF Rendered
<1>3. \A i \in LiveIds(store) : OKRouter(router[i]) /\ refs[i] \in Refs
  BY DEF Core, Routed, OKRouter
<1>4. \A i \in live : OKRouter(r[i])
  <2> SUFFICES ASSUME NEW i \in live PROVE OKRouter(r[i])
    OBVIOUS
  <2>1. CASE i \in DOMAIN router
    BY <1>1, <1>3, <2>1
  <2>2. CASE i \notin DOMAIN router
    <3>1. TabOf(s, i).path \in Location
      BY <1>1, TabIn DEF Tab
    <3> QED BY <2>2, <3>1, NewRouter
  <2> QED BY <2>1, <2>2
<1>5. Visible(store') = Visible(s)
  BY <1>1, <1>2, SyncedVisible
<1>6. anew \subseteq live
  BY <1>1, MountedIn
<1>7. ASSUME NEW w \in DOMAIN store'.by, NEW x \in TabsIn(store'.by[w])
      PROVE  /\ x.id \notin leaked' =>
                  /\ InScope(w, x.path)
                  /\ \A j \in DOMAIN r[x.id].stack : InScope(w, r[x.id].stack[j])
             /\ x.id \notin lost' =>
                  /\ x.at = r[x.id].at - 1 /\ x.len = Len(r[x.id].stack)
                  /\ refs'[x.id].at = x.at /\ refs'[x.id].len = x.len
             /\ x.id \in Visible(s) => x.path = LocationOf(r[x.id])
  <2>1. PICK z \in TabsIn(s.by[w]) :
           /\ w \in DOMAIN s.by
           /\ x.id = z.id /\ x.at = z.at /\ x.len = z.len
           /\ x.path = IF z.id \in Visible(s) THEN LocationOf(r[z.id]) ELSE z.path
    <3> HIDE DEF r
    <3> QED BY <1>1, <1>2, <1>4, <1>7, SyncedTabs
  <2> DEFINE i == z.id
  <2>2. i \in live /\ TabOf(s, i) = z
    BY <1>1, <2>1, TabIs
  <2>3. CASE Stays(w, z)
    <3>1. PICK y \in TabsIn(store.by[w]) : Kin(z, y) /\ w \in DOMAIN store.by
      BY <2>3 DEF Stays
    <3>2. i = y.id /\ z.path = y.path /\ z.at = y.at /\ z.len = y.len
          /\ (i \notin leaked' => i \notin leaked)
      BY <2>3, <3>1 DEF Kin, Stays
    <3>3. i \in LiveIds(store) /\ y \in Tab
      BY <1>1, <3>1, <3>2, TabIs
    <3>4. r[i] = router[i]
      BY <1>1, <2>2, <3>3
    <3>5. OKRouter(router[i]) /\ refs[i] \in Refs
      BY <1>3, <3>3
    <3>6. Scoped(w, y) /\ Counted(y)
      BY <3>1 DEF Tracked, Tracks
    <3>7. LocationOf(router[i]) = router[i].stack[router[i].at] /\ router[i].at \in DOMAIN router[i].stack
      BY <3>5, AtLeastOne DEF LocationOf
    <3>8. i \notin leaked' => /\ InScope(w, x.path)
                              /\ \A j \in DOMAIN r[i].stack : InScope(w, r[i].stack[j])
      BY <2>1, <3>2, <3>4, <3>6, <3>7 DEF Scoped
    <3>9. i \notin lost' => /\ x.at = r[i].at - 1 /\ x.len = Len(r[i].stack)
                            /\ refs'[i].at = x.at /\ refs'[i].len = x.len
      <4> SUFFICES ASSUME i \notin lost'
                   PROVE  /\ y.at = router[i].at - 1 /\ y.len = Len(router[i].stack)
                          /\ refs'[i].at = y.at /\ refs'[i].len = y.len
        BY <2>1, <3>2, <3>4
      <4>1. i \notin lost
        BY <1>2, <2>2
      <4>2. /\ y.at = router[i].at - 1 /\ y.len = Len(router[i].stack)
            /\ refs[i].at = y.at /\ refs[i].len = y.len
        BY <3>2, <3>6, <4>1 DEF Counted
      <4>3. CASE i \notin anew
        <5>1. refs'[i] = refs[i]
          BY <1>1, <1>2, <2>2, <3>3, <4>3
        <5> QED BY <4>2, <5>1
      <4>4. CASE i \in anew
        <5>1. refs'[i].at = 0 /\ refs'[i].len = 1
          BY <1>2, <2>2, <4>4 DEF Fresh
        <5>2. Len(router[i].stack) \in Nat /\ router[i].at \in Nat /\ router[i].at >= 1
              /\ router[i].at <= Len(router[i].stack)
          BY <3>5, AtLeastOne
        <5>3. PICK n \in Nat, m \in Nat : n = Len(router[i].stack) /\ m = router[i].at
          BY <5>2
        <5>4. ~(n > 1)
          BY <1>2, <3>4, <4>4, <5>3
        <5>5. m >= 1 /\ m <= n
          BY <5>2, <5>3
        <5>6. n = 1 /\ m = 1
          BY <5>4, <5>5
        <5> QED BY <4>2, <5>1, <5>3, <5>6
      <4> QED BY <4>3, <4>4
    <3> QED BY <2>1, <3>8, <3>9
  <2>4. CASE Starts(w, z)
    <3>1. i = next /\ z.at = 0 /\ z.len = 1 /\ (i \notin leaked' => InScope(w, z.path))
      BY <2>4 DEF Starts
    <3>2. r[i] = [stack |-> <<z.path>>, at |-> 1]
      BY <1>1, <2>2, <3>1 DEF createTabRouter
    <3>3. refs'[i] = [at |-> 0, len |-> 1]
      BY <1>1, <1>2, <2>2, <3>1 DEF Fresh
    <3>4. r[i].at = 1 /\ r[i].stack = <<z.path>> /\ refs'[i].at = 0 /\ refs'[i].len = 1
      BY <3>2, <3>3
    <3>5. LocationOf(r[i]) = z.path
      BY <3>4 DEF LocationOf
    <3>6. x.path = z.path
      BY <2>1, <3>5
    <3>7. Len(r[i].stack) = 1 /\ \A j \in DOMAIN r[i].stack : r[i].stack[j] = z.path
      <4>1. \A c : Len(<<c>>) = 1 /\ \A j \in DOMAIN <<c>> : <<c>>[j] = c
        OBVIOUS
      <4> HIDE DEF r
      <4> QED BY <3>4, <4>1
    <3> QED BY <2>1, <3>1, <3>4, <3>5, <3>6, <3>7
  <2> QED BY <2>1, <2>3, <2>4 DEF Descends
<1> HIDE DEF r
<1> QED BY <1>2, <1>5, <1>7 DEF Tracked, Tracks, Scoped, Counted, Synchronous, Visible

----------------------------------------------------------------------------
(* A navigation within a tab *)

(* The refs count what the router holds. *)
Follows(r, f) == f.at = r.at - 1 /\ f.len = Len(r.stack)

(* What the sync of a navigation does with each tab. *)
LEMMA NavigatedTabs ==
    ASSUME NEW s, SoundStore(s), NEW i \in Visible(s), NEW p \in Location,
           NEW at \in Nat, NEW len \in Nat,
           NEW q, q = updateTabHistory(updateTab(s, s.shown, PositionOf(s.by[s.shown], i), p),
                                       s.shown, PositionOf(s.by[s.shown], i), at, len),
           NEW w \in DOMAIN q.by, NEW x \in TabsIn(q.by[w])
    PROVE  /\ w \in DOMAIN s.by
           /\ \/ w = s.shown /\ x.id = i /\ x.path = p /\ x.at = at /\ x.len = len
                 /\ \E y \in TabsIn(s.by[w]) : y.id = i /\ y.pinned = x.pinned
              \/ x.id # i /\ x \in TabsIn(s.by[w])
<1> DEFINE v == s.shown
           k == PositionOf(s.by[v], i)
           z == s.by[v].tabs[k]
           u == [z EXCEPT !.path = p]
           b == WithTabs(s, v, [s.by[v].tabs EXCEPT ![k] = u])
           u2 == [u EXCEPT !.at = at, !.len = len]
<1>1. v \in DOMAIN s.by /\ SoundGroup(s.by[v]) /\ i \in IdsIn(s.by[v]) /\ s.by[v].active = i
  BY VisibleIn
<1>2. k \in DOMAIN s.by[v].tabs /\ z.id = i /\ z \in Tab
  BY <1>1, PositionIn
<1>3. u \in Tab /\ u.id = i /\ u.path = p /\ u.pinned = z.pinned
  BY <1>2 DEF Tab
<1>4. u2.id = i /\ u2.path = p /\ u2.at = at /\ u2.len = len /\ u2.pinned = z.pinned
  BY <1>3 DEF Tab
<1>5. z \in TabsIn(s.by[v])
  BY <1>2, InRange DEF TabsIn
<1>6. updateTab(s, v, k, p) = b
  BY DEF updateTab
<1> HIDE DEF u, k
<1>7. Becomes(s, b, v, (TabsIn(s.by[v]) \ {z}) \cup {u}, s.by[v].active)
  BY <1>1, <1>2, UpdateBecomes
<1>8. SoundStore(b) /\ b.by[v].tabs = [s.by[v].tabs EXCEPT ![k] = u] /\ b.shown = v
      /\ DOMAIN b.by = DOMAIN s.by
  <2>1. u.id = s.by[v].tabs[k].id /\ u.pinned = s.by[v].tabs[k].pinned
    BY <1>2, <1>3
  <2> HIDE DEF z
  <2>2. PICK c : c = b
    OBVIOUS
  <2>3. PICK a : a = v
    OBVIOUS
  <2>4. c = WithTabs(s, a, [s.by[a].tabs EXCEPT ![k] = u])
    BY <2>2, <2>3
  <2>5. Grows(s, c, 0) /\ c.shown = s.shown /\ DOMAIN c.by = DOMAIN s.by
        /\ c.by[a].tabs = [s.by[a].tabs EXCEPT ![k] = u]
    <3>1. a \in DOMAIN s.by /\ k \in DOMAIN s.by[a].tabs /\ u \in Tab
          /\ u.id = s.by[a].tabs[k].id /\ u.pinned = s.by[a].tabs[k].pinned
      BY <1>1, <1>2, <1>3, <2>1, <2>3
    <3> HIDE DEF b, v
    <3>2. LET r == WithTabs(s, a, [s.by[a].tabs EXCEPT ![k] = u])
          IN Grows(s, r, 0) /\ r.shown = s.shown /\ DOMAIN r.by = DOMAIN s.by
             /\ r.by[a].tabs = [s.by[a].tabs EXCEPT ![k] = u]
      BY <3>1, ChangeKeeps
    <3> QED BY <2>4, <3>2
  <2>6. Grows(s, b, 0) /\ b.shown = v /\ DOMAIN b.by = DOMAIN s.by
        /\ b.by[v].tabs = [s.by[v].tabs EXCEPT ![k] = u]
    BY <2>2, <2>3, <2>5
  <2> QED BY <2>6 DEF Grows, Keeps
<1>9. b.by[v].tabs[k] = u /\ k \in DOMAIN b.by[v].tabs
  BY <1>2, <1>8
<1>10. q = WithTabs(b, v, [b.by[v].tabs EXCEPT ![k] = u2])
  BY <1>6, <1>9 DEF updateTabHistory, k
<1> HIDE DEF u2, b
<1>11. Becomes(b, q, v, (TabsIn(b.by[v]) \ {u}) \cup {u2}, b.by[v].active)
  <2>1. v \in DOMAIN b.by
    BY <1>1, <1>8
  <2>2. Becomes(b, WithTabs(b, v, [b.by[v].tabs EXCEPT ![k] = u2]), v,
                (TabsIn(b.by[v]) \ {b.by[v].tabs[k]}) \cup {u2}, b.by[v].active)
    BY <1>8, <1>9, <2>1, UpdateBecomes
  <2> QED BY <1>9, <1>10, <2>2
<1>12. w \in DOMAIN s.by
  BY <1>1, <1>8, <1>11 DEF Becomes
<1>13. CASE w = v /\ x = u2
  BY <1>2, <1>4, <1>5, <1>12, <1>13
<1>14. CASE ~(w = v /\ x = u2)
  <2>1. x \in TabsIn(s.by[w]) /\ x # z
    <3>1. CASE w = v
      BY <1>7, <1>11, <1>14, <3>1 DEF Becomes
    <3>2. CASE w # v
      <4>1. q.by[w] = s.by[w]
        BY <1>7, <1>8, <1>11, <1>12, <3>2 DEF Becomes
      <4>2. OwnerOf(s, x.id) = w /\ OwnerOf(s, z.id) = v
        BY <1>1, <1>5, <1>12, <4>1, TabIs
      <4> QED BY <3>2, <4>1, <4>2
    <3> QED BY <3>1, <3>2
  <2>2. TabOf(s, x.id) = x /\ TabOf(s, z.id) = z
    BY <1>1, <1>5, <1>12, <2>1, TabIs
  <2> QED BY <1>2, <1>12, <2>1, <2>2
<1> QED BY <1>13, <1>14

LEMMA NavigatedTracked ==
    ASSUME Core, Tracked, NEW i \in DOMAIN router, NEW r, OKRouter(r), NEW f \in Refs,
           Navigated(i, r, f), leaked \subseteq leaked',
           i \notin leaked' => \A j \in DOMAIN r.stack : InScope(OwnerOf(store, i), r.stack[j]),
           Follows(router[i], refs[i]) => Follows(r, f)
    PROVE  Tracked'
<1>1. /\ router' = [router EXCEPT ![i] = r] /\ SoundStore(store)
      /\ DOMAIN router = LiveIds(store) /\ DOMAIN refs = LiveIds(store)
  BY DEF Navigated, Core, Routed
<1>2. f.at \in Nat /\ f.len \in Nat /\ LocationOf(r) \in Location
  BY WhereItIs DEF Refs
<1>3. r.at \in DOMAIN r.stack /\ LocationOf(r) = r.stack[r.at]
  BY AtLeastOne DEF LocationOf
<1>4. CASE i \in Visible(store)
  <2> DEFINE k == PositionOf(store.by[store.shown], i)
  <2>1. /\ refs' = [refs EXCEPT ![i] = f] /\ lost' = lost
        /\ store' = updateTabHistory(updateTab(store, store.shown, k, LocationOf(r)), store.shown, k, f.at, f.len)
    BY <1>4 DEF Navigated
  <2>2. PICK q : q = store'
    OBVIOUS
  <2>3. ASSUME NEW w \in DOMAIN q.by, NEW x \in TabsIn(q.by[w])
        PROVE  /\ x.id \notin leaked' =>
                    /\ InScope(w, x.path)
                    /\ \A j \in DOMAIN router'[x.id].stack : InScope(w, router'[x.id].stack[j])
               /\ x.id \notin lost' =>
                    /\ x.at = router'[x.id].at - 1 /\ x.len = Len(router'[x.id].stack)
                    /\ refs'[x.id].at = x.at /\ refs'[x.id].len = x.len
               /\ x.id \in Visible(store) => x.path = LocationOf(router'[x.id])
    <3>1. /\ w \in DOMAIN store.by
          /\ \/ w = store.shown /\ x.id = i /\ x.path = LocationOf(r) /\ x.at = f.at /\ x.len = f.len
                /\ \E y \in TabsIn(store.by[w]) : y.id = i /\ y.pinned = x.pinned
             \/ x.id # i /\ x \in TabsIn(store.by[w])
      BY <1>1, <1>2, <1>4, <2>1, <2>2, <2>3, NavigatedTabs
    <3>2. CASE x.id = i
      <4>1. PICK y \in TabsIn(store.by[w]) : y.id = i
        BY <3>1, <3>2
      <4>2. OwnerOf(store, i) = w
        BY <1>1, <3>1, <4>1, TabIs
      <4>3. router'[i] = r /\ refs'[i] = f
        BY <1>1, <2>1
      <4>4. i \notin lost' => Follows(router[i], refs[i])
        BY <2>1, <3>1, <4>1 DEF Tracked, Tracks, Counted, Follows
      <4> QED BY <1>3, <3>1, <3>2, <4>2, <4>3, <4>4 DEF Follows
    <3>3. CASE x.id # i
      <4>1. x \in TabsIn(store.by[w]) /\ w \in DOMAIN store.by
        BY <3>1, <3>3
      <4>2. x.id \in LiveIds(store)
        BY <1>1, <4>1, TabIs
      <4>3. router'[x.id] = router[x.id] /\ refs'[x.id] = refs[x.id]
        BY <1>1, <2>1, <3>3, <4>2
      <4> QED BY <2>1, <4>1, <4>3 DEF Tracked, Tracks, Scoped, Counted, Synchronous
    <3> QED BY <3>2, <3>3
  <2>4. Visible(store') = Visible(store)
    <3> DEFINE v == store.shown
               b == updateTab(store, v, k, LocationOf(r))
    <3>1. v \in DOMAIN store.by /\ SoundGroup(store.by[v]) /\ i \in IdsIn(store.by[v]) /\ v # None
      BY <1>1, <1>4, VisibleIn DEF Visible
    <3>2. k \in DOMAIN store.by[v].tabs
      BY <3>1, PositionIn
    <3>3. SoundStore(b) /\ v \in DOMAIN b.by /\ k \in DOMAIN b.by[v].tabs /\ b.shown = v
      BY <1>1, <1>2, <3>1, <3>2, UpdateIn
    <3>4. b.by[v].active = store.by[v].active
      BY <1>1, <3>1, WithTabsBecomes DEF updateTab, Becomes
    <3> HIDE DEF b, k
    <3>5. store'.by[v].active = b.by[v].active /\ store'.shown = b.shown
      <4>1. PICK t : store' = WithTabs(b, v, t)
        BY <2>1 DEF updateTabHistory, b
      <4>2. Becomes(b, WithTabs(b, v, t), v, Range(t), b.by[v].active)
            /\ WithTabs(b, v, t).shown = b.shown
        BY <3>3, WithTabsBecomes
      <4> QED BY <4>1, <4>2 DEF Becomes
    <3> QED BY <3>1, <3>3, <3>4, <3>5 DEF Visible
  <2> QED BY <2>2, <2>3, <2>4 DEF Tracked, Tracks, Scoped, Counted, Synchronous, Visible
<1>5. CASE i \notin Visible(store)
  <2>1. UNCHANGED <<store, refs>> /\ lost' = lost \cup {j \in {i} : f # refs[i]}
    BY <1>5 DEF Navigated
  <2>2. ASSUME NEW w \in DOMAIN store.by, NEW x \in TabsIn(store.by[w])
        PROVE  /\ x.id \notin leaked' =>
                    /\ InScope(w, x.path)
                    /\ \A j \in DOMAIN router'[x.id].stack : InScope(w, router'[x.id].stack[j])
               /\ x.id \notin lost' =>
                    /\ x.at = router'[x.id].at - 1 /\ x.len = Len(router'[x.id].stack)
                    /\ refs[x.id].at = x.at /\ refs[x.id].len = x.len
               /\ x.id \in Visible(store) => x.path = LocationOf(router'[x.id])
    <3>1. x.id \in LiveIds(store) /\ OwnerOf(store, x.id) = w
      BY <1>1, TabIs
    <3>2. Scoped(w, x) /\ Counted(x) /\ Synchronous(x)
      BY DEF Tracked, Tracks
    <3>3. CASE x.id = i
      <4>1. router'[i] = r
        BY <1>1
      <4>2. i \notin lost' => f = refs[i] /\ i \notin lost
        BY <2>1
      <4>3. i \notin lost' => Follows(r, refs[i])
        BY <3>2, <3>3, <4>2 DEF Counted, Follows
      <4> QED BY <1>5, <3>1, <3>2, <3>3, <4>1, <4>2, <4>3 DEF Follows, Scoped, Counted
    <3>4. CASE x.id # i
      <4>1. router'[x.id] = router[x.id]
        BY <1>1, <3>1, <3>4
      <4> QED BY <2>1, <3>2, <4>1 DEF Scoped, Counted, Synchronous
    <3> QED BY <3>3, <3>4
  <2> QED BY <2>1, <2>2 DEF Tracked, Tracks, Scoped, Counted, Synchronous
<1> QED BY <1>4, <1>5

LEMMA RouterMoves ==
    ASSUME NEW r, OKRouter(r), NEW p \in Location
    PROVE  /\ Pushed(r, p).at = r.at + 1 /\ Len(Pushed(r, p).stack) = r.at + 1
           /\ Replaced(r, p).at = r.at /\ Len(Replaced(r, p).stack) = Len(r.stack)
           /\ Popped(r).stack = r.stack /\ Popped(r).at = IF r.at > 1 THEN r.at - 1 ELSE r.at
           /\ Forwarded(r).stack = r.stack
           /\ Forwarded(r).at = IF r.at < Len(r.stack) THEN r.at + 1 ELSE r.at
           /\ \A j \in DOMAIN Pushed(r, p).stack :
                Pushed(r, p).stack[j] \in {p} \cup Range(r.stack)
           /\ \A j \in DOMAIN Replaced(r, p).stack :
                Replaced(r, p).stack[j] \in {p} \cup Range(r.stack)
<1>1. r \in Router /\ r.stack \in Seq(Location) /\ r.at \in 1..Len(r.stack) /\ Len(r.stack) \in Nat
  BY DEF OKRouter, Router
<1>2. /\ Pushed(r, p).at = r.at + 1 /\ Len(Pushed(r, p).stack) = r.at + 1
      /\ \A j \in DOMAIN Pushed(r, p).stack : Pushed(r, p).stack[j] \in {p} \cup Range(r.stack)
  <2> DEFINE a == SubSeq(r.stack, 1, r.at)
  <2>1. a \in Seq(Location) /\ Len(a) = r.at /\ \A j \in 1..r.at : a[j] = r.stack[j]
    BY <1>1, SubSeqProperties
  <2>2. \A j \in 1..r.at : r.stack[j] \in Range(r.stack)
    BY <1>1 DEF Range
  <2> HIDE DEF a
  <2>3. Pushed(r, p) = [stack |-> Append(a, p), at |-> r.at + 1]
    BY DEF Pushed, a
  <2>4. Len(Append(a, p)) = r.at + 1 /\ DOMAIN Append(a, p) = 1..(r.at + 1)
        /\ \A j \in 1..(r.at + 1) : Append(a, p)[j] = IF j = r.at + 1 THEN p ELSE a[j]
    BY <1>1, <2>1
  <2>5. \A j \in 1..(r.at + 1) : j # r.at + 1 => j \in 1..r.at
    BY <1>1
  <2>6. \A j \in DOMAIN Append(a, p) : Append(a, p)[j] \in {p} \cup Range(r.stack)
    BY <2>1, <2>2, <2>4, <2>5
  <2> QED BY <2>3, <2>4, <2>6
<1>3. /\ Replaced(r, p).at = r.at /\ Len(Replaced(r, p).stack) = Len(r.stack)
      /\ \A j \in DOMAIN Replaced(r, p).stack : Replaced(r, p).stack[j] \in {p} \cup Range(r.stack)
  <2> DEFINE t == [r.stack EXCEPT ![r.at] = p]
  <2>1. t \in Seq(Location) /\ DOMAIN t = DOMAIN r.stack /\ Len(t) = Len(r.stack)
        /\ \A j \in DOMAIN t : t[j] = p \/ t[j] = r.stack[j]
    BY <1>1
  <2> HIDE DEF t
  <2>2. Replaced(r, p) = [r EXCEPT !.stack = t]
    BY DEF Replaced, t
  <2>3. Replaced(r, p).at = r.at /\ Replaced(r, p).stack = t
    BY <1>1, <2>2 DEF Router
  <2> QED BY <2>1, <2>3 DEF Range
<1>4. /\ Popped(r).stack = r.stack /\ Popped(r).at = IF r.at > 1 THEN r.at - 1 ELSE r.at
      /\ Forwarded(r).stack = r.stack
      /\ Forwarded(r).at = IF r.at < Len(r.stack) THEN r.at + 1 ELSE r.at
  BY <1>1 DEF Popped, Forwarded, Router
<1> QED BY <1>2, <1>3, <1>4

LEMMA FollowsOn ==
    ASSUME NEW r, OKRouter(r), NEW f \in Refs, Follows(r, f), NEW p \in Location
    PROVE  /\ Follows(Pushed(r, p), RefsPushed(f)) /\ Follows(Replaced(r, p), f)
           /\ Follows(Popped(r), RefsPopped(f)) /\ Follows(Forwarded(r), RefsForwarded(f))
<1>1. PICK n \in Nat, m \in Nat : n = Len(r.stack) /\ m = r.at /\ m >= 1 /\ m <= n
  BY AtLeastOne
<1>2. f.at = m - 1 /\ f.len = n /\ f = [at |-> m - 1, len |-> n]
  BY <1>1 DEF Follows, Refs
<1>3. RefsPushed(f).at = m /\ RefsPushed(f).len = m + 1
  BY <1>2 DEF RefsPushed
<1>4. RefsPopped(f).at = (IF m - 1 > 0 THEN m - 2 ELSE m - 1) /\ RefsPopped(f).len = n
  BY <1>2 DEF RefsPopped
<1>5. RefsForwarded(f).at = (IF m - 1 < n - 1 THEN m ELSE m - 1) /\ RefsForwarded(f).len = n
  BY <1>2 DEF RefsForwarded
<1>6. Pushed(r, p).at = m + 1 /\ Len(Pushed(r, p).stack) = m + 1
      /\ Replaced(r, p).at = m /\ Len(Replaced(r, p).stack) = n
  BY <1>1, RouterMoves
<1>7. Popped(r).at = (IF m > 1 THEN m - 1 ELSE m) /\ Len(Popped(r).stack) = n
  BY <1>1, RouterMoves
<1>8. Forwarded(r).at = (IF m < n THEN m + 1 ELSE m) /\ Len(Forwarded(r).stack) = n
  BY <1>1, RouterMoves
<1> QED BY <1>1, <1>2, <1>3, <1>4, <1>5, <1>6, <1>7, <1>8 DEF Follows

(* What a tab that has not leaked has in its history. *)
LEMMA HistoryScoped ==
    ASSUME Core, Tracked, NEW i \in DOMAIN router, i \notin leaked
    PROVE  \A p \in Range(router[i].stack) : InScope(OwnerOf(store, i), p)
<1>1. /\ OwnerOf(store, i) \in DOMAIN store.by /\ TabOf(store, i).id = i
      /\ TabOf(store, i) \in TabsIn(store.by[OwnerOf(store, i)])
  BY TabWith DEF Core, Routed
<1> QED BY <1>1 DEF Tracked, Tracks, Scoped, Range

LEMMA HereTracked ==
    ASSUME IInv, Tracked, NEW i \in DOMAIN router, NEW p \in Path,
           PushHere(i, p) \/ ReplaceHere(i, p)
    PROVE  Tracked'
<1>1. OKRouter(router[i]) /\ refs[i] \in Refs /\ p \in Location
  BY RouterIn DEF Location
<1>2. PICK r, f : /\ Here(i, p, r, f)
                  /\ \/ r = Pushed(router[i], p) /\ f = RefsPushed(refs[i])
                     \/ r = Replaced(router[i], p) /\ f = refs[i]
  BY DEF PushHere, ReplaceHere
<1>3. OKRouter(r) /\ f \in Refs
  BY <1>1, <1>2, RoutersMove, RefsMove
<1>4. Follows(router[i], refs[i]) => Follows(r, f)
  BY <1>1, <1>2, FollowsOn
<1>5. /\ Navigated(i, r, f) /\ leaked \subseteq leaked'
      /\ i \notin leaked' => i \notin leaked /\ OwnerOf(store, i) = p.ws
  BY <1>2 DEF Here
<1>6. i \notin leaked' => \A j \in DOMAIN r.stack : InScope(OwnerOf(store, i), r.stack[j])
  <2>1. \A j \in DOMAIN r.stack : r.stack[j] \in {p} \cup Range(router[i].stack)
    BY <1>1, <1>2, RouterMoves
  <2> QED BY <1>5, <2>1, HistoryScoped DEF IInv, InScope
<1> QED BY <1>3, <1>4, <1>5, <1>6, NavigatedTracked DEF IInv

(* Within the history, or to the root. *)
LEMMA WithinTracked ==
    ASSUME IInv, Tracked, NEW i \in DOMAIN router, NEW r, NEW f, UNCHANGED leaked, Navigated(i, r, f),
           \/ r = Replaced(router[i], Root) /\ f = refs[i]
           \/ r = Popped(router[i]) /\ f = RefsPopped(refs[i])
           \/ r = Forwarded(router[i]) /\ f = RefsForwarded(refs[i])
    PROVE  Tracked'
<1>1. OKRouter(router[i]) /\ refs[i] \in Refs /\ Root \in Location
  BY RouterIn DEF Location
<1>2. OKRouter(r) /\ f \in Refs
  BY <1>1, RoutersMove, RefsMove
<1>3. Follows(router[i], refs[i]) => Follows(r, f)
  BY <1>1, FollowsOn
<1>4. i \notin leaked' => \A j \in DOMAIN r.stack : InScope(OwnerOf(store, i), r.stack[j])
  <2>1. \A j \in DOMAIN r.stack : r.stack[j] \in {Root} \cup Range(router[i].stack)
    BY <1>1, RouterMoves DEF Range
  <2>2. InScope(OwnerOf(store, i), Root)
    BY DEF InScope, Root
  <2> QED BY <2>1, <2>2, HistoryScoped DEF IInv
<1> QED BY <1>2, <1>3, <1>4, NavigatedTracked DEF IInv

----------------------------------------------------------------------------
(* What each operation on the store leaves of the tabs *)

LEMMA BecomesDescends ==
    ASSUME SoundStore(store), NEW s, SoundStore(s), NEW w, NEW T, NEW a, Becomes(store, s, w, T, a),
           leaked \cap LiveIds(s) \subseteq leaked',
           \A x \in T : \/ w \in DOMAIN store.by /\ \E y \in TabsIn(store.by[w]) : Kin(x, y)
                        \/ Starts(w, x)
    PROVE  Descends(s)
<1> SUFFICES ASSUME NEW v \in DOMAIN s.by, NEW x \in TabsIn(s.by[v])
             PROVE  Stays(v, x) \/ Starts(v, x)
  BY DEF Descends
<1>1. x.id \notin leaked' => x.id \notin leaked
  BY TabIs
<1>2. CASE v = w
  <2>1. x \in T
    BY <1>2 DEF Becomes
  <2> QED BY <1>1, <1>2, <2>1 DEF Stays
<1>3. CASE v # w
  <2>1. v \in DOMAIN store.by /\ s.by[v] = store.by[v]
    BY <1>3 DEF Becomes
  <2> QED BY <1>1, <2>1 DEF Stays, Kin
<1> QED BY <1>2, <1>3

LEMMA MadeStarts ==
    ASSUME NEW w, NEW p, next \notin leaked' => p.ws = w
    PROVE  Starts(w, makeTab(p, next))
BY DEF Starts, makeTab, InScope

(* One more tab, or none. *)
LEMMA AddDescends ==
    ASSUME SoundStore(store), NEW s, SoundStore(s), NEW w, NEW T, NEW a, Becomes(store, s, w, T, a),
           leaked \subseteq leaked', NEW p, next \notin leaked' => p.ws = w,
           \/ w \notin DOMAIN store.by /\ T = {makeTab(p, next)}
           \/ w \in DOMAIN store.by /\ T = TabsIn(store.by[w])
           \/ w \in DOMAIN store.by /\ T = TabsIn(store.by[w]) \cup {makeTab(p, next)}
    PROVE  Descends(s)
<1>1. Starts(w, makeTab(p, next))
  BY MadeStarts
<1>2. \A x : Kin(x, x)
  BY DEF Kin
<1> QED BY <1>1, <1>2, BecomesDescends

LEMMA ElsewhereTracked ==
    ASSUME IInv, Tracked, NEW p \in Path, Elsewhere(p)
    PROVE  Tracked'
<1> DEFINE s == switchWorkspaceTo(store, p.ws, p, next)
<1>1. /\ p \in Location /\ p.ws \in Workspaces /\ Rendered(s) /\ UNCHANGED leaked
      /\ SoundStore(store) /\ next \in Nat /\ next \notin LiveIds(store)
  BY DEF Elsewhere, Path, Location, IInv, Core, Numbered
<1>2. Keeps(store, s, next)
  BY <1>1, SwitchToKeeps DEF Grows
<1>3. \/ p.ws \notin DOMAIN store.by /\ Becomes(store, s, p.ws, {makeTab(p, next)}, next)
      \/ p.ws \in DOMAIN store.by
         /\ \/ \E x \in TabsIn(store.by[p.ws]) : Becomes(store, s, p.ws, TabsIn(store.by[p.ws]), x.id)
            \/ Becomes(store, s, p.ws, TabsIn(store.by[p.ws]) \cup {makeTab(p, next)}, next)
  BY <1>1, SwitchToBecomes
<1> HIDE DEF s
<1>4. SoundStore(s) /\ leaked \subseteq leaked'
  BY <1>1, <1>2 DEF Keeps
<1>5. Descends(s)
  BY <1>1, <1>3, <1>4, AddDescends
<1> QED BY <1>1, <1>2, <1>5, RenderedTracked DEF IInv

LEMMA OpenTracked ==
    ASSUME IInv, Tracked, NEW p \in Path, store.shown # None, leaked \subseteq leaked',
           \/ p.ws = store.shown
           \/ openedBy(store, p, next) \in leaked',
           \/ Rendered(openTab(store, p, next)) /\ p.ws = store.shown
           \/ Rendered(Focused(openTab(store, p, next), store.shown, openedBy(store, p, next)))
    PROVE  Tracked'
<1> DEFINE w == store.shown
           a == openedBy(store, p, next)
           s == openTab(store, p, next)
           r == Focused(s, w, a)
           T == TabsIn(store.by[w]) \cup {makeTab(p, next)}
<1>1. /\ p \in Location /\ SoundStore(store) /\ w \in DOMAIN store.by
      /\ next \in Nat /\ next \notin LiveIds(store)
  BY ShownIn DEF Path, Location, IInv, Core
<1>2. Grows(store, s, next) /\ Grows(store, r, next)
  BY <1>1, OpenKeeps
<1>3. \/ \E x \in TabsIn(store.by[w]) :
            /\ a = x.id
            /\ Becomes(store, s, w, TabsIn(store.by[w]), a)
            /\ Becomes(store, r, w, TabsIn(store.by[w]), a)
      \/ /\ a = next
         /\ Becomes(store, s, w, T, store.by[w].active)
         /\ Becomes(store, r, w, T, a)
  BY <1>1, OpenBecomes
<1>4. \/ Rendered(s) /\ p.ws = w
      \/ Rendered(r)
  OBVIOUS
<1>5. p.ws = w \/ a \in leaked'
  OBVIOUS
<1> HIDE DEF a, s, r, w
<1>6. SoundStore(s) /\ SoundStore(r) /\ Keeps(store, s, next) /\ Keeps(store, r, next)
  BY <1>2 DEF Grows, Keeps
<1>7. \A x : Kin(x, x)
  BY DEF Kin
<1>8. ASSUME NEW q, NEW b, SoundStore(q), Becomes(store, q, w, TabsIn(store.by[w]), b)
      PROVE  Descends(q)
  BY <1>1, <1>7, <1>8, BecomesDescends
<1>9. ASSUME NEW q, NEW b, SoundStore(q), Becomes(store, q, w, T, b), next \notin leaked' => p.ws = w
      PROVE  Descends(q)
  BY <1>1, <1>9, AddDescends
<1>10. Descends(s) /\ Descends(r)
  <2> HIDE DEF T
  <2> QED BY <1>3, <1>5, <1>6, <1>8, <1>9
<1> QED BY <1>4, <1>6, <1>10, RenderedTracked DEF IInv

LEMMA NewTabTracked ==
    ASSUME IInv, Tracked, NewTab
    PROVE  Tracked'
<1> DEFINE w == store.shown
           p == defaultPathFor(w)
           s == Focused(addTab(store, p, next), w, next)
<1>1. /\ w # None /\ SoundStore(store) /\ Rendered(s) /\ UNCHANGED leaked
      /\ w \in DOMAIN store.by /\ next \in Nat /\ next \notin LiveIds(store)
  BY ShownIn DEF NewTab, IInv, Core
<1>2. p \in Location /\ p.ws = w
  BY <1>1, GroupIn, HomePath DEF defaultPathFor
<1>3. Keeps(store, s, next)
  BY <1>1, <1>2, AddKeeps DEF Grows
<1>4. Becomes(store, s, w, TabsIn(store.by[w]) \cup {makeTab(p, next)}, next)
  BY <1>1, <1>2, AddBecomes
<1> HIDE DEF s, p
<1>5. SoundStore(s) /\ leaked \subseteq leaked'
  BY <1>1, <1>3 DEF Keeps
<1>6. Descends(s)
  BY <1>1, <1>2, <1>4, <1>5, AddDescends
<1> QED BY <1>1, <1>3, <1>6, RenderedTracked DEF IInv

LEMMA BarTracked ==
    ASSUME IInv, Tracked, NEW k, CloseTab(k) \/ Select(k) \/ TogglePin(k)
    PROVE  Tracked'
<1> DEFINE w == store.shown
           g == store.by[w]
<1>1. /\ w # None /\ k \in DOMAIN g.tabs /\ SoundStore(store)
      /\ w \in DOMAIN store.by /\ next \in Nat /\ next \notin LiveIds(store)
  BY ShownIn DEF CloseTab, Select, TogglePin, Known, IInv, Core
<1>2. \A x : Kin(x, x)
  BY DEF Kin
<1>3. CASE CloseTab(k)
  <2> DEFINE s == closeTab(store, w, k, next)
  <2>1. Rendered(s) /\ leaked' = leaked \cap LiveIds(s) /\ Len(g.tabs) > 1
    BY <1>3 DEF CloseTab
  <2>2. Keeps(store, s, next)
    BY <1>1, CloseKeeps
  <2>3. PICK a : Becomes(store, s, w, TabsIn(g) \ {g.tabs[k]}, a)
    BY <1>1, <2>1, CloseBecomes
  <2> HIDE DEF s
  <2>4. Descends(s)
    BY <1>1, <1>2, <2>1, <2>2, <2>3, BecomesDescends DEF Keeps
  <2> QED BY <2>1, <2>2, <2>4, RenderedTracked DEF IInv
<1>4. CASE Select(k)
  <2> DEFINE s == setActiveTab(store, w, k)
  <2>1. Rendered(s) /\ UNCHANGED leaked
    BY <1>4 DEF Select
  <2>2. Keeps(store, s, next)
    BY <1>1, FocusKeeps DEF setActiveTab, Grows
  <2>3. PICK a : Becomes(store, s, w, TabsIn(g), a)
    BY <1>1, SelectBecomes
  <2> HIDE DEF s
  <2>4. Descends(s)
    BY <1>1, <1>2, <2>1, <2>2, <2>3, BecomesDescends DEF Keeps
  <2> QED BY <2>1, <2>2, <2>4, RenderedTracked DEF IInv
<1>5. CASE TogglePin(k)
  <2> DEFINE s == togglePin(store, w, k)
             x == g.tabs[k]
             y == [x EXCEPT !.pinned = ~@]
  <2>1. Rendered(s) /\ UNCHANGED leaked
    BY <1>5 DEF TogglePin
  <2>2. Grows(store, s, next) /\ Becomes(store, s, w, (TabsIn(g) \ {x}) \cup {y}, g.active)
    BY <1>1, ToggleKeeps
  <2>3. Keeps(store, s, next)
    BY <2>2 DEF Grows
  <2>4. x \in TabsIn(g) /\ x \in Tab
    BY <1>1, InRange, GroupIn, TabIs DEF TabsIn
  <2>5. Kin(y, x)
    BY <2>4 DEF Kin, Tab
  <2> HIDE DEF s, x, y
  <2>6. Descends(s)
    <3>1. SoundStore(s) /\ leaked \cap LiveIds(s) \subseteq leaked'
      BY <2>1, <2>3 DEF Keeps
    <3>2. \A z \in (TabsIn(g) \ {x}) \cup {y} : \E u \in TabsIn(g) : Kin(z, u)
      BY <1>2, <2>4, <2>5
    <3> QED BY <1>1, <2>2, <3>1, <3>2, BecomesDescends
  <2> QED BY <2>1, <2>3, <2>6, RenderedTracked DEF IInv
<1> QED BY <1>3, <1>4, <1>5

LEMMA DragTracked ==
    ASSUME IInv, Tracked, NEW from, NEW to, Drag(from, to)
    PROVE  Tracked'
<1> DEFINE w == store.shown
           s == moveTab(store, from, to)
<1>1. /\ w # None /\ from \in DOMAIN store.by[w].tabs /\ to \in DOMAIN store.by[w].tabs
      /\ SoundStore(store) /\ w \in DOMAIN store.by /\ Rendered(s) /\ UNCHANGED leaked
  BY ShownIn DEF Drag, Known, IInv, Core
<1>2. Grows(store, s, next) /\ Becomes(store, s, w, TabsIn(store.by[w]), store.by[w].active)
  BY <1>1, MoveKeeps
<1> HIDE DEF s
<1>3. Keeps(store, s, next) /\ SoundStore(s)
  BY <1>2 DEF Grows, Keeps
<1>4. Descends(s)
  <2>1. \A x : Kin(x, x)
    BY DEF Kin
  <2> QED BY <1>1, <1>2, <1>3, <2>1, BecomesDescends
<1> QED BY <1>1, <1>3, <1>4, RenderedTracked DEF IInv

(* A list of workspaces: some go, and perhaps one is entered. *)
LEMMA ValidTracked ==
    ASSUME IInv, Tracked, NEW L, NEW v \in FirstOf(DOMAIN store.by \cap L), NEW s,
           s = validateWorkspaceSlugs(store, L, v), leaked' = leaked \cap LiveIds(s),
           \/ Rendered(s)
           \/ s.shown = None /\ \E w \in Workspaces : Rendered(switchWorkspace(s, w, next))
    PROVE  Tracked'
<1>1. SoundStore(store) /\ next \in Nat /\ next \notin LiveIds(store)
  BY DEF IInv, Core, Numbered
<1>2. Keeps(store, s, next) /\ LiveIds(s) \subseteq LiveIds(store)
  <2>1. v \in (DOMAIN store.by \cap L) \cup {None}
    BY DEF FirstOf
  <2> QED BY <1>1, <2>1, ValidateKeeps
<1>3. /\ DOMAIN s.by = DOMAIN store.by \cap L /\ \A w \in DOMAIN s.by : s.by[w] = store.by[w]
      /\ SoundStore(s) /\ next \notin LiveIds(s)
  BY <1>1, <1>2, ValidateBecomes DEF Keeps
<1>4. ASSUME NEW w \in DOMAIN s.by, NEW x \in TabsIn(s.by[w]) PROVE Stays(w, x)
  BY <1>3, TabIs DEF Stays, Kin
<1>5. Descends(s)
  BY <1>4 DEF Descends
<1>6. CASE Rendered(s)
  BY <1>2, <1>5, <1>6, RenderedTracked DEF IInv
<1>7. ASSUME NEW w \in Workspaces, Rendered(switchWorkspace(s, w, next)) PROVE Tracked'
  <2> DEFINE q == switchWorkspace(s, w, next)
             p == defaultPathFor(w)
  <2>1. Grows(s, q, next)
    BY <1>1, <1>3, SwitchKeeps
  <2>2. /\ w \in DOMAIN s.by => q.by = s.by
        /\ w \notin DOMAIN s.by => Becomes(s, q, w, {makeTab(p, next)}, next)
    BY <1>3, SwitchBecomes
  <2>3. p.ws = w
    BY DEF defaultPathFor
  <2> HIDE DEF q, p
  <2>4. Keeps(store, q, next)
    BY <1>2, <2>1 DEF Grows, Keeps
  <2>5. ASSUME NEW u \in DOMAIN q.by, NEW x \in TabsIn(q.by[u]) PROVE Stays(u, x) \/ Starts(u, x)
    <3>1. CASE u \in DOMAIN s.by /\ q.by[u] = s.by[u]
      BY <1>4, <2>5, <3>1
    <3>2. CASE u = w /\ TabsIn(q.by[w]) = {makeTab(p, next)}
      BY <2>3, <2>5, <3>2, MadeStarts
    <3> QED BY <2>2, <2>5, <3>1, <3>2 DEF Becomes
  <2>6. Descends(q)
    BY <2>5 DEF Descends
  <2>7. Rendered(q)
    BY <1>7 DEF q
  <2> QED BY <2>4, <2>6, <2>7, RenderedTracked DEF IInv
<1> QED BY <1>6, <1>7

LEMMA SessionTracked ==
    ASSUME IInv, Tracked,
           \/ \E L \in SUBSET Workspaces, w \in Workspaces : ListArrives(L, w)
           \/ EmptyListArrives \/ Heal \/ Logout
    PROVE  Tracked'
<1>1. ASSUME NEW L \in SUBSET Workspaces, NEW w \in Workspaces, ListArrives(L, w) PROVE Tracked'
  <2>1. PICK v, s :
          /\ v \in FirstOf(DOMAIN store.by \cap L)
          /\ s = validateWorkspaceSlugs(store, L, v)
          /\ Rendered(IF s.shown = None THEN switchWorkspace(s, w, next) ELSE s)
          /\ leaked' = leaked \cap LiveIds(s)
    BY <1>1 DEF ListArrives
  <2>2. CASE s.shown = None
    BY <2>1, <2>2, ValidTracked
  <2>3. CASE s.shown # None
    BY <2>1, <2>3, ValidTracked
  <2> QED BY <2>2, <2>3
<1>2. ASSUME Heal PROVE Tracked'
  <2>1. PICK v, s :
          /\ v \in FirstOf(DOMAIN store.by \cap list)
          /\ s = validateWorkspaceSlugs(store, list, v)
          /\ Rendered(s) /\ leaked' = leaked \cap LiveIds(s)
    BY <1>2 DEF Heal
  <2> QED BY <2>1, ValidTracked
<1>3. ASSUME EmptyListArrives \/ Logout PROVE Tracked'
  <2>1. Rendered(reset)
    BY <1>3 DEF EmptyListArrives, Logout
  <2>2. Descends(reset)
    BY DEF Descends, reset
  <2> QED BY <2>1, <2>2, ResetKeeps, RenderedTracked DEF IInv
<1> QED BY <1>1, <1>2, <1>3

LEMMA RestartTracked ==
    ASSUME IInv, Restart
    PROVE  Tracked'
<1>1. PICK v, s :
         /\ v \in FirstOf(mergedSlugs(store))
         /\ s = merge(store, v) /\ store' = s
         /\ router' = [i \in LiveIds(s) |-> createTabRouter(TabOf(s, i).path)]
         /\ refs' = [i \in LiveIds(s) |-> Fresh]
  BY DEF Restart
<1>2. SoundStore(store) /\ v \in mergedSlugs(store) \cup {None}
  BY <1>1 DEF FirstOf, IInv, Core
<1>3. SoundStore(s)
  BY <1>1, <1>2, MergeKeeps DEF Keeps
<1>4. DOMAIN s.by \subseteq DOMAIN store.by
      /\ \A w \in DOMAIN s.by : \A x \in TabsIn(s.by[w]) : \E y \in TabsIn(store.by[w]) : Comes(x, y, w)
  BY <1>1, <1>2, MergeBecomes
<1>5. ASSUME NEW w \in DOMAIN s.by, NEW x \in TabsIn(s.by[w])
      PROVE  /\ InScope(w, x.path)
             /\ \A j \in DOMAIN router'[x.id].stack : InScope(w, router'[x.id].stack[j])
             /\ x.at = router'[x.id].at - 1 /\ x.len = Len(router'[x.id].stack)
             /\ refs'[x.id].at = x.at /\ refs'[x.id].len = x.len
             /\ x.path = LocationOf(router'[x.id])
  <2>1. x.id \in LiveIds(s) /\ TabOf(s, x.id) = x
    BY <1>3, <1>5, TabIs
  <2>2. PICK y \in TabsIn(store.by[w]) : Comes(x, y, w)
    BY <1>4, <1>5
  <2>3. y \in Tab
    BY <1>2, <1>4, <1>5, TabIs
  <2>4. x.path.ws = w /\ x.at = 0 /\ x.len = 1
    BY <2>2, <2>3 DEF Comes, Tab
  <2>5. router'[x.id] = [stack |-> <<x.path>>, at |-> 1] /\ refs'[x.id] = [at |-> 0, len |-> 1]
    BY <1>1, <2>1 DEF createTabRouter, Fresh
  <2>6. router'[x.id].stack = <<x.path>> /\ router'[x.id].at = 1
        /\ refs'[x.id].at = 0 /\ refs'[x.id].len = 1
    BY <2>5
  <2>7. \A c : Len(<<c>>) = 1 /\ <<c>>[1] = c /\ \A j \in DOMAIN <<c>> : <<c>>[j] = c
    OBVIOUS
  <2>8. Len(router'[x.id].stack) = 1 /\ LocationOf(router'[x.id]) = x.path
        /\ \A j \in DOMAIN router'[x.id].stack : router'[x.id].stack[j] = x.path
    BY <2>6, <2>7 DEF LocationOf
  <2> QED BY <2>4, <2>6, <2>8 DEF InScope
<1>6. ASSUME NEW w \in DOMAIN s.by, NEW x \in TabsIn(s.by[w]) PROVE Tracks(w, x)'
  <2>1. Scoped(w, x)'
    BY <1>5, <1>6 DEF Scoped
  <2>2. Counted(x)'
    BY <1>5, <1>6 DEF Counted
  <2>3. Synchronous(x)'
    BY <1>5, <1>6 DEF Synchronous
  <2> QED BY <2>1, <2>2, <2>3 DEF Tracks
<1> QED BY <1>1, <1>6 DEF Tracked

----------------------------------------------------------------------------
(* Every step *)

LEMMA InitTracked == Init => Tracked
BY DEF Init, reset, Tracked

LEMMA PageTracked ==
    ASSUME IInv, Tracked, NEW i \in DOMAIN router,
           \/ \E p \in Path :
               \/ PushElsewhere(i, p) \/ PushFromPinned(i, p) \/ PushHere(i, p) \/ ReplaceHere(i, p)
           \/ Transition(i) \/ Back(i)
    PROVE  Tracked'
<1>1. ASSUME NEW p \in Path, PushElsewhere(i, p) PROVE Tracked'
  BY <1>1, ElsewhereTracked DEF PushElsewhere
<1>2. ASSUME NEW p \in Path, PushFromPinned(i, p) PROVE Tracked'
  <2>1. store.shown # None /\ p.ws = store.shown /\ leaked \subseteq leaked'
        /\ Rendered(Focused(openTab(store, p, next), store.shown, openedBy(store, p, next)))
    BY <1>2, NoneAssumption DEF PushFromPinned, Path
  <2> QED BY <2>1, OpenTracked
<1>3. ASSUME NEW p \in Path, PushHere(i, p) \/ ReplaceHere(i, p) PROVE Tracked'
  BY <1>3, HereTracked
<1>4. ASSUME Transition(i) PROVE Tracked'
  BY <1>4, WithinTracked DEF Transition
<1>5. ASSUME Back(i) PROVE Tracked'
  BY <1>5, WithinTracked DEF Back
<1> QED BY <1>1, <1>2, <1>3, <1>4, <1>5

LEMMA LinkTracked ==
    ASSUME IInv, Tracked, NEW p \in Path, NEW activate \in BOOLEAN,
           OpenInNewTab(p, activate) \/ InternalLink(p)
    PROVE  Tracked'
<1>1. CASE OpenInNewTab(p, activate)
  <2>1. store.shown # None /\ p.ws = store.shown /\ leaked \subseteq leaked'
    BY <1>1, NoneAssumption DEF OpenInNewTab, Path
  <2>2. \/ Rendered(openTab(store, p, next))
        \/ Rendered(Focused(openTab(store, p, next), store.shown, openedBy(store, p, next)))
    <3>1. openTab(store, p, next).shown = store.shown
      BY <2>1, Opened
    <3> QED BY <1>1, <3>1 DEF OpenInNewTab
  <2> QED BY <2>1, <2>2, OpenTracked
<1>2. CASE InternalLink(p)
  <2>1. /\ store.shown # None /\ leaked \subseteq leaked'
        /\ p.ws = store.shown \/ openedBy(store, p, next) \in leaked'
        /\ Rendered(Focused(openTab(store, p, next), store.shown, openedBy(store, p, next)))
    BY <1>2 DEF InternalLink
  <2> QED BY <2>1, OpenTracked
<1> QED BY <1>1, <1>2

LEMMA ArrowTracked ==
    ASSUME IInv, Tracked, GoBack \/ GoForward
    PROVE  Tracked'
<1>1. \A i \in Visible(store) : i \in DOMAIN router
  BY VisibleIn DEF IInv, Core, Routed
<1>2. CASE GoBack
  BY <1>1, <1>2, PageTracked DEF GoBack
<1>3. CASE GoForward
  BY <1>1, <1>3, WithinTracked DEF GoForward
<1> QED BY <1>2, <1>3

LEMMA StepTracked == IInv /\ Tracked /\ [Next]_vars => Tracked'
<1>1. ASSUME Tracked, UNCHANGED vars PROVE Tracked'
  BY <1>1 DEF vars, Tracked, Tracks, Scoped, Counted, Synchronous, Visible
<1> SUFFICES ASSUME IInv, Tracked, Next PROVE Tracked'
  BY <1>1
<1>2. Step
  BY DEF Next
<1>3. ASSUME NEW i \in DOMAIN router,
             \/ \E p \in Path :
                 \/ PushElsewhere(i, p) \/ PushFromPinned(i, p) \/ PushHere(i, p) \/ ReplaceHere(i, p)
             \/ Transition(i) \/ Back(i)
      PROVE  Tracked'
  BY <1>3, PageTracked
<1>4. ASSUME NEW p \in Path, ReplaceElsewhere(p) PROVE Tracked'
  BY <1>4, ElsewhereTracked DEF ReplaceElsewhere
<1>5. ASSUME NEW p \in Path, NEW activate \in BOOLEAN, OpenInNewTab(p, activate) PROVE Tracked'
  BY <1>5, LinkTracked
<1>6. ASSUME NEW p \in Path, InternalLink(p) PROVE Tracked'
  BY <1>6, LinkTracked
<1>7. ASSUME GoBack \/ GoForward PROVE Tracked'
  BY <1>7, ArrowTracked
<1>8. ASSUME NewTab PROVE Tracked'
  BY <1>8, NewTabTracked
<1>9. ASSUME NEW k, CloseTab(k) \/ Select(k) \/ TogglePin(k) PROVE Tracked'
  BY <1>9, BarTracked
<1>10. ASSUME NEW from, NEW to, Drag(from, to) PROVE Tracked'
  BY <1>10, DragTracked
<1>11. ASSUME \/ \E L \in SUBSET Workspaces, w \in Workspaces : ListArrives(L, w)
              \/ EmptyListArrives \/ Heal \/ Logout
       PROVE  Tracked'
  BY <1>11, SessionTracked
<1>12. ASSUME Restart PROVE Tracked'
  BY <1>12, RestartTracked
<1> QED BY <1>2, <1>3, <1>4, <1>5, <1>6, <1>7, <1>8, <1>9, <1>10, <1>11, <1>12 DEF Step

(* Beside the invariant above, every tab is tracked. *)
THEOREM InductiveTracked == Spec => []Tracked
BY Inductive, InitTracked, StepTracked, PTL DEF Spec

(* A tab stays in its workspace, in the store and in its whole history,      *)
(* unless a link or a late push took it elsewhere (tab-store.ts:51-56,       *)
(* tryRouteToOtherWorkspace).                                                *)
THEOREM StaysScoped == Spec => []PathsScoped
<1>1. Tracked => PathsScoped
  <2> SUFFICES ASSUME Tracked, NEW w \in DOMAIN store.by, NEW k \in DOMAIN store.by[w].tabs
               PROVE  LET tab == store.by[w].tabs[k]
                      IN tab.id \notin leaked =>
                          /\ tab.path.ws \in {w, None}
                          /\ \A j \in DOMAIN router[tab.id].stack : router[tab.id].stack[j].ws \in {w, None}
    BY DEF PathsScoped
  <2>1. store.by[w].tabs[k] \in TabsIn(store.by[w])
    BY InRange DEF TabsIn
  <2> QED BY <2>1 DEF Tracked, Tracks, Scoped, InScope
<1> QED BY InductiveTracked, <1>1, PTL

(* The tab bar shows where the visible tab is and the arrows count what its  *)
(* router holds, through any sequence of navigations, focus changes and      *)
(* restarts, but for a tab that moved or was unmounted out of sight          *)
(* (use-tab-router-sync.ts, use-tab-history.ts).                             *)
THEOREM HistoryStays == Spec => []HistoryFaithful
<1>1. IInv /\ Tracked => HistoryFaithful
  <2> SUFFICES ASSUME IInv, Tracked PROVE HistoryFaithful
    OBVIOUS
  <2>1. ASSUME NEW i \in LiveIds(store)
        PROVE  \E w \in DOMAIN store.by : \E x \in TabsIn(store.by[w]) :
                  x = TabOf(store, i) /\ x.id = i /\ Tracks(w, x)
    BY TabWith DEF IInv, Core, Tracked
  <2>2. Visible(store) \subseteq LiveIds(store)
    BY VisibleIn DEF IInv, Core
  <2> QED BY <2>1, <2>2 DEF HistoryFaithful, Tracks, Counted, Synchronous
<1> QED BY Inductive, InductiveTracked, <1>1, PTL

----------------------------------------------------------------------------
(* What the promise sees of a store *)

OpenOf(s)  == [w \in DOMAIN s.by |-> IdsIn(s.by[w])]
FocusOf(s) == [w \in DOMAIN s.by |-> s.by[w].active]
PinsOf(s)  == {i \in LiveIds(s) : TabOf(s, i).pinned}

Alike(s, q) ==
    OpenOf(q) = OpenOf(s) /\ FocusOf(q) = FocusOf(s) /\ PinsOf(q) = PinsOf(s) /\ q.shown = s.shown

LEMMA PinsAre ==
    ASSUME NEW s, SoundStore(s), NEW i
    PROVE  i \in PinsOf(s) <=> \E w \in DOMAIN s.by : \E x \in TabsIn(s.by[w]) : x.id = i /\ x.pinned
<1>1. ASSUME i \in PinsOf(s)
      PROVE  \E w \in DOMAIN s.by : \E x \in TabsIn(s.by[w]) : x.id = i /\ x.pinned
  BY <1>1, TabWith DEF PinsOf
<1>2. ASSUME NEW w \in DOMAIN s.by, NEW x \in TabsIn(s.by[w]), x.id = i, x.pinned
      PROVE  i \in PinsOf(s)
  BY <1>2, TabIs DEF PinsOf
<1> QED BY <1>1, <1>2

(* One tab of workspace w is replaced by one with its id and its pin. *)
LEMMA RenewedAlike ==
    ASSUME NEW s, SoundStore(s), NEW q, SoundStore(q), NEW w \in DOMAIN s.by,
           NEW z \in TabsIn(s.by[w]), NEW u, u.id = z.id, u.pinned = z.pinned,
           Becomes(s, q, w, (TabsIn(s.by[w]) \ {z}) \cup {u}, s.by[w].active), q.shown = s.shown
    PROVE  Alike(s, q)
<1>1. DOMAIN q.by = DOMAIN s.by /\ TabsIn(q.by[w]) = (TabsIn(s.by[w]) \ {z}) \cup {u}
      /\ q.by[w].active = s.by[w].active /\ \A v \in DOMAIN s.by \ {w} : q.by[v] = s.by[v]
  BY DEF Becomes
<1>2. IdsIn(q.by[w]) = IdsIn(s.by[w])
  BY <1>1, IdsAre
<1>3. \A v \in DOMAIN s.by : IdsIn(q.by[v]) = IdsIn(s.by[v]) /\ q.by[v].active = s.by[v].active
  BY <1>1, <1>2
<1>4. OpenOf(q) = OpenOf(s) /\ FocusOf(q) = FocusOf(s)
  BY <1>1, <1>3 DEF OpenOf, FocusOf
<1>5. \A i : i \in PinsOf(q) <=> i \in PinsOf(s)
  <2> SUFFICES ASSUME NEW i
               PROVE  (\E v \in DOMAIN q.by : \E x \in TabsIn(q.by[v]) : x.id = i /\ x.pinned)
                      <=> \E v \in DOMAIN s.by : \E x \in TabsIn(s.by[v]) : x.id = i /\ x.pinned
    BY PinsAre
  <2>1. ASSUME NEW v \in DOMAIN s.by
        PROVE  (\E x \in TabsIn(q.by[v]) : x.id = i /\ x.pinned)
               <=> \E x \in TabsIn(s.by[v]) : x.id = i /\ x.pinned
    <3>1. CASE v = w
      BY <1>1, <3>1
    <3>2. CASE v # w
      BY <1>1, <2>1, <3>2
    <3> QED BY <3>1, <3>2
  <2> QED BY <1>1, <2>1
<1> QED BY <1>4, <1>5 DEF Alike, PinsOf

LEMMA UpdatedAlike ==
    ASSUME NEW s, SoundStore(s), NEW w \in DOMAIN s.by, NEW k \in DOMAIN s.by[w].tabs,
           NEW u \in Tab, u.id = s.by[w].tabs[k].id, u.pinned = s.by[w].tabs[k].pinned
    PROVE  Alike(s, WithTabs(s, w, [s.by[w].tabs EXCEPT ![k] = u]))
<1> DEFINE q == WithTabs(s, w, [s.by[w].tabs EXCEPT ![k] = u])
<1>1. Becomes(s, q, w, (TabsIn(s.by[w]) \ {s.by[w].tabs[k]}) \cup {u}, s.by[w].active)
      /\ q.shown = s.shown
  BY UpdateBecomes
<1>2. Grows(s, q, 0)
  BY ChangeKeeps
<1>3. s.by[w].tabs[k] \in TabsIn(s.by[w])
  BY InRange DEF TabsIn
<1> HIDE DEF q
<1>4. SoundStore(q)
  BY <1>2 DEF Grows, Keeps
<1>5. Alike(s, q)
  BY <1>1, <1>3, <1>4, RenewedAlike
<1> QED BY <1>5 DEF q

LEMMA PathAlike ==
    ASSUME NEW s, SoundStore(s), NEW w \in DOMAIN s.by, NEW k \in DOMAIN s.by[w].tabs,
           NEW p \in Location
    PROVE  Alike(s, updateTab(s, w, k, p))
<1> DEFINE u == [s.by[w].tabs[k] EXCEPT !.path = p]
<1>1. s.by[w].tabs[k] \in Tab
  BY InRange, TabIs DEF TabsIn
<1>2. u \in Tab /\ u.id = s.by[w].tabs[k].id /\ u.pinned = s.by[w].tabs[k].pinned
  BY <1>1 DEF Tab
<1> HIDE DEF u
<1>3. Alike(s, WithTabs(s, w, [s.by[w].tabs EXCEPT ![k] = u]))
  BY <1>2, UpdatedAlike
<1> QED BY <1>3 DEF updateTab, u

LEMMA HistoryAlike ==
    ASSUME NEW s, SoundStore(s), NEW w \in DOMAIN s.by, NEW k \in DOMAIN s.by[w].tabs,
           NEW at \in Nat, NEW len \in Nat
    PROVE  Alike(s, updateTabHistory(s, w, k, at, len))
<1> DEFINE u == [s.by[w].tabs[k] EXCEPT !.at = at, !.len = len]
<1>1. s.by[w].tabs[k] \in Tab
  BY InRange, TabIs DEF TabsIn
<1>2. u \in Tab /\ u.id = s.by[w].tabs[k].id /\ u.pinned = s.by[w].tabs[k].pinned
  BY <1>1 DEF Tab
<1> HIDE DEF u
<1>3. Alike(s, WithTabs(s, w, [s.by[w].tabs EXCEPT ![k] = u]))
  BY <1>2, UpdatedAlike
<1> QED BY <1>3 DEF updateTabHistory, u

LEMMA RenderedAlike ==
    ASSUME Core, NEW s, Keeps(store, s, next), Rendered(s)
    PROVE  Alike(s, store') /\ next' = IF next \in LiveIds(s) THEN next + 1 ELSE next
<1> DEFINE live == LiveIds(s)
           r    == [i \in live |-> IF i \in DOMAIN router THEN router[i]
                                   ELSE createTabRouter(TabOf(s, i).path)]
<1>1. store' = Synced(s, r) /\ SoundStore(s) /\ router' = r
      /\ next' = IF next \in LiveIds(s) THEN next + 1 ELSE next
  BY DEF Rendered, Keeps
<1>2. \A i \in live : OKRouter(r[i])
  <2>1. Core' /\ LiveIds(store)' = live
    BY RenderedCore
  <2> QED BY <1>1, <2>1 DEF Core, Routed, OKRouter
<1> HIDE DEF r
<1>3. Alike(s, Synced(s, r))
  <2>1. CASE Visible(s) = {}
    BY <2>1 DEF Synced, Alike
  <2>2. CASE Visible(s) # {}
    <3> DEFINE w == s.shown
               a == s.by[w].active
               k == PositionOf(s.by[w], a)
    <3>1. w \in DOMAIN s.by /\ SoundGroup(s.by[w]) /\ a \in IdsIn(s.by[w]) /\ a \in live
      BY <1>1, <2>2, VisibleIn
    <3>2. k \in DOMAIN s.by[w].tabs
      BY <3>1, PositionIn
    <3>3. LocationOf(r[a]) \in Location
      BY <1>2, <3>1, WhereItIs
    <3>4. Synced(s, r) = updateTab(s, w, k, LocationOf(r[a]))
      BY <2>2 DEF Synced
    <3> QED BY <1>1, <3>1, <3>2, <3>3, <3>4, PathAlike
  <2> QED BY <2>1, <2>2
<1> QED BY <1>1, <1>3

LEMMA NavigatedAlike ==
    ASSUME Core, NEW i \in DOMAIN router, NEW r, OKRouter(r), NEW f \in Refs, Navigated(i, r, f)
    PROVE  Alike(store, store') /\ next' = next
<1>1. next' = next
  BY DEF Navigated
<1>2. CASE i \in Visible(store)
  <2> DEFINE w == store.shown
             k == PositionOf(store.by[w], i)
             s == updateTab(store, w, k, LocationOf(r))
  <2>1. store' = updateTabHistory(s, w, k, f.at, f.len)
    BY <1>2 DEF Navigated
  <2>2. w \in DOMAIN store.by /\ SoundGroup(store.by[w]) /\ i \in IdsIn(store.by[w]) /\ SoundStore(store)
    BY <1>2, VisibleIn DEF Core
  <2>3. k \in DOMAIN store.by[w].tabs
    BY <2>2, PositionIn
  <2>4. LocationOf(r) \in Location /\ f.at \in Nat /\ f.len \in Nat
    BY WhereItIs DEF Refs
  <2> HIDE DEF k
  <2>5. SoundStore(s) /\ w \in DOMAIN s.by /\ k \in DOMAIN s.by[w].tabs
    BY <2>2, <2>3, <2>4, UpdateIn
  <2>6. Alike(store, s)
    BY <2>2, <2>3, <2>4, PathAlike
  <2> HIDE DEF s
  <2>7. Alike(s, store')
    BY <2>1, <2>4, <2>5, HistoryAlike
  <2> QED BY <1>1, <2>6, <2>7 DEF Alike
<1>3. CASE i \notin Visible(store)
  BY <1>1, <1>3 DEF Navigated, Alike
<1> QED BY <1>2, <1>3

LEMMA AlikeAre ==
    ASSUME NEW s, NEW q, Alike(s, q)
    PROVE  /\ DOMAIN q.by = DOMAIN s.by /\ q.shown = s.shown /\ PinsOf(q) = PinsOf(s)
           /\ \A w \in DOMAIN s.by : IdsIn(q.by[w]) = IdsIn(s.by[w]) /\ q.by[w].active = s.by[w].active
           /\ LiveIds(q) = LiveIds(s)
<1>1. OpenOf(q) = OpenOf(s) /\ FocusOf(q) = FocusOf(s) /\ q.shown = s.shown /\ PinsOf(q) = PinsOf(s)
  BY DEF Alike
<1>2. DOMAIN OpenOf(q) = DOMAIN q.by /\ DOMAIN OpenOf(s) = DOMAIN s.by
  BY DEF OpenOf
<1>3. \A w \in DOMAIN s.by : OpenOf(q)[w] = IdsIn(q.by[w]) /\ OpenOf(s)[w] = IdsIn(s.by[w])
                             /\ FocusOf(q)[w] = q.by[w].active /\ FocusOf(s)[w] = s.by[w].active
  BY <1>1, <1>2 DEF OpenOf, FocusOf
<1>4. \A w \in DOMAIN s.by : IdsIn(q.by[w]) = IdsIn(s.by[w]) /\ q.by[w].active = s.by[w].active
  BY <1>1, <1>3
<1> QED BY <1>1, <1>2, <1>4 DEF LiveIds

LEMMA Unmoved ==
    ASSUME Alike(store, store'), next' = next
    PROVE  UNCHANGED Promise!tabVars
BY DEF Promise!tabVars, Alike, OpenOf, FocusOf, PinsOf

LEMMA Opens ==
    ASSUME Core, NEW s, Keeps(store, s, next), Rendered(s), NEW w \in Workspaces, NEW p, NEW a,
           Becomes(store, s, w, (IF w \in DOMAIN store.by THEN TabsIn(store.by[w]) ELSE {})
                                \cup {makeTab(p, next)}, a),
           s.shown = w,
           \/ a = next
           \/ w = store.shown /\ w \in DOMAIN store.by /\ a = store.by[w].active
    PROVE  Promise!Open(w)
<1>1. Alike(s, store') /\ next \in Nat /\ SoundStore(s) /\ SoundStore(store)
      /\ next' = IF next \in LiveIds(s) THEN next + 1 ELSE next
  BY RenderedAlike DEF Core, Numbered, Keeps
<1>2. /\ DOMAIN s.by = DOMAIN store.by \cup {w} /\ s.by[w].active = a
      /\ TabsIn(s.by[w]) = (IF w \in DOMAIN store.by THEN TabsIn(store.by[w]) ELSE {})
                           \cup {makeTab(p, next)}
      /\ \A v \in DOMAIN store.by \ {w} : s.by[v] = store.by[v]
  BY DEF Becomes
<1>3. IdsIn(s.by[w]) = (IF w \in DOMAIN store.by THEN IdsIn(store.by[w]) ELSE {}) \cup {next}
  <2>1. makeTab(p, next).id = next
    BY DEF makeTab
  <2>2. IdsIn(s.by[w]) = {x.id : x \in TabsIn(s.by[w])}
    BY IdsAre
  <2>3. IdsIn(store.by[w]) = {x.id : x \in TabsIn(store.by[w])}
    BY IdsAre
  <2>4. CASE w \in DOMAIN store.by
    BY <1>2, <2>1, <2>2, <2>3, <2>4
  <2>5. CASE w \notin DOMAIN store.by
    BY <1>2, <2>1, <2>2, <2>5
  <2> QED BY <2>4, <2>5
<1>4. next' = next + 1
  BY <1>1, <1>2, <1>3, LiveIn
<1>5. PinsOf(s) = PinsOf(store)
  <2> SUFFICES ASSUME NEW i
               PROVE  (\E v \in DOMAIN s.by : \E x \in TabsIn(s.by[v]) : x.id = i /\ x.pinned)
                      <=> \E v \in DOMAIN store.by : \E x \in TabsIn(store.by[v]) : x.id = i /\ x.pinned
    <3>1. \A i : i \in PinsOf(s) <=> i \in PinsOf(store)
      BY <1>1, PinsAre
    <3> QED BY <3>1 DEF PinsOf
  <2>1. ~makeTab(p, next).pinned
    BY DEF makeTab
  <2> QED BY <1>2, <2>1
<1>6. /\ DOMAIN store'.by = DOMAIN store.by \cup {w} /\ store'.shown = w
      /\ PinsOf(store') = PinsOf(store) /\ store'.by[w].active = a
      /\ IdsIn(store'.by[w]) = (IF w \in DOMAIN store.by THEN IdsIn(store.by[w]) ELSE {}) \cup {next}
      /\ \A v \in DOMAIN store.by \ {w} :
            IdsIn(store'.by[v]) = IdsIn(store.by[v]) /\ store'.by[v].active = store.by[v].active
  BY <1>1, <1>2, <1>3, <1>5, AlikeAre
<1>7. OpenOf(store') = Promise!Set(OpenOf(store), w, Promise!TabsOf(w) \cup {(next - 1) + 1})
  <2>1. Promise!TabsOf(w) = IF w \in DOMAIN store.by THEN IdsIn(store.by[w]) ELSE {}
    BY DEF Promise!TabsOf
  <2>2. (next - 1) + 1 = next
    BY <1>1
  <2> QED BY <1>6, <2>1, <2>2 DEF Promise!Set, OpenOf
<1>8. \/ FocusOf(store') = Promise!Set(FocusOf(store), w, (next - 1) + 1)
      \/ w = store.shown /\ FocusOf(store') = FocusOf(store)
  <2>1. (next - 1) + 1 = next
    BY <1>1
  <2>2. CASE a = next
    BY <1>6, <2>1, <2>2 DEF Promise!Set, FocusOf
  <2>3. CASE w = store.shown /\ w \in DOMAIN store.by /\ a = store.by[w].active
    BY <1>6, <2>3 DEF FocusOf
  <2> QED BY <2>2, <2>3
<1>9. next' - 1 = (next - 1) + 1
  BY <1>1, <1>4
<1> QED BY <1>6, <1>7, <1>8, <1>9 DEF Promise!Open, OpenOf, FocusOf, PinsOf

LEMMA Seen ==
    ASSUME Core, NEW s, SoundStore(s), NEW w \in DOMAIN store.by, NEW T, NEW a, Becomes(store, s, w, T, a)
    PROVE  /\ DOMAIN s.by = DOMAIN store.by /\ s.by[w].active = a
           /\ IdsIn(s.by[w]) = {x.id : x \in T}
           /\ \A v \in DOMAIN store.by \ {w} : s.by[v] = store.by[v]
           /\ \A i : i \in PinsOf(s) <=> \/ \E x \in T : x.id = i /\ x.pinned
                                         \/ i \in PinsOf(store) /\ i \notin IdsIn(store.by[w])
<1>1. /\ DOMAIN s.by = DOMAIN store.by /\ s.by[w].active = a /\ TabsIn(s.by[w]) = T
      /\ \A v \in DOMAIN store.by \ {w} : s.by[v] = store.by[v]
  BY DEF Becomes
<1>2. IdsIn(s.by[w]) = {x.id : x \in T}
  BY <1>1, IdsAre
<1>3. SoundStore(store)
  BY DEF Core
<1>4. ASSUME NEW i
      PROVE  i \in PinsOf(s) <=> \/ \E x \in T : x.id = i /\ x.pinned
                                 \/ i \in PinsOf(store) /\ i \notin IdsIn(store.by[w])
  <2>1. ASSUME i \in PinsOf(store), i \notin IdsIn(store.by[w])
        PROVE  \E v \in DOMAIN s.by : \E x \in TabsIn(s.by[v]) : x.id = i /\ x.pinned
    <3>1. PICK v \in DOMAIN store.by : \E x \in TabsIn(store.by[v]) : x.id = i /\ x.pinned
      BY <1>3, <2>1, PinsAre
    <3>2. v # w
      BY <1>3, <2>1, <3>1, TabIs
    <3> QED BY <1>1, <3>1, <3>2
  <2>2. ASSUME NEW v \in DOMAIN s.by, NEW x \in TabsIn(s.by[v]), x.id = i, x.pinned, v # w
        PROVE  i \in PinsOf(store) /\ i \notin IdsIn(store.by[w])
    <3>1. v \in DOMAIN store.by /\ x \in TabsIn(store.by[v])
      BY <1>1, <2>2
    <3>2. i \in PinsOf(store)
      BY <1>3, <2>2, <3>1, PinsAre
    <3>3. i \in IdsIn(store.by[v])
      BY <1>3, <2>2, <3>1, TabIs
    <3> QED BY <1>3, <2>2, <3>1, <3>2, <3>3 DEF SoundStore
  <2>3. i \in PinsOf(s) <=> \E v \in DOMAIN s.by : \E x \in TabsIn(s.by[v]) : x.id = i /\ x.pinned
    BY PinsAre
  <2>4. ASSUME NEW x \in T, x.id = i, x.pinned
        PROVE  \E v \in DOMAIN s.by : \E y \in TabsIn(s.by[v]) : y.id = i /\ y.pinned
    BY <1>1, <2>4
  <2>5. ASSUME i \in PinsOf(s)
        PROVE  \/ \E x \in T : x.id = i /\ x.pinned
               \/ i \in PinsOf(store) /\ i \notin IdsIn(store.by[w])
    <3>1. PICK v \in DOMAIN s.by : \E x \in TabsIn(s.by[v]) : x.id = i /\ x.pinned
      BY <2>3, <2>5
    <3>2. CASE v = w
      BY <1>1, <3>1, <3>2
    <3>3. CASE v # w
      BY <2>2, <3>1, <3>3
    <3> QED BY <3>2, <3>3
  <2> QED BY <2>1, <2>3, <2>4, <2>5
<1> QED BY <1>1, <1>2, <1>4

(* The same tabs: no id is used. *)
LEMMA SameIds ==
    ASSUME Core, NEW s, DOMAIN s.by = DOMAIN store.by,
           \A v \in DOMAIN s.by : IdsIn(s.by[v]) \subseteq IdsIn(store.by[v])
    PROVE  next \notin LiveIds(s)
BY DEF LiveIds, Core, Numbered

LEMMA Focuses ==
    ASSUME Core, NEW s, Keeps(store, s, next), Rendered(s), NEW w \in DOMAIN store.by,
           NEW x \in TabsIn(store.by[w]), Becomes(store, s, w, TabsIn(store.by[w]), x.id), s.shown = w
    PROVE  Promise!Focus(w, x.id)
<1>1. Alike(s, store') /\ SoundStore(s) /\ SoundStore(store)
      /\ next' = IF next \in LiveIds(s) THEN next + 1 ELSE next
  BY RenderedAlike DEF Core, Keeps
<1>2. /\ DOMAIN s.by = DOMAIN store.by /\ s.by[w].active = x.id
      /\ IdsIn(s.by[w]) = {y.id : y \in TabsIn(store.by[w])}
      /\ \A v \in DOMAIN store.by \ {w} : s.by[v] = store.by[v]
      /\ \A i : i \in PinsOf(s) <=> \/ \E y \in TabsIn(store.by[w]) : y.id = i /\ y.pinned
                                    \/ i \in PinsOf(store) /\ i \notin IdsIn(store.by[w])
  <2>1. PICK T, a : T = TabsIn(store.by[w]) /\ a = x.id
    OBVIOUS
  <2>2. Becomes(store, s, w, T, a)
    BY <2>1
  <2>3. /\ DOMAIN s.by = DOMAIN store.by /\ s.by[w].active = a
        /\ IdsIn(s.by[w]) = {y.id : y \in T}
        /\ \A v \in DOMAIN store.by \ {w} : s.by[v] = store.by[v]
        /\ \A i : i \in PinsOf(s) <=> \/ \E y \in T : y.id = i /\ y.pinned
                                      \/ i \in PinsOf(store) /\ i \notin IdsIn(store.by[w])
    BY <1>1, <2>2, Seen
  <2> QED BY <2>1, <2>3
<1>3. IdsIn(s.by[w]) = IdsIn(store.by[w])
  BY <1>2, IdsAre
<1>4. next' = next
  BY <1>1, <1>2, <1>3, SameIds
<1>5. \A i : i \in PinsOf(s) <=> i \in PinsOf(store)
  <2> SUFFICES ASSUME NEW i PROVE i \in PinsOf(s) <=> i \in PinsOf(store)
    OBVIOUS
  <2>1. ASSUME i \in PinsOf(store), i \in IdsIn(store.by[w])
        PROVE  \E y \in TabsIn(store.by[w]) : y.id = i /\ y.pinned
    <3>1. PICK v \in DOMAIN store.by : \E y \in TabsIn(store.by[v]) : y.id = i /\ y.pinned
      BY <1>1, <2>1, PinsAre
    <3>2. v = w
      BY <1>1, <2>1, <3>1, TabIs DEF SoundStore
    <3> QED BY <3>1, <3>2
  <2>2. ASSUME NEW y \in TabsIn(store.by[w]), y.id = i, y.pinned
        PROVE  i \in PinsOf(store)
    BY <1>1, <2>2, PinsAre
  <2> QED BY <1>2, <2>1, <2>2
<1>6. x.id \in IdsIn(store.by[w])
  BY <1>1, TabIs
<1>7. /\ DOMAIN store'.by = DOMAIN store.by /\ store'.shown = w
      /\ PinsOf(store') = PinsOf(store) /\ store'.by[w].active = x.id
      /\ \A v \in DOMAIN store.by : IdsIn(store'.by[v]) = IdsIn(store.by[v])
      /\ \A v \in DOMAIN store.by \ {w} : store'.by[v].active = store.by[v].active
  <2>1. PinsOf(s) = PinsOf(store)
    BY <1>5 DEF PinsOf
  <2> QED BY <1>1, <1>2, <1>3, <2>1, AlikeAre
<1>8. OpenOf(store') = OpenOf(store)
  BY <1>7 DEF OpenOf
<1>9. FocusOf(store') = [FocusOf(store) EXCEPT ![w] = x.id]
  BY <1>7 DEF FocusOf
<1>10. x.id \in Promise!TabsOf(w)
  BY <1>6 DEF Promise!TabsOf
<1> QED BY <1>4, <1>7, <1>8, <1>9, <1>10 DEF Promise!Focus, OpenOf, FocusOf, PinsOf

LEMMA Closes ==
    ASSUME Core, NEW s, Keeps(store, s, next), Rendered(s), NEW w \in DOMAIN store.by,
           NEW x \in TabsIn(store.by[w]), ~x.pinned, NEW a \in IdsIn(store.by[w]) \ {x.id},
           Becomes(store, s, w, TabsIn(store.by[w]) \ {x},
                   IF store.by[w].active = x.id THEN a ELSE store.by[w].active),
           s.shown = store.shown
    PROVE  Promise!Close(w, x.id)
<1> DEFINE g == store.by[w]
           T == TabsIn(g) \ {x}
           b == IF g.active = x.id THEN a ELSE g.active
<1>1. Alike(s, store') /\ SoundStore(s) /\ SoundStore(store)
      /\ next' = IF next \in LiveIds(s) THEN next + 1 ELSE next
  BY RenderedAlike DEF Core, Keeps
<1>2. /\ DOMAIN s.by = DOMAIN store.by /\ s.by[w].active = b
      /\ IdsIn(s.by[w]) = {y.id : y \in T}
      /\ \A v \in DOMAIN store.by \ {w} : s.by[v] = store.by[v]
      /\ \A i : i \in PinsOf(s) <=> \/ \E y \in T : y.id = i /\ y.pinned
                                    \/ i \in PinsOf(store) /\ i \notin IdsIn(store.by[w])
  <2> HIDE DEF T, b
  <2>1. Becomes(store, s, w, T, b)
    BY DEF T, b
  <2> QED BY <1>1, <2>1, Seen
<1>3. \A y \in TabsIn(g) : y.id = x.id => y = x
  BY <1>1, TabIs
<1>4. IdsIn(s.by[w]) = IdsIn(g) \ {x.id}
  <2>1. IdsIn(g) = {y.id : y \in TabsIn(g)}
    BY IdsAre
  <2> QED BY <1>2, <1>3, <2>1
<1>5. next' = next
  <2>1. \A v \in DOMAIN s.by : IdsIn(s.by[v]) \subseteq IdsIn(store.by[v])
    BY <1>2, <1>4
  <2> QED BY <1>1, <1>2, <2>1, SameIds
<1>6. PinsOf(s) = PinsOf(store)
  <2> SUFFICES ASSUME NEW i PROVE i \in PinsOf(s) <=> i \in PinsOf(store)
    <3>1. \A i : i \in PinsOf(s) <=> i \in PinsOf(store)
      OBVIOUS
    <3> QED BY <3>1 DEF PinsOf
  <2>1. ASSUME i \in PinsOf(store), i \in IdsIn(g)
        PROVE  \E y \in T : y.id = i /\ y.pinned
    <3>1. PICK v \in DOMAIN store.by : \E y \in TabsIn(store.by[v]) : y.id = i /\ y.pinned
      BY <1>1, <2>1, PinsAre
    <3>2. v = w
      BY <1>1, <2>1, <3>1, TabIs DEF SoundStore
    <3> QED BY <3>1, <3>2
  <2>2. ASSUME NEW y \in T, y.id = i, y.pinned
        PROVE  i \in PinsOf(store)
    BY <1>1, <2>2, PinsAre
  <2> QED BY <1>2, <2>1, <2>2
<1>7. x.id \in IdsIn(g) /\ x.id \notin PinsOf(store)
  <2>1. x.id \in IdsIn(g) /\ TabOf(store, x.id) = x
    BY <1>1, TabIs
  <2> QED BY <2>1 DEF PinsOf
<1>8. /\ DOMAIN store'.by = DOMAIN store.by /\ store'.shown = store.shown
      /\ PinsOf(store') = PinsOf(store) /\ store'.by[w].active = b
      /\ IdsIn(store'.by[w]) = IdsIn(g) \ {x.id}
      /\ \A v \in DOMAIN store.by \ {w} :
            IdsIn(store'.by[v]) = IdsIn(store.by[v]) /\ store'.by[v].active = store.by[v].active
  <2> HIDE DEF b, T
  <2> QED BY <1>1, <1>2, <1>4, <1>6, AlikeAre
<1>9. OpenOf(store') = [OpenOf(store) EXCEPT ![w] = @ \ {x.id}]
  BY <1>8 DEF OpenOf
<1>10. FocusOf(store') = [FocusOf(store) EXCEPT ![w] = IF @ = x.id THEN a ELSE @]
  BY <1>8 DEF FocusOf
<1>11. Promise!TabsOf(w) = IdsIn(g)
  BY DEF Promise!TabsOf
<1>12. x.id \in Promise!TabsOf(w) /\ Promise!TabsOf(w) # {x.id} /\ a \in Promise!TabsOf(w) \ {x.id}
  BY <1>7, <1>11
<1> HIDE DEF g, b, T
<1> QED BY <1>5, <1>7, <1>8, <1>9, <1>10, <1>12 DEF Promise!Close, OpenOf, FocusOf, PinsOf

LEMMA Pins ==
    ASSUME Core, NEW s, Keeps(store, s, next), Rendered(s), NEW w \in DOMAIN store.by,
           NEW x \in TabsIn(store.by[w]), NEW y, y.id = x.id, y.pinned = ~x.pinned,
           Becomes(store, s, w, (TabsIn(store.by[w]) \ {x}) \cup {y}, store.by[w].active),
           s.shown = store.shown
    PROVE  Promise!Pin(x.id)
<1> DEFINE g == store.by[w]
           T == (TabsIn(g) \ {x}) \cup {y}
<1>1. Alike(s, store') /\ SoundStore(s) /\ SoundStore(store)
      /\ next' = IF next \in LiveIds(s) THEN next + 1 ELSE next
  BY RenderedAlike DEF Core, Keeps
<1>2. /\ DOMAIN s.by = DOMAIN store.by /\ s.by[w].active = g.active
      /\ IdsIn(s.by[w]) = {z.id : z \in T}
      /\ \A v \in DOMAIN store.by \ {w} : s.by[v] = store.by[v]
      /\ \A i : i \in PinsOf(s) <=> \/ \E z \in T : z.id = i /\ z.pinned
                                    \/ i \in PinsOf(store) /\ i \notin IdsIn(store.by[w])
  <2> HIDE DEF T
  <2>1. PICK a : a = g.active
    OBVIOUS
  <2>2. Becomes(store, s, w, T, a)
    BY <2>1 DEF T
  <2>3. /\ DOMAIN s.by = DOMAIN store.by /\ s.by[w].active = a
        /\ IdsIn(s.by[w]) = {z.id : z \in T}
        /\ \A v \in DOMAIN store.by \ {w} : s.by[v] = store.by[v]
        /\ \A i : i \in PinsOf(s) <=> \/ \E z \in T : z.id = i /\ z.pinned
                                      \/ i \in PinsOf(store) /\ i \notin IdsIn(store.by[w])
    BY <1>1, <2>2, Seen
  <2> QED BY <2>1, <2>3
<1>3. \A z \in TabsIn(g) : z.id = x.id => z = x
  BY <1>1, TabIs
<1>4. IdsIn(s.by[w]) = IdsIn(g)
  <2>1. IdsIn(g) = {z.id : z \in TabsIn(g)}
    BY IdsAre
  <2> QED BY <1>2, <2>1
<1>5. next' = next
  <2>1. \A v \in DOMAIN s.by : IdsIn(s.by[v]) \subseteq IdsIn(store.by[v])
    BY <1>2, <1>4
  <2> QED BY <1>1, <1>2, <2>1, SameIds
<1>6. x.id \in LiveIds(store) /\ (x.id \in PinsOf(store) <=> x.pinned) /\ x.id \in IdsIn(g)
  BY <1>1, TabIs DEF PinsOf
<1>7. ASSUME NEW i
      PROVE  i \in PinsOf(s) <=> IF i = x.id THEN i \notin PinsOf(store) ELSE i \in PinsOf(store)
  <2>1. ASSUME i \in PinsOf(store), i \in IdsIn(g), i # x.id
        PROVE  \E z \in T : z.id = i /\ z.pinned
    <3>1. PICK v \in DOMAIN store.by : \E z \in TabsIn(store.by[v]) : z.id = i /\ z.pinned
      BY <1>1, <2>1, PinsAre
    <3>2. v = w
      BY <1>1, <2>1, <3>1, TabIs DEF SoundStore
    <3> QED BY <2>1, <3>1, <3>2
  <2>2. ASSUME NEW z \in T, z.id = i, z.pinned, i # x.id
        PROVE  i \in PinsOf(store)
    BY <1>1, <2>2, PinsAre
  <2>3. CASE i = x.id
    <3>1. (\E z \in T : z.id = i /\ z.pinned) <=> ~x.pinned
      BY <1>3, <2>3
    <3> QED BY <1>2, <1>6, <2>3, <3>1
  <2>4. CASE i # x.id
    BY <1>2, <2>1, <2>2, <2>4
  <2> QED BY <2>3, <2>4
<1>8. PinsOf(s) = IF x.id \in PinsOf(store) THEN PinsOf(store) \ {x.id} ELSE PinsOf(store) \cup {x.id}
  <2>1. ASSUME NEW i
        PROVE  i \in PinsOf(s) <=>
                 i \in IF x.id \in PinsOf(store) THEN PinsOf(store) \ {x.id} ELSE PinsOf(store) \cup {x.id}
    BY <1>7
  <2>2. PICK P : P = PinsOf(store)
    OBVIOUS
  <2> QED BY <2>1, <2>2 DEF PinsOf
<1>9. /\ DOMAIN store'.by = DOMAIN store.by /\ store'.shown = store.shown
      /\ PinsOf(store') = PinsOf(s)
      /\ \A v \in DOMAIN store.by :
            IdsIn(store'.by[v]) = IdsIn(store.by[v]) /\ store'.by[v].active = store.by[v].active
  <2> HIDE DEF T
  <2> QED BY <1>1, <1>2, <1>4, AlikeAre
<1>10. OpenOf(store') = OpenOf(store) /\ FocusOf(store') = FocusOf(store)
  BY <1>9 DEF OpenOf, FocusOf
<1>11. x.id \in Promise!Tabs(OpenOf(store))
  BY <1>6 DEF Promise!Tabs, OpenOf
<1> HIDE DEF g, T
<1> QED BY <1>5, <1>8, <1>9, <1>10, <1>11 DEF Promise!Pin, OpenOf, FocusOf, PinsOf

(* Some workspaces go with all their tabs, the rest are as they were. *)
LEMMA Kept ==
    ASSUME Core, NEW L, NEW s, SoundStore(s), DOMAIN s.by = DOMAIN store.by \cap L,
           \A w \in DOMAIN s.by : s.by[w] = store.by[w]
    PROVE  /\ OpenOf(s) = Promise!Only(OpenOf(store), L) /\ FocusOf(s) = Promise!Only(FocusOf(store), L)
           /\ PinsOf(s) = PinsOf(store) \cap LiveIds(s)
           /\ next \notin LiveIds(s)
<1>1. OpenOf(s) = Promise!Only(OpenOf(store), L) /\ FocusOf(s) = Promise!Only(FocusOf(store), L)
  BY DEF Promise!Only, OpenOf, FocusOf
<1>2. next \notin LiveIds(s)
  BY DEF LiveIds, Core, Numbered
<1>3. SoundStore(store)
  BY DEF Core
<1>4. ASSUME NEW i \in LiveIds(s) PROVE i \in PinsOf(s) <=> i \in PinsOf(store)
  <2>1. PICK w \in DOMAIN s.by : i \in IdsIn(s.by[w])
    BY <1>4 DEF LiveIds
  <2>2. PICK x \in TabsIn(s.by[w]) : x.id = i
    BY <2>1, IdsAre
  <2>3. TabOf(s, i) = x /\ TabOf(store, i) = x /\ i \in LiveIds(store)
    BY <1>3, <2>1, <2>2, TabIs
  <2> QED BY <1>4, <2>3 DEF PinsOf
<1>5. PinsOf(s) \subseteq LiveIds(s)
  BY DEF PinsOf
<1> QED BY <1>1, <1>2, <1>4, <1>5

LEMMA TabsAre == ASSUME NEW s PROVE Promise!Tabs(OpenOf(s)) = LiveIds(s)
<1>1. DOMAIN OpenOf(s) = DOMAIN s.by /\ \A w \in DOMAIN s.by : OpenOf(s)[w] = IdsIn(s.by[w])
  BY DEF OpenOf
<1>2. PICK f : f = OpenOf(s)
  OBVIOUS
<1>3. Promise!Tabs(f) = UNION {f[w] : w \in DOMAIN f}
  BY DEF Promise!Tabs
<1> QED BY <1>1, <1>2, <1>3 DEF LiveIds

(* What validateWorkspaceSlugs leaves. *)
Left(L, v, s) ==
    /\ Keeps(store, s, next) /\ SoundStore(s) /\ DOMAIN s.by = DOMAIN store.by \cap L
    /\ \A w \in DOMAIN s.by : s.by[w] = store.by[w]
    /\ s.shown = (IF store.shown \in L \cup {None} THEN store.shown ELSE v)
    /\ None \notin L /\ None \notin DOMAIN store.by
    /\ v \in IF DOMAIN s.by = {} THEN {None} ELSE DOMAIN s.by

LEMMA Keeping ==
    ASSUME Core, NEW L \in SUBSET Workspaces, NEW v \in FirstOf(DOMAIN store.by \cap L)
    PROVE  Left(L, v, validateWorkspaceSlugs(store, L, v))
<1> DEFINE s == validateWorkspaceSlugs(store, L, v)
<1>1. v \in (DOMAIN store.by \cap L) \cup {None}
  BY DEF FirstOf
<1>2. Keeps(store, s, next)
  BY <1>1, ValidateKeeps DEF Core
<1>3. None \notin L /\ None \notin DOMAIN store.by
  BY NoneAssumption DEF Core, SoundStore
<1>4. /\ DOMAIN s.by = DOMAIN store.by \cap L /\ \A w \in DOMAIN s.by : s.by[w] = store.by[w]
      /\ s.shown = (IF store.shown \in L \cup {None} THEN store.shown ELSE v)
  BY ValidateBecomes
<1> HIDE DEF s
<1>5. v \in IF DOMAIN s.by = {} THEN {None} ELSE DOMAIN s.by
  BY <1>4 DEF FirstOf
<1>6. Left(L, v, s)
  BY <1>2, <1>3, <1>4, <1>5 DEF Left, Keeps
<1> QED BY <1>6 DEF s

LEMMA KeepsList ==
    ASSUME Core, NEW L \in SUBSET Workspaces, NEW v \in FirstOf(DOMAIN store.by \cap L), NEW s,
           s = validateWorkspaceSlugs(store, L, v), Rendered(s)
    PROVE  Promise!Keep(L)
<1>1. /\ Keeps(store, s, next) /\ SoundStore(s) /\ DOMAIN s.by = DOMAIN store.by \cap L
      /\ \A w \in DOMAIN s.by : s.by[w] = store.by[w]
      /\ s.shown = (IF store.shown \in L \cup {None} THEN store.shown ELSE v)
      /\ None \notin L
      /\ v \in IF DOMAIN s.by = {} THEN {None} ELSE DOMAIN s.by
  <2>1. Left(L, v, s)
    BY Keeping
  <2> QED BY <2>1 DEF Left
<1>2. /\ OpenOf(s) = Promise!Only(OpenOf(store), L) /\ FocusOf(s) = Promise!Only(FocusOf(store), L)
      /\ PinsOf(s) = PinsOf(store) \cap LiveIds(s)
      /\ next \notin LiveIds(s)
  BY <1>1, Kept
<1>3. Alike(s, store') /\ next' = next
  BY <1>1, <1>2, RenderedAlike
<1>4. /\ OpenOf(store') = OpenOf(s) /\ FocusOf(store') = FocusOf(s) /\ PinsOf(store') = PinsOf(s)
      /\ store'.shown = s.shown /\ DOMAIN OpenOf(s) = DOMAIN s.by
  BY <1>3 DEF Alike, OpenOf
<1>5. PinsOf(store') = PinsOf(store) \cap Promise!Tabs(OpenOf(store'))
  BY <1>2, <1>4, TabsAre
<1>6. IF store.shown \in L THEN store'.shown = store.shown
      ELSE store'.shown \in (IF DOMAIN OpenOf(store') = {} THEN {None} ELSE DOMAIN OpenOf(store'))
                            \cup ({store.shown} \cap {None})
  BY <1>1, <1>4
<1> QED BY <1>2, <1>3, <1>4, <1>5, <1>6 DEF Promise!Keep, OpenOf, FocusOf, PinsOf

LEMMA Enters ==
    ASSUME Core, NEW L \in SUBSET Workspaces, NEW v \in FirstOf(DOMAIN store.by \cap L), NEW s,
           s = validateWorkspaceSlugs(store, L, v), s.shown = None, NEW w \in L,
           Rendered(switchWorkspace(s, w, next))
    PROVE  Promise!Enter(L, w)
<1> DEFINE q == switchWorkspace(s, w, next)
           p == defaultPathFor(w)
<1>1. /\ Keeps(store, s, next) /\ SoundStore(s) /\ DOMAIN s.by = DOMAIN store.by \cap L
      /\ \A u \in DOMAIN s.by : s.by[u] = store.by[u]
      /\ s.shown = (IF store.shown \in L \cup {None} THEN store.shown ELSE v)
      /\ None \notin L /\ None \notin DOMAIN store.by
      /\ v \in IF DOMAIN s.by = {} THEN {None} ELSE DOMAIN s.by
  <2>1. Left(L, v, s)
    BY Keeping
  <2> QED BY <2>1 DEF Left
<1>2. /\ OpenOf(s) = Promise!Only(OpenOf(store), L) /\ FocusOf(s) = Promise!Only(FocusOf(store), L)
      /\ PinsOf(s) = PinsOf(store) \cap LiveIds(s)
      /\ next \notin LiveIds(s)
  BY <1>1, Kept
<1>3. next \in Nat /\ w \in Workspaces /\ Rendered(q) /\ next - 1 + 1 = next
  BY DEF Core, Numbered
<1>4. Grows(s, q, next)
  BY <1>1, <1>2, <1>3, SwitchKeeps
<1>5. /\ q.shown = w
      /\ w \in DOMAIN s.by => q.by = s.by
      /\ w \notin DOMAIN s.by => Becomes(s, q, w, {makeTab(p, next)}, next)
  BY <1>1, <1>3, SwitchBecomes
<1>6. store.shown \notin L /\ (store.shown = None \/ DOMAIN OpenOf(store) \cap L = {})
  BY <1>1 DEF OpenOf
<1> HIDE DEF q
<1>7. Keeps(store, q, next) /\ SoundStore(q)
  BY <1>1, <1>4 DEF Grows, Keeps
<1>8. Alike(q, store') /\ next' = IF next \in LiveIds(q) THEN next + 1 ELSE next
  BY <1>3, <1>7, RenderedAlike
<1>9. /\ OpenOf(store') = OpenOf(q) /\ FocusOf(store') = FocusOf(q) /\ PinsOf(store') = PinsOf(q)
      /\ store'.shown = w
  BY <1>5, <1>8 DEF Alike
<1>10. Promise!Tabs(OpenOf(store')) = LiveIds(q)
  BY <1>9, TabsAre
<1>11. CASE w \in DOMAIN store.by
  <2>1. q.by = s.by /\ LiveIds(q) = LiveIds(s)
    BY <1>1, <1>5, <1>11 DEF LiveIds
  <2>2. OpenOf(q) = OpenOf(s) /\ FocusOf(q) = FocusOf(s) /\ PinsOf(q) = PinsOf(s)
    BY <2>1 DEF OpenOf, FocusOf, PinsOf, TabOf, OwnerOf
  <2>3. next' = next /\ w \in DOMAIN OpenOf(store)
    BY <1>2, <1>8, <1>11, <2>1 DEF OpenOf
  <2>4. /\ OpenOf(store') = Promise!Only(OpenOf(store), L)
        /\ FocusOf(store') = Promise!Only(FocusOf(store), L)
        /\ PinsOf(store') = PinsOf(store) \cap Promise!Tabs(OpenOf(store'))
    BY <1>2, <1>9, <1>10, <2>1, <2>2
  <2> QED BY <1>6, <1>9, <2>3, <2>4 DEF Promise!Enter, OpenOf, FocusOf, PinsOf
<1>12. CASE w \notin DOMAIN store.by
  <2>1. /\ DOMAIN q.by = DOMAIN s.by \cup {w} /\ TabsIn(q.by[w]) = {makeTab(p, next)}
        /\ q.by[w].active = next /\ \A u \in DOMAIN s.by \ {w} : q.by[u] = s.by[u]
        /\ w \notin DOMAIN s.by
    BY <1>1, <1>5, <1>12 DEF Becomes
  <2>2. IdsIn(q.by[w]) = {next}
    <3>1. makeTab(p, next).id = next
      BY DEF makeTab
    <3>2. IdsIn(q.by[w]) = {x.id : x \in TabsIn(q.by[w])}
      BY IdsAre
    <3> QED BY <2>1, <3>1, <3>2
  <2>3. LiveIds(q) = LiveIds(s) \cup {next}
    <3>1. \A i : (\E u \in DOMAIN q.by : i \in IdsIn(q.by[u]))
                 <=> (\E u \in DOMAIN s.by : i \in IdsIn(s.by[u])) \/ i = next
      BY <2>1, <2>2
    <3> QED BY <3>1 DEF LiveIds
  <2>4. PinsOf(q) = PinsOf(s)
    <3>1. ~makeTab(p, next).pinned
      BY DEF makeTab
    <3>2. \A i : (\E u \in DOMAIN q.by : \E x \in TabsIn(q.by[u]) : x.id = i /\ x.pinned)
                 <=> \E u \in DOMAIN s.by : \E x \in TabsIn(s.by[u]) : x.id = i /\ x.pinned
      BY <2>1, <3>1
    <3>3. \A i : i \in PinsOf(q) <=> i \in PinsOf(s)
      BY <1>1, <1>7, <3>2, PinsAre
    <3> QED BY <3>3 DEF PinsOf
  <2>5. PinsOf(store') = PinsOf(store) \cap Promise!Tabs(OpenOf(store'))
    <3>1. next \notin PinsOf(store)
      BY DEF PinsOf, Core, Numbered
    <3> QED BY <1>2, <1>9, <1>10, <2>3, <2>4, <3>1
  <2>6. OpenOf(q) = Promise!Set(OpenOf(s), w, {next}) /\ FocusOf(q) = Promise!Set(FocusOf(s), w, next)
    BY <2>1, <2>2 DEF Promise!Set, OpenOf, FocusOf
  <2>7. next' - 1 = (next - 1) + 1 /\ w \notin DOMAIN OpenOf(store)
    BY <1>3, <1>8, <1>12, <2>3 DEF OpenOf
  <2>8. /\ OpenOf(store') = Promise!Set(Promise!Only(OpenOf(store), L), w, {(next - 1) + 1})
        /\ FocusOf(store') = Promise!Set(Promise!Only(FocusOf(store), L), w, (next - 1) + 1)
    BY <1>2, <1>3, <1>9, <2>6
  <2> QED BY <1>6, <1>9, <2>5, <2>7, <2>8 DEF Promise!Enter, OpenOf, FocusOf, PinsOf
<1> QED BY <1>11, <1>12

LEMMA LogsOut ==
    ASSUME Core, Rendered(reset)
    PROVE  Promise!Logout
<1>1. Keeps(store, reset, next)
  BY ResetKeeps
<1>2. LiveIds(reset) = {} /\ OpenOf(reset) = [w \in {} |-> {}] /\ FocusOf(reset) = [w \in {} |-> 0]
      /\ reset.shown = None
  BY DEF reset, LiveIds, OpenOf, FocusOf
<1>3. PinsOf(reset) = {}
  BY <1>2 DEF PinsOf
<1>4. Alike(reset, store') /\ next' = next
  BY <1>1, <1>2, RenderedAlike
<1>5. OpenOf(store') = [w \in {} |-> {}] /\ FocusOf(store') = [w \in {} |-> 0]
      /\ PinsOf(store') = {} /\ store'.shown = None
  BY <1>2, <1>3, <1>4 DEF Alike
<1> QED BY <1>4, <1>5 DEF Promise!Logout, OpenOf, FocusOf, PinsOf

LEMMA Restarts ==
    ASSUME Core, Restart
    PROVE  \E K \in SUBSET Promise!Tabs(OpenOf(store)) : Promise!Restart(K)
<1>1. PICK v \in FirstOf(mergedSlugs(store)) : store' = merge(store, v) /\ next' = next
  BY DEF Restart
<1>2. PICK s : s = merge(store, v)
  OBVIOUS
<1>3. SoundStore(store) /\ v \in mergedSlugs(store) \cup {None}
  BY DEF FirstOf, Core
<1>4. SoundStore(s) /\ LiveIds(s) \subseteq LiveIds(store)
  BY <1>2, <1>3, MergeKeeps DEF Keeps
<1>5. /\ DOMAIN s.by = mergedSlugs(store) /\ mergedSlugs(store) \subseteq DOMAIN store.by
      /\ \A w \in DOMAIN s.by :
           /\ \A x \in TabsIn(s.by[w]) : \E y \in TabsIn(store.by[w]) : Comes(x, y, w)
           /\ store.by[w].active \in IdsIn(s.by[w]) => s.by[w].active = store.by[w].active
      /\ s.shown = IF store.shown \in mergedSlugs(store) THEN store.shown ELSE v
  <2>1. LET r == merge(store, v)
        IN /\ DOMAIN r.by = mergedSlugs(store) /\ mergedSlugs(store) \subseteq DOMAIN store.by
           /\ \A w \in DOMAIN r.by :
                /\ \A x \in TabsIn(r.by[w]) : \E y \in TabsIn(store.by[w]) : Comes(x, y, w)
                /\ store.by[w].active \in IdsIn(r.by[w]) => r.by[w].active = store.by[w].active
           /\ r.shown = IF store.shown \in mergedSlugs(store) THEN store.shown ELSE v
    BY <1>3, MergeBecomes
  <2> QED BY <1>2, <2>1
<1> DEFINE K == LiveIds(s)
<1>6. ASSUME NEW w \in DOMAIN s.by, NEW x \in TabsIn(s.by[w])
      PROVE  \E y \in TabsIn(store.by[w]) : y.id = x.id /\ y.pinned = x.pinned
  <2>1. PICK y \in TabsIn(store.by[w]) : Comes(x, y, w)
    BY <1>5, <1>6
  <2>2. y \in Tab
    BY <1>3, <1>5, TabIs
  <2> QED BY <2>1, <2>2 DEF Comes, Tab
<1>7. ASSUME NEW w \in DOMAIN s.by, NEW i \in IdsIn(s.by[w])
      PROVE  i \in IdsIn(store.by[w])
  <2>1. PICK x \in TabsIn(s.by[w]) : x.id = i
    BY <1>7, IdsAre
  <2> QED BY <1>3, <1>5, <1>6, <2>1, TabIs
<1>8. ASSUME NEW w \in DOMAIN store.by, NEW i \in IdsIn(store.by[w]), i \in K
      PROVE  w \in DOMAIN s.by /\ i \in IdsIn(s.by[w])
  <2>1. PICK u \in DOMAIN s.by : i \in IdsIn(s.by[u])
    BY <1>8 DEF LiveIds
  <2>2. u \in DOMAIN store.by /\ i \in IdsIn(store.by[u])
    BY <1>5, <1>7, <2>1
  <2>3. u = w
    BY <1>3, <1>8, <2>2 DEF SoundStore
  <2> QED BY <2>1, <2>3
<1>9. \A w \in DOMAIN s.by : IdsIn(s.by[w]) \subseteq K /\ s.by[w].active \in IdsIn(s.by[w])
  BY <1>4, LiveIn, GroupIn DEF SoundGroup
<1>10. \A w \in DOMAIN store.by : IdsIn(store.by[w]) \cap K # {} <=> w \in DOMAIN s.by
  BY <1>7, <1>8, <1>9
<1>11. \A w \in DOMAIN s.by : IdsIn(s.by[w]) = IdsIn(store.by[w]) \cap K
  BY <1>5, <1>7, <1>8, <1>9
<1>12. ASSUME NEW i PROVE i \in PinsOf(s) <=> i \in PinsOf(store) /\ i \in K
  <2>1. ASSUME i \in PinsOf(s) PROVE i \in PinsOf(store) /\ i \in K
    <3>1. PICK w \in DOMAIN s.by : \E x \in TabsIn(s.by[w]) : x.id = i /\ x.pinned
      BY <1>4, <2>1, PinsAre
    <3>2. w \in DOMAIN store.by /\ \E y \in TabsIn(store.by[w]) : y.id = i /\ y.pinned
      BY <1>5, <1>6, <3>1
    <3>3. i \in PinsOf(store)
      BY <1>3, <3>2, PinsAre
    <3> QED BY <2>1, <3>3 DEF PinsOf
  <2>2. ASSUME i \in PinsOf(store), i \in K PROVE i \in PinsOf(s)
    <3>1. PICK w \in DOMAIN s.by : \E x \in TabsIn(s.by[w]) : x.id = i
      <4>1. PICK w \in DOMAIN s.by : i \in IdsIn(s.by[w])
        BY <2>2 DEF LiveIds
      <4> QED BY <4>1, IdsAre
    <3>2. PICK x \in TabsIn(s.by[w]) : x.id = i
      BY <3>1
    <3>3. PICK y \in TabsIn(store.by[w]) : y.id = x.id /\ y.pinned = x.pinned
      BY <1>6, <3>2
    <3>4. TabOf(store, i) = y
      BY <1>3, <1>5, <3>2, <3>3, TabIs
    <3>5. x.pinned
      BY <2>2, <3>3, <3>4 DEF PinsOf
    <3> QED BY <1>4, <3>2, <3>5, PinsAre
  <2> QED BY <2>1, <2>2
<1>13. PinsOf(s) = PinsOf(store) \cap K
  BY <1>12 DEF PinsOf
<1> HIDE DEF K
<1>14. DOMAIN OpenOf(s) = {w \in DOMAIN OpenOf(store) : OpenOf(store)[w] \cap K # {}}
  BY <1>5, <1>10 DEF OpenOf
<1>15. OpenOf(s) = [w \in {u \in DOMAIN OpenOf(store) : OpenOf(store)[u] \cap K # {}} |->
                      OpenOf(store)[w] \cap K]
  <2>1. \A w \in DOMAIN OpenOf(s) : OpenOf(s)[w] = OpenOf(store)[w] \cap K
    BY <1>5, <1>11 DEF OpenOf
  <2>2. OpenOf(s) = [w \in DOMAIN OpenOf(s) |-> OpenOf(s)[w]]
    BY DEF OpenOf
  <2> QED BY <1>14, <2>1, <2>2
<1>16. FocusOf(s) \in [DOMAIN OpenOf(s) -> K]
  BY <1>9 DEF FocusOf, OpenOf
<1>17. \A w \in DOMAIN OpenOf(s) :
         /\ FocusOf(s)[w] \in OpenOf(s)[w]
         /\ FocusOf(store)[w] \in K => FocusOf(s)[w] = FocusOf(store)[w]
  <2> SUFFICES ASSUME NEW w \in DOMAIN s.by
               PROVE  /\ s.by[w].active \in IdsIn(s.by[w])
                      /\ store.by[w].active \in K => s.by[w].active = store.by[w].active
    BY <1>5 DEF FocusOf, OpenOf
  <2>1. store.by[w].active \in IdsIn(store.by[w])
    BY <1>3, <1>5, GroupIn DEF SoundGroup
  <2> QED BY <1>5, <1>9, <1>11, <2>1
<1>18. IF store.shown \in DOMAIN OpenOf(s) THEN s.shown = store.shown
       ELSE s.shown \in IF DOMAIN OpenOf(s) = {} THEN {None} ELSE DOMAIN OpenOf(s)
  BY <1>5 DEF OpenOf, FirstOf
<1>19. K \in SUBSET Promise!Tabs(OpenOf(store))
  BY <1>4, TabsAre DEF K
<1>20. store' = s
  BY <1>1, <1>2
<1>21. Promise!Restart(K)
  <2>1. \E f \in [DOMAIN OpenOf(s) -> K] :
          /\ \A w \in DOMAIN OpenOf(s) :
               f[w] \in OpenOf(s)[w] /\ (FocusOf(store)[w] \in K => f[w] = FocusOf(store)[w])
          /\ FocusOf(s) = f
    BY <1>16, <1>17
  <2>2. /\ OpenOf(store') = [w \in {u \in DOMAIN OpenOf(store) : OpenOf(store)[u] \cap K # {}} |->
                              OpenOf(store)[w] \cap K]
        /\ PinsOf(store') = PinsOf(store) \cap K
        /\ IF store.shown \in DOMAIN OpenOf(store') THEN store'.shown = store.shown
           ELSE store'.shown \in IF DOMAIN OpenOf(store') = {} THEN {None} ELSE DOMAIN OpenOf(store')
        /\ next' - 1 = next - 1
    <3>1. OpenOf(store') = OpenOf(s) /\ PinsOf(store') = PinsOf(s) /\ store'.shown = s.shown
      BY <1>20
    <3>2. next' - 1 = next - 1
      BY <1>1
    <3>3. OpenOf(store') = [w \in {u \in DOMAIN OpenOf(store) : OpenOf(store)[u] \cap K # {}} |->
                              OpenOf(store)[w] \cap K]
      BY ONLY <3>1, <1>15
    <3> QED BY <1>13, <1>18, <3>1, <3>2, <3>3
  <2>3. \E f \in [DOMAIN OpenOf(store') -> K] :
          /\ \A w \in DOMAIN OpenOf(store') :
               f[w] \in OpenOf(store')[w] /\ (FocusOf(store)[w] \in K => f[w] = FocusOf(store)[w])
          /\ FocusOf(store') = f
    BY <1>20, <2>1
  <2> QED BY <2>2, <2>3 DEF Promise!Restart, OpenOf, FocusOf, PinsOf
<1> QED BY <1>19, <1>21

----------------------------------------------------------------------------
(* Every step is one of the promise's, or none. *)

LEMMA OpenIs ==
    ASSUME NEW w \in Workspaces, Promise!Open(w)
    PROVE  Promise!Next
BY DEF Promise!Next

LEMMA FocusIs ==
    ASSUME NEW w \in Workspaces, NEW i, Promise!Focus(w, i)
    PROVE  Promise!Next
<1>1. i \in Promise!TabsOf(w)
  BY DEF Promise!Focus
<1> QED BY <1>1 DEF Promise!Next

LEMMA CloseIs ==
    ASSUME NEW w \in Workspaces, NEW i, Promise!Close(w, i)
    PROVE  Promise!Next
<1>1. i \in Promise!TabsOf(w)
  BY DEF Promise!Close
<1> QED BY <1>1 DEF Promise!Next

LEMMA PinIs ==
    ASSUME NEW i, Promise!Pin(i)
    PROVE  Promise!Next
<1>1. i \in Promise!Tabs(OpenOf(store))
  BY DEF Promise!Pin, OpenOf
<1> QED BY <1>1 DEF Promise!Next, OpenOf

(* A tab opened, or brought into focus. *)
Adds(w, p, T, a) ==
    \/ /\ w \notin DOMAIN store.by /\ T = {makeTab(p, next)} /\ a = next
    \/ /\ w \in DOMAIN store.by /\ T = TabsIn(store.by[w])
       /\ \E x \in TabsIn(store.by[w]) : a = x.id
    \/ /\ w \in DOMAIN store.by /\ T = TabsIn(store.by[w]) \cup {makeTab(p, next)}
       /\ \/ a = next
          \/ w = store.shown /\ a = store.by[w].active

LEMMA AddPromised ==
    ASSUME Core, NEW s, Keeps(store, s, next), Rendered(s), NEW w \in Workspaces, NEW p, NEW a, NEW T,
           Becomes(store, s, w, T, a), s.shown = w, Adds(w, p, T, a)
    PROVE  Promise!Next
<1>1. CASE w \in DOMAIN store.by /\ T = TabsIn(store.by[w]) /\ \E x \in TabsIn(store.by[w]) : a = x.id
  <2>1. PICK x \in TabsIn(store.by[w]) : a = x.id
    BY <1>1
  <2>2. Becomes(store, s, w, TabsIn(store.by[w]), x.id)
    BY <1>1, <2>1
  <2> QED BY <1>1, <2>2, Focuses, FocusIs
<1>2. CASE \/ w \notin DOMAIN store.by /\ T = {makeTab(p, next)} /\ a = next
           \/ /\ w \in DOMAIN store.by /\ T = TabsIn(store.by[w]) \cup {makeTab(p, next)}
              /\ \/ a = next
                 \/ w = store.shown /\ a = store.by[w].active
  <2>1. T = (IF w \in DOMAIN store.by THEN TabsIn(store.by[w]) ELSE {}) \cup {makeTab(p, next)}
    BY <1>2
  <2>2. Becomes(store, s, w, (IF w \in DOMAIN store.by THEN TabsIn(store.by[w]) ELSE {})
                             \cup {makeTab(p, next)}, a)
    BY <2>1
  <2> QED BY <1>2, <2>2, Opens, OpenIs
<1> QED BY <1>1, <1>2 DEF Adds

LEMMA ElsewherePromised ==
    ASSUME Core, NEW p \in Path, Elsewhere(p)
    PROVE  Promise!Next
<1> DEFINE s == switchWorkspaceTo(store, p.ws, p, next)
<1>1. /\ p \in Location /\ p.ws \in Workspaces /\ Rendered(s)
      /\ SoundStore(store) /\ next \in Nat /\ next \notin LiveIds(store)
  BY DEF Elsewhere, Path, Location, Core, Numbered
<1>2. Keeps(store, s, next)
  BY <1>1, SwitchToKeeps DEF Grows
<1>3. /\ s.shown = p.ws
      /\ \/ p.ws \notin DOMAIN store.by /\ Becomes(store, s, p.ws, {makeTab(p, next)}, next)
         \/ p.ws \in DOMAIN store.by
            /\ \/ \E x \in TabsIn(store.by[p.ws]) : Becomes(store, s, p.ws, TabsIn(store.by[p.ws]), x.id)
               \/ Becomes(store, s, p.ws, TabsIn(store.by[p.ws]) \cup {makeTab(p, next)}, next)
  BY <1>1, SwitchToBecomes
<1>4. PICK q, n : q = s /\ n = next
  OBVIOUS
<1> HIDE DEF s
<1>5. /\ q.shown = p.ws /\ Keeps(store, q, next) /\ Rendered(q)
      /\ \/ p.ws \notin DOMAIN store.by /\ Becomes(store, q, p.ws, {makeTab(p, n)}, n)
         \/ p.ws \in DOMAIN store.by
            /\ \/ \E x \in TabsIn(store.by[p.ws]) : Becomes(store, q, p.ws, TabsIn(store.by[p.ws]), x.id)
               \/ Becomes(store, q, p.ws, TabsIn(store.by[p.ws]) \cup {makeTab(p, n)}, n)
  BY <1>1, <1>2, <1>3, <1>4
<1>6. PICK T, a : Becomes(store, q, p.ws, T, a) /\ Adds(p.ws, p, T, a)
  BY <1>4, <1>5 DEF Adds
<1> QED BY <1>1, <1>5, <1>6, AddPromised

LEMMA OpenPromised ==
    ASSUME Core, NEW p \in Path, store.shown # None,
           \/ Rendered(openTab(store, p, next))
           \/ Rendered(Focused(openTab(store, p, next), store.shown, openedBy(store, p, next)))
    PROVE  Promise!Next
<1> DEFINE w == store.shown
           a == openedBy(store, p, next)
           s == openTab(store, p, next)
           r == Focused(s, w, a)
           T == TabsIn(store.by[w]) \cup {makeTab(p, next)}
<1>1. /\ p \in Location /\ SoundStore(store) /\ w \in DOMAIN store.by /\ w \in Workspaces
      /\ next \in Nat /\ next \notin LiveIds(store)
  BY ShownIn DEF Path, Location, Core, SoundStore
<1>2. Grows(store, s, next) /\ Grows(store, r, next)
  BY <1>1, OpenKeeps
<1>3. /\ s.shown = w /\ r.shown = w
      /\ \/ \E x \in TabsIn(store.by[w]) :
               /\ a = x.id
               /\ Becomes(store, s, w, TabsIn(store.by[w]), a)
               /\ Becomes(store, r, w, TabsIn(store.by[w]), a)
         \/ /\ a = next
            /\ Becomes(store, s, w, T, store.by[w].active)
            /\ Becomes(store, r, w, T, a)
  BY <1>1, OpenBecomes
<1>4. Rendered(s) \/ Rendered(r)
  OBVIOUS
<1>5. w = store.shown
  OBVIOUS
<1> HIDE DEF a, s, r, w
<1>6. Keeps(store, s, next) /\ Keeps(store, r, next)
  BY <1>2 DEF Grows
<1>7. PICK q, h, v, b, c, A, B :
        /\ q = s /\ h = r /\ v = w /\ b = a /\ c = store.by[w].active
        /\ A = TabsIn(store.by[w]) /\ B = T
  OBVIOUS
<1>8. /\ v \in DOMAIN store.by /\ v \in Workspaces /\ q.shown = v /\ h.shown = v
      /\ Keeps(store, q, next) /\ Keeps(store, h, next) /\ (Rendered(q) \/ Rendered(h))
  BY <1>1, <1>3, <1>4, <1>6, <1>7
<1>9. CASE /\ \E x \in TabsIn(store.by[w]) : a = x.id
           /\ Becomes(store, s, w, TabsIn(store.by[w]), a)
           /\ Becomes(store, r, w, TabsIn(store.by[w]), a)
  <2>1. Becomes(store, q, v, A, b) /\ Becomes(store, h, v, A, b)
    BY <1>7, <1>9
  <2>2. Adds(v, p, A, b)
    BY <1>7, <1>8, <1>9 DEF Adds
  <2>3. CASE Rendered(q)
    BY <1>8, <2>1, <2>2, <2>3, AddPromised
  <2>4. CASE Rendered(h)
    BY <1>8, <2>1, <2>2, <2>4, AddPromised
  <2> QED BY <1>8, <2>3, <2>4
<1>10. CASE /\ a = next
            /\ Becomes(store, s, w, T, store.by[w].active)
            /\ Becomes(store, r, w, T, a)
  <2>1. Becomes(store, q, v, B, c) /\ Becomes(store, h, v, B, b)
    BY <1>7, <1>10
  <2>2. Adds(v, p, B, b) /\ Adds(v, p, B, c)
    BY <1>5, <1>7, <1>8, <1>10 DEF Adds
  <2>3. CASE Rendered(q)
    BY <1>8, <2>1, <2>2, <2>3, AddPromised
  <2>4. CASE Rendered(h)
    BY <1>8, <2>1, <2>2, <2>4, AddPromised
  <2> QED BY <1>8, <2>3, <2>4
<1> QED BY <1>3, <1>9, <1>10

LEMMA NewTabPromised ==
    ASSUME Core, NewTab
    PROVE  Promise!Next
<1> DEFINE w == store.shown
           p == defaultPathFor(w)
           s == Focused(addTab(store, p, next), w, next)
<1>1. /\ w # None /\ SoundStore(store) /\ Rendered(s) /\ w \in Workspaces
      /\ w \in DOMAIN store.by /\ next \in Nat /\ next \notin LiveIds(store)
  BY ShownIn DEF NewTab, Core, SoundStore
<1>2. p \in Location
  BY <1>1, HomePath
<1>3. Keeps(store, s, next)
  BY <1>1, <1>2, AddKeeps DEF Grows
<1>4. Becomes(store, s, w, TabsIn(store.by[w]) \cup {makeTab(p, next)}, next) /\ s.shown = w
  BY <1>1, <1>2, AddBecomes
<1> HIDE DEF s
<1>5. PICK q, v, c, T, a :
        /\ v = w /\ c = p /\ a = next /\ q = s
        /\ T = TabsIn(store.by[v]) \cup {makeTab(c, next)}
  OBVIOUS
<1>6. q.shown = v /\ Keeps(store, q, next) /\ Rendered(q) /\ Becomes(store, q, v, T, a)
      /\ v \in DOMAIN store.by /\ v \in Workspaces
  BY <1>1, <1>3, <1>4, <1>5
<1>7. Adds(v, c, T, a)
  BY <1>5, <1>6 DEF Adds
<1> QED BY <1>6, <1>7, AddPromised

LEMMA BarPromised ==
    ASSUME Core, NEW k, CloseTab(k) \/ Select(k) \/ TogglePin(k)
    PROVE  Promise!Next
<1> DEFINE w == store.shown
           g == store.by[w]
           x == g.tabs[k]
<1>1. /\ w # None /\ k \in DOMAIN g.tabs /\ SoundStore(store) /\ w \in Workspaces
      /\ w \in DOMAIN store.by /\ next \in Nat /\ next \notin LiveIds(store)
  BY ShownIn DEF CloseTab, Select, TogglePin, Known, Core, SoundStore
<1>2. x \in TabsIn(g) /\ x \in Tab
  BY <1>1, InRange, TabIs DEF TabsIn
<1>3. CASE CloseTab(k)
  <2> DEFINE s == closeTab(store, w, k, next)
  <2>1. Rendered(s) /\ Len(g.tabs) > 1 /\ ~x.pinned
    BY <1>3 DEF CloseTab
  <2>2. Keeps(store, s, next)
    BY <1>1, CloseKeeps
  <2>3. s.shown = w /\ \E a \in IdsIn(g) \ {x.id} :
            Becomes(store, s, w, TabsIn(g) \ {x}, IF g.active = x.id THEN a ELSE g.active)
    BY <1>1, <2>1, CloseBecomes
  <2> HIDE DEF s, x
  <2>4. PICK a \in IdsIn(g) \ {x.id} :
            Becomes(store, s, w, TabsIn(g) \ {x}, IF g.active = x.id THEN a ELSE g.active)
    BY <2>3
  <2>5. PICK v, q, y : v = w /\ q = s /\ y = x
    OBVIOUS
  <2>6. /\ v \in Workspaces /\ v \in DOMAIN store.by /\ y \in TabsIn(store.by[v]) /\ ~y.pinned
        /\ Keeps(store, q, next) /\ Rendered(q) /\ q.shown = store.shown
        /\ a \in IdsIn(store.by[v]) \ {y.id}
        /\ Becomes(store, q, v, TabsIn(store.by[v]) \ {y},
                   IF store.by[v].active = y.id THEN a ELSE store.by[v].active)
    BY <1>1, <1>2, <2>1, <2>2, <2>3, <2>4, <2>5
  <2>7. Promise!Close(v, y.id)
    BY <2>6, Closes
  <2> QED BY <2>6, <2>7, CloseIs
<1>4. CASE Select(k)
  <2> DEFINE s == setActiveTab(store, w, k)
  <2>1. Rendered(s)
    BY <1>4 DEF Select
  <2>2. Keeps(store, s, next)
    BY <1>1, FocusKeeps DEF setActiveTab, Grows
  <2>3. Becomes(store, s, w, TabsIn(g), x.id) /\ s.shown = w
    BY <1>1, SelectBecomes
  <2> HIDE DEF s, x
  <2>4. PICK v, q, y : v = w /\ q = s /\ y = x
    OBVIOUS
  <2>5. /\ v \in Workspaces /\ v \in DOMAIN store.by /\ y \in TabsIn(store.by[v])
        /\ Keeps(store, q, next) /\ Rendered(q) /\ q.shown = v
        /\ Becomes(store, q, v, TabsIn(store.by[v]), y.id)
    BY <1>1, <1>2, <2>1, <2>2, <2>3, <2>4
  <2>6. Promise!Focus(v, y.id)
    BY <2>5, Focuses
  <2> QED BY <2>5, <2>6, FocusIs
<1>5. CASE TogglePin(k)
  <2> DEFINE s == togglePin(store, w, k)
             y == [x EXCEPT !.pinned = ~@]
  <2>1. Rendered(s)
    BY <1>5 DEF TogglePin
  <2>2. Grows(store, s, next) /\ s.shown = w
        /\ Becomes(store, s, w, (TabsIn(g) \ {x}) \cup {y}, g.active)
    BY <1>1, ToggleKeeps
  <2>3. Keeps(store, s, next)
    BY <2>2 DEF Grows
  <2>4. y.id = x.id /\ y.pinned = ~x.pinned
    BY <1>2 DEF Tab
  <2> HIDE DEF s, x, y
  <2>5. PICK v, q, c, d : v = w /\ q = s /\ c = x /\ d = y
    OBVIOUS
  <2>6. /\ v \in DOMAIN store.by /\ c \in TabsIn(store.by[v]) /\ d.id = c.id /\ d.pinned = ~c.pinned
        /\ Keeps(store, q, next) /\ Rendered(q) /\ q.shown = store.shown
        /\ Becomes(store, q, v, (TabsIn(store.by[v]) \ {c}) \cup {d}, store.by[v].active)
    BY <1>1, <1>2, <2>1, <2>2, <2>3, <2>4, <2>5
  <2>7. Promise!Pin(c.id)
    BY <2>6, Pins
  <2> QED BY <2>7, PinIs
<1> QED BY <1>3, <1>4, <1>5

LEMMA DragPromised ==
    ASSUME Core, NEW from, NEW to, Drag(from, to)
    PROVE  UNCHANGED Promise!tabVars
<1> DEFINE w == store.shown
           s == moveTab(store, from, to)
<1>1. /\ w # None /\ from \in DOMAIN store.by[w].tabs /\ to \in DOMAIN store.by[w].tabs
      /\ SoundStore(store) /\ w \in DOMAIN store.by /\ Rendered(s)
  BY ShownIn DEF Drag, Known, Core
<1>2. Grows(store, s, next) /\ s.shown = w
      /\ Becomes(store, s, w, TabsIn(store.by[w]), store.by[w].active)
  BY <1>1, MoveKeeps
<1> HIDE DEF s
<1>3. Keeps(store, s, next) /\ SoundStore(s)
  BY <1>2 DEF Grows, Keeps
<1>4. PICK z : z \in TabsIn(store.by[w])
  <2>1. IdsIn(store.by[w]) # {}
    BY <1>1, GroupIn DEF SoundGroup
  <2> QED BY <2>1, IdsAre
<1>5. Becomes(store, s, w, (TabsIn(store.by[w]) \ {z}) \cup {z}, store.by[w].active)
  <2>1. (TabsIn(store.by[w]) \ {z}) \cup {z} = TabsIn(store.by[w])
    BY <1>4
  <2> QED BY <1>2, <2>1
<1>6. Alike(store, s)
  BY <1>1, <1>2, <1>3, <1>4, <1>5, RenewedAlike
<1>7. Alike(s, store') /\ next' = IF next \in LiveIds(s) THEN next + 1 ELSE next
  BY <1>1, <1>3, RenderedAlike
<1>8. LiveIds(s) = LiveIds(store) /\ next \notin LiveIds(store)
  BY <1>1, <1>6, AlikeAre, ShownIn
<1> QED BY <1>6, <1>7, <1>8, Unmoved DEF Alike

LEMMA MovePromised ==
    ASSUME IInv, NEW i \in DOMAIN router, NEW r, NEW f, Navigated(i, r, f),
           \/ \E p \in Location : \/ r = Pushed(router[i], p) /\ f = RefsPushed(refs[i])
                                  \/ r = Replaced(router[i], p) /\ f = refs[i]
           \/ r = Popped(router[i]) /\ f = RefsPopped(refs[i])
           \/ r = Forwarded(router[i]) /\ f = RefsForwarded(refs[i])
    PROVE  UNCHANGED Promise!tabVars
<1>1. OKRouter(router[i]) /\ refs[i] \in Refs /\ Root \in Location
  BY RouterIn DEF Location
<1>2. OKRouter(r) /\ f \in Refs
  BY <1>1, RoutersMove, RefsMove
<1>3. Alike(store, store') /\ next' = next
  BY <1>2, NavigatedAlike DEF IInv
<1> QED BY <1>3, Unmoved

LEMMA SessionPromised ==
    ASSUME IInv,
           \/ \E L \in SUBSET Workspaces, w \in Workspaces : ListArrives(L, w)
           \/ EmptyListArrives \/ Heal \/ Logout
    PROVE  Promise!Next
<1>1. ASSUME NEW L \in SUBSET Workspaces, Promise!Keep(L) PROVE Promise!Next
  BY <1>1 DEF Promise!Next
<1>2. ASSUME NEW L \in SUBSET Workspaces, NEW w \in Workspaces, ListArrives(L, w) PROVE Promise!Next
  <2>1. PICK v, s :
          /\ v \in FirstOf(DOMAIN store.by \cap L)
          /\ s = validateWorkspaceSlugs(store, L, v)
          /\ Rendered(IF s.shown = None THEN switchWorkspace(s, w, next) ELSE s)
    BY <1>2 DEF ListArrives
  <2>2. w \in L
    BY <1>2 DEF ListArrives
  <2>3. CASE s.shown = None
    <3>1. Promise!Enter(L, w)
      BY <2>1, <2>2, <2>3, Enters DEF IInv
    <3> QED BY <2>2, <3>1 DEF Promise!Next
  <2>4. CASE s.shown # None
    <3>1. Promise!Keep(L)
      BY <2>1, <2>4, KeepsList DEF IInv
    <3> QED BY <1>1, <3>1
  <2> QED BY <2>3, <2>4
<1>3. ASSUME Heal PROVE Promise!Next
  <2>1. PICK L : L = list
    OBVIOUS
  <2>2. L \in SUBSET Workspaces
    BY <2>1 DEF IInv
  <2>3. PICK v, s :
          /\ v \in FirstOf(DOMAIN store.by \cap L)
          /\ s = validateWorkspaceSlugs(store, L, v) /\ Rendered(s)
    BY <1>3, <2>1 DEF Heal
  <2>4. Promise!Keep(L)
    BY <2>2, <2>3, KeepsList DEF IInv
  <2> QED BY <1>1, <2>2, <2>4
<1>4. ASSUME EmptyListArrives \/ Logout PROVE Promise!Next
  <2>1. Promise!Logout
    BY <1>4, LogsOut DEF EmptyListArrives, Logout, IInv
  <2> QED BY <2>1 DEF Promise!Next
<1> QED BY <1>2, <1>3, <1>4

LEMMA RestartPromised ==
    ASSUME IInv, Restart
    PROVE  Promise!Next
<1>1. \E K \in SUBSET Promise!Tabs(OpenOf(store)) : Promise!Restart(K)
  BY Restarts DEF IInv
<1> QED BY <1>1 DEF Promise!Next, OpenOf

LEMMA PagePromised ==
    ASSUME IInv, NEW i \in DOMAIN router,
           \/ \E p \in Path :
               \/ PushElsewhere(i, p) \/ PushFromPinned(i, p) \/ PushHere(i, p) \/ ReplaceHere(i, p)
           \/ Transition(i) \/ Back(i)
    PROVE  Promise!Next \/ UNCHANGED Promise!tabVars
<1>1. Core /\ Path \subseteq Location /\ Root \in Location
  BY DEF IInv, Location
<1>2. ASSUME NEW p \in Path, PushElsewhere(i, p) PROVE Promise!Next
  BY <1>1, <1>2, ElsewherePromised DEF PushElsewhere
<1>3. ASSUME NEW p \in Path, PushFromPinned(i, p) PROVE Promise!Next
  <2>1. store.shown # None
        /\ Rendered(Focused(openTab(store, p, next), store.shown, openedBy(store, p, next)))
    BY <1>3, NoneAssumption DEF PushFromPinned, Path
  <2> QED BY <1>1, <2>1, OpenPromised
<1>4. ASSUME NEW p \in Path, PushHere(i, p) PROVE UNCHANGED Promise!tabVars
  BY <1>1, <1>4, MovePromised DEF PushHere, Here
<1>5. ASSUME NEW p \in Path, ReplaceHere(i, p) PROVE UNCHANGED Promise!tabVars
  BY <1>1, <1>5, MovePromised DEF ReplaceHere, Here
<1>6. ASSUME Transition(i) PROVE UNCHANGED Promise!tabVars
  BY <1>1, <1>6, MovePromised DEF Transition
<1>7. ASSUME Back(i) PROVE UNCHANGED Promise!tabVars
  BY <1>7, MovePromised DEF Back
<1> QED BY <1>2, <1>3, <1>4, <1>5, <1>6, <1>7

LEMMA StepPromised == IInv /\ [Next]_vars => [Promise!Next]_Promise!tabVars
<1>1. UNCHANGED vars => UNCHANGED Promise!tabVars
  BY DEF vars, Promise!tabVars, LiveIds, TabOf, OwnerOf, PositionOf, IdsIn
<1> SUFFICES ASSUME IInv, Step PROVE Promise!Next \/ UNCHANGED Promise!tabVars
  BY <1>1 DEF Next
<1>2. Core
  BY DEF IInv
<1>3. ASSUME NEW i \in DOMAIN router,
             \/ \E p \in Path :
                 \/ PushElsewhere(i, p) \/ PushFromPinned(i, p) \/ PushHere(i, p) \/ ReplaceHere(i, p)
             \/ Transition(i) \/ Back(i)
      PROVE  Promise!Next \/ UNCHANGED Promise!tabVars
  BY <1>3, PagePromised
<1>4. ASSUME NEW p \in Path, ReplaceElsewhere(p) PROVE Promise!Next
  BY <1>2, <1>4, ElsewherePromised DEF ReplaceElsewhere
<1>5. ASSUME NEW p \in Path, NEW activate \in BOOLEAN, OpenInNewTab(p, activate) PROVE Promise!Next
  <2>1. store.shown # None
    BY <1>5, NoneAssumption DEF OpenInNewTab, Path
  <2>2. openTab(store, p, next).shown = store.shown
    BY <2>1, Opened
  <2>3. \/ Rendered(openTab(store, p, next))
        \/ Rendered(Focused(openTab(store, p, next), store.shown, openedBy(store, p, next)))
    BY <1>5, <2>2 DEF OpenInNewTab
  <2> QED BY <1>2, <2>1, <2>3, OpenPromised
<1>6. ASSUME NEW p \in Path, InternalLink(p) PROVE Promise!Next
  BY <1>2, <1>6, OpenPromised DEF InternalLink
<1>7. ASSUME GoBack \/ GoForward PROVE UNCHANGED Promise!tabVars
  <2>1. \A i \in Visible(store) : i \in DOMAIN router
    BY VisibleIn DEF IInv, Core, Routed
  <2>2. CASE GoBack
    BY <2>1, <2>2, MovePromised DEF GoBack, Back
  <2>3. CASE GoForward
    BY <2>1, <2>3, MovePromised DEF GoForward
  <2> QED BY <1>7, <2>2, <2>3
<1>8. ASSUME NewTab PROVE Promise!Next
  BY <1>2, <1>8, NewTabPromised
<1>9. ASSUME NEW k, CloseTab(k) \/ Select(k) \/ TogglePin(k) PROVE Promise!Next
  BY <1>2, <1>9, BarPromised
<1>10. ASSUME NEW from, NEW to, Drag(from, to) PROVE UNCHANGED Promise!tabVars
  BY <1>2, <1>10, DragPromised
<1>11. ASSUME \/ \E L \in SUBSET Workspaces, w \in Workspaces : ListArrives(L, w)
              \/ EmptyListArrives \/ Heal \/ Logout
       PROVE  Promise!Next
  BY <1>11, SessionPromised
<1>12. ASSUME Restart PROVE Promise!Next
  BY <1>12, RestartPromised
<1> QED BY <1>3, <1>4, <1>5, <1>6, <1>7, <1>8, <1>9, <1>10, <1>11, <1>12 DEF Step

(* The renderer with its routers, its list and its restarts implements what  *)
(* the store promises its user (TabGroups): every step is one the promise    *)
(* allows, or leaves what it speaks of as it was.                            *)
THEOREM KeepsPromise == Spec => PromiseKept
<1>1. Init => Promise!Init
  BY DEF Init, reset, Promise!Init, LiveIds
<1> QED BY Inductive, <1>1, StepPromised, PTL DEF Spec, PromiseKept, Promise!Spec
=============================================================================
