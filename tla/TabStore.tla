-------------------------------- MODULE TabStore --------------------------------
(***************************************************************************)
(* The desktop application's tab store (apps/desktop/src/renderer/src/     *)
(* stores/tab-store.ts) as functions of its state: for each workspace a    *)
(* sequence of tabs and the active one, and the workspace whose tabs are   *)
(* shown. DesktopTabs calls them the way the renderer does.                *)
(*                                                                         *)
(* A path is a workspace and a page; the root and the reserved paths, that *)
(* belong to no workspace, are one value. A tab found by its id is given   *)
(* by its workspace and its position. Titles and icons are left out.       *)
(***************************************************************************)
EXTENDS Naturals, FiniteSets, SequencesExt

CONSTANTS
    Workspaces,  \* slugs
    Pages,       \* what follows the slug in a path
    Home,        \* the issues list, where a workspace is entered
    None

ASSUME HomeAssumption == Home \in Pages
ASSUME NoneAssumption == None \notin Workspaces

Path     == [ws : Workspaces, page : Pages]
Root     == [ws |-> None, page |-> Home]
Location == Path \cup {Root}

Tab   == [id : Nat, path : Location, pinned : BOOLEAN, at : Nat, len : Nat]
Group == [tabs : Seq(Tab), active : Nat]

sanitizeTabPath(p) == p.ws # None
defaultPathFor(w)  == [ws |-> w, page |-> Home]
makeTab(p, i)      == [id |-> i, path |-> p, pinned |-> FALSE, at |-> 0, len |-> 1]

IdsIn(g)  == {g.tabs[k].id : k \in DOMAIN g.tabs}
LiveIds(s) == UNION {IdsIn(s.by[w]) : w \in DOMAIN s.by}
Known(s, w, k) == w \in DOMAIN s.by /\ k \in DOMAIN s.by[w].tabs
At(g, p)  == {k \in DOMAIN g.tabs : g.tabs[k].path = p}

(* The first position with a property: Array.prototype.find. *)
First(K) == CHOOSE k \in K : \A j \in K : k <= j

WithGroup(s, w, g) ==
    [s EXCEPT !.by = [v \in DOMAIN s.by \cup {w} |-> IF v = w THEN g ELSE s.by[v]]]
WithTabs(s, w, t) == WithGroup(s, w, [s.by[w] EXCEPT !.tabs = t])
Focused(s, w, i)  == WithGroup(s, w, [s.by[w] EXCEPT !.active = i])
Show(s, w)        == [s EXCEPT !.shown = w]

----------------------------------------------------------------------------
(* The operations. i is an id that createId has not returned before. *)

(* switchWorkspace without a path: the group as it was left, or a new one. *)
switchWorkspace(s, w, i) ==
    IF w \in DOMAIN s.by THEN Show(s, w)
    ELSE Show(WithGroup(s, w, [tabs |-> <<makeTab(defaultPathFor(w), i)>>, active |-> i]), w)

(* switchWorkspace with a path. *)
switchWorkspaceTo(s, w, p, i) ==
    IF w \notin DOMAIN s.by
    THEN Show(WithGroup(s, w, [tabs |-> <<makeTab(p, i)>>, active |-> i]), w)
    ELSE LET g == s.by[w] IN
         IF At(g, p) # {} THEN Show(Focused(s, w, g.tabs[First(At(g, p))].id), w)
         ELSE Show(WithGroup(s, w, [tabs |-> Append(g.tabs, makeTab(p, i)), active |-> i]), w)

(* addTab and openTab act on the shown workspace; without one they do nothing. *)
addTab(s, p, i) == WithTabs(s, s.shown, Append(s.by[s.shown].tabs, makeTab(p, i)))

openTab(s, p, i) ==
    LET g == s.by[s.shown] IN
    IF At(g, p) # {} THEN Focused(s, s.shown, g.tabs[First(At(g, p))].id) ELSE addTab(s, p, i)

(* The id openTab returns. *)
openedBy(s, p, i) ==
    LET g == s.by[s.shown] IN IF At(g, p) # {} THEN g.tabs[First(At(g, p))].id ELSE i

(* Mutant: the focus goes to the first tab whichever was closed. *)
closeTabRefocusing(s, w, k, i) ==
    LET rest == RemoveAt(s.by[w].tabs, k)
    IN IF rest = <<>>
       THEN WithGroup(s, w, [tabs |-> <<makeTab(defaultPathFor(w), i)>>, active |-> i])
       ELSE WithGroup(s, w, [tabs |-> rest, active |-> rest[1].id])

closeTab(s, w, k, i) ==
    LET g    == s.by[w]
        rest == RemoveAt(g.tabs, k)
        near == IF k <= Len(rest) THEN k ELSE Len(rest)
    IN IF Len(g.tabs) = 1
       THEN WithGroup(s, w, [tabs |-> <<makeTab(defaultPathFor(w), i)>>, active |-> i])
       ELSE WithGroup(s, w, [tabs   |-> rest,
                             active |-> IF g.active = g.tabs[k].id THEN rest[near].id ELSE g.active])

setActiveTab(s, w, k) == Show(Focused(s, w, s.by[w].tabs[k].id), w)

updateTab(s, w, k, p) == WithTabs(s, w, [s.by[w].tabs EXCEPT ![k] = [@ EXCEPT !.path = p]])

updateTabHistory(s, w, k, at, len) ==
    WithTabs(s, w, [s.by[w].tabs EXCEPT ![k] = [@ EXCEPT !.at = at, !.len = len]])

(* The number of pinned tabs a sequence begins with. *)
pinnedBoundary(t) ==
    CHOOSE b \in 0..Len(t) : (\A k \in 1..b : t[k].pinned) /\ (b < Len(t) => ~t[b + 1].pinned)

(* Mutant: a drop across the boundary is let through. *)
moveTabUnclamped(s, from, to) ==
    LET t == s.by[s.shown].tabs
    IN WithTabs(s, s.shown, InsertAt(RemoveAt(t, from), to, t[from]))

(* moveTab: dropped at the boundary of the zone the tab comes from. *)
moveTab(s, from, to) ==
    LET t   == s.by[s.shown].tabs
        b   == pinnedBoundary(t)
        lo  == IF t[from].pinned THEN 1 ELSE b + 1
        hi  == IF t[from].pinned THEN b ELSE Len(t)
        dst == IF to < lo THEN lo ELSE IF to > hi THEN hi ELSE to
    IN WithTabs(s, s.shown, InsertAt(RemoveAt(t, from), dst, t[from]))

togglePin(s, w, k) ==
    LET t    == s.by[w].tabs
        rest == RemoveAt(t, k)
    IN WithTabs(s, w, InsertAt(rest, pinnedBoundary(rest) + 1, [t[k] EXCEPT !.pinned = ~@]))

(* Mutant: the shown workspace is dropped and no other takes its place. *)
validateWithoutRepoint(s, valid, v) ==
    [shown |-> IF s.shown \in valid THEN s.shown ELSE None,
     by    |-> [w \in DOMAIN s.by \cap valid |-> s.by[w]]]

(* validateWorkspaceSlugs: v is the first group that remains, None if none does. *)
validateWorkspaceSlugs(s, valid, v) ==
    [shown |-> IF s.shown \in valid \cup {None} THEN s.shown ELSE v,
     by    |-> [w \in DOMAIN s.by \cap valid |-> s.by[w]]]

reset == [shown |-> None, by |-> [w \in {} |-> None]]

----------------------------------------------------------------------------
(* partialize and merge: what a restart of the application brings back. Tabs *)
(* whose path is not of their group's workspace are dropped, pinned ones     *)
(* come first again, and every router starts anew.                           *)

(* Mutant: only that the path is a workspace's is checked, not whose. *)
keptSanitized(g, w) == {k \in DOMAIN g.tabs : sanitizeTabPath(g.tabs[k].path)}

keptAt(g, w) == {k \in DOMAIN g.tabs : g.tabs[k].path.ws = w}

(* The position before in the stable sort by pinned. *)
Before(t, j, k) == IF t[j].pinned = t[k].pinned THEN j < k ELSE t[j].pinned

Order(t, K) ==
    CHOOSE f \in [1..Cardinality(K) -> K] :
        \A j, k \in 1..Cardinality(K) : j < k => Before(t, f[j], f[k])

mergeGroup(g, w) ==
    LET f == Order(g.tabs, keptAt(g, w))
        t == [k \in DOMAIN f |-> [g.tabs[f[k]] EXCEPT !.at = 0, !.len = 1]]
    IN [tabs   |-> t,
        active |-> IF \E k \in DOMAIN t : t[k].id = g.active THEN g.active ELSE t[1].id]

mergedSlugs(s) == {w \in DOMAIN s.by : keptAt(s.by[w], w) # {}}

(* v is the first group that is left, None if none is. *)
merge(s, v) ==
    [shown |-> IF s.shown \in mergedSlugs(s) THEN s.shown ELSE v,
     by    |-> [w \in mergedSlugs(s) |-> mergeGroup(s.by[w], w)]]

----------------------------------------------------------------------------
(* What every state of the store keeps. *)

PinnedFirst(g) == \A j, k \in DOMAIN g.tabs : j < k /\ g.tabs[k].pinned => g.tabs[j].pinned

StoreType(s) ==
    /\ s.shown \in Workspaces \cup {None}
    /\ DOMAIN s.by \subseteq Workspaces
    /\ \A w \in DOMAIN s.by : s.by[w] \in Group

(* No id twice, neither within a workspace nor across two. *)
UniqueIds(s) ==
    \A v, w \in DOMAIN s.by : \A j \in DOMAIN s.by[v].tabs, k \in DOMAIN s.by[w].tabs :
        s.by[v].tabs[j].id = s.by[w].tabs[k].id => v = w /\ j = k

Sound(s) ==
    /\ UniqueIds(s)
    /\ \A w \in DOMAIN s.by : s.by[w].active \in IdsIn(s.by[w]) /\ PinnedFirst(s.by[w])
    /\ s.shown \in DOMAIN s.by \cup {None}
=============================================================================
