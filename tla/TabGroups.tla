-------------------------------- MODULE TabGroups --------------------------------
(***************************************************************************)
(* What the tab store promises its user (the comments of tab-store.ts):    *)
(* each workspace has its own tabs and remembers the one in focus, an      *)
(* operation on one workspace leaves the others as they were, a tab is     *)
(* never in two workspaces nor comes back once closed, a workspace that is *)
(* open always has a tab, and a pinned tab goes only with its workspace or *)
(* the session. How tabs are ordered, found by path, routed and persisted  *)
(* is not said here. Tabs are numbers, used in order.                      *)
(***************************************************************************)
EXTENDS Naturals, FiniteSets

CONSTANTS Workspaces, None

VARIABLES
    open,    \* for each open workspace its tabs
    focus,   \* for each open workspace the tab in focus
    pins,    \* the pinned tabs
    shown,   \* the workspace on screen
    used     \* the number of tabs opened so far

tabVars == <<open, focus, pins, shown, used>>

Set(f, w, x)  == [v \in DOMAIN f \cup {w} |-> IF v = w THEN x ELSE f[v]]
Only(f, W)    == [w \in DOMAIN f \cap W |-> f[w]]
Tabs(o)       == UNION {o[w] : w \in DOMAIN o}
TabsOf(w)     == IF w \in DOMAIN open THEN open[w] ELSE {}

Init ==
    /\ open = [w \in {} |-> {}]
    /\ focus = [w \in {} |-> 0]
    /\ pins = {}
    /\ shown = None
    /\ used = 0

(* A tab opens in workspace w and takes the screen, or stays behind in the shown one. *)
Open(w) ==
    /\ used' = used + 1
    /\ open' = Set(open, w, TabsOf(w) \cup {used + 1})
    /\ \/ focus' = Set(focus, w, used + 1) /\ shown' = w
       \/ w = shown /\ UNCHANGED <<focus, shown>>
    /\ UNCHANGED pins

(* Tab i of workspace w takes the focus; the workspace may take the screen. *)
Focus(w, i) ==
    /\ i \in TabsOf(w)
    /\ focus' = [focus EXCEPT ![w] = i]
    /\ shown' = w
    /\ UNCHANGED <<open, pins, used>>

(* An unpinned tab closes; the focus moves only if it was there. *)
Close(w, i) ==
    /\ i \in TabsOf(w) \ pins
    /\ TabsOf(w) # {i}
    /\ open' = [open EXCEPT ![w] = @ \ {i}]
    /\ \E j \in TabsOf(w) \ {i} : focus' = [focus EXCEPT ![w] = IF @ = i THEN j ELSE @]
    /\ UNCHANGED <<pins, shown, used>>

Pin(i) ==
    /\ i \in Tabs(open)
    /\ pins' = IF i \in pins THEN pins \ {i} ELSE pins \cup {i}
    /\ UNCHANGED <<open, focus, shown, used>>

(* The user's workspaces are those of L: the others go with their tabs, and *)
(* the screen moves only if it has to.                                      *)
Keep(L) ==
    /\ open' = Only(open, L)
    /\ focus' = Only(focus, L)
    /\ pins' = pins \cap Tabs(open')
    /\ IF shown \in L THEN UNCHANGED shown
       ELSE shown' \in (IF DOMAIN open' = {} THEN {None} ELSE DOMAIN open') \cup ({shown} \cap {None})
    /\ UNCHANGED used

(* No workspace on screen is left: the user is put in one of theirs. *)
Enter(L, w) ==
    /\ w \in L
    /\ shown = None \/ DOMAIN open \cap L = {}
    /\ shown \notin L
    /\ IF w \in DOMAIN open
       THEN open' = Only(open, L) /\ focus' = Only(focus, L) /\ UNCHANGED used
       ELSE /\ open' = Set(Only(open, L), w, {used + 1})
            /\ focus' = Set(Only(focus, L), w, used + 1)
            /\ used' = used + 1
    /\ pins' = pins \cap Tabs(open')
    /\ shown' = w

Logout ==
    /\ open' = [w \in {} |-> {}]
    /\ focus' = [w \in {} |-> 0]
    /\ pins' = {}
    /\ shown' = None
    /\ UNCHANGED used

(* The application starts again: the tabs K are left, no other comes back. *)
Restart(K) ==
    /\ open' = [w \in {v \in DOMAIN open : open[v] \cap K # {}} |-> open[w] \cap K]
    /\ \E f \in [DOMAIN open' -> K] :
        /\ \A w \in DOMAIN open' : f[w] \in open'[w] /\ (focus[w] \in K => f[w] = focus[w])
        /\ focus' = f
    /\ pins' = pins \cap K
    /\ IF shown \in DOMAIN open' THEN UNCHANGED shown
       ELSE shown' \in IF DOMAIN open' = {} THEN {None} ELSE DOMAIN open'
    /\ UNCHANGED used

Next ==
    \/ \E w \in Workspaces : Open(w) \/ \E i \in TabsOf(w) : Focus(w, i) \/ Close(w, i)
    \/ \E i \in Tabs(open) : Pin(i)
    \/ \E L \in SUBSET Workspaces : Keep(L) \/ \E w \in L : Enter(L, w)
    \/ Logout
    \/ \E K \in SUBSET Tabs(open) : Restart(K)

Spec == Init /\ [][Next]_tabVars
=============================================================================
