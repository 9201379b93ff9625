------------------------------- MODULE IssueCache -------------------------------
(***************************************************************************)
(* The issue caches of one client: the workspace list, the "my issues"     *)
(* list and the open detail pages (packages/core/issues), kept up to date  *)
(* by optimistic mutations, by events of the websocket and by refetches.   *)
(* An HTTP answer and a websocket event travel on different connections:   *)
(* what a fetch has read may land after the events that follow it.         *)
(*                                                                         *)
(* A row is abstracted to the number of the write that made it, 0 when the *)
(* issue is not there; an optimistic row is the mutation that drafted it.  *)
(* Query entries follow TanStack Query 5 (external): an invalidation of a  *)
(* mounted query refetches, a patch marks the entry as fresh.              *)
(***************************************************************************)
EXTENDS Naturals, Sequences

CONSTANTS
    Issues,
    Lists,        \* lists in use: the workspace list, and perhaps "my issues"
    Pages,        \* issues whose detail page may be open
    Muts,         \* mutations in flight in this client
    MaxWrites,    \* bound: writes committed by the server
    MaxEvents     \* bound: connections lost, sockets replaced, views mounted after
                  \* the first, mutations begun

ASSUME ListsAssumption == {"list"} \subseteq Lists /\ Lists \subseteq {"list", "my"}
ASSUME PagesAssumption == Pages \subseteq Issues
ASSUME MutsAssumption == Muts \cap Nat = {} /\ Issues \cap {"list", "my"} = {}
ASSUME BoundsAssumption == MaxWrites \in Nat /\ MaxEvents \in Nat

VARIABLES
    server,       \* the table of issues
    dead,         \* issues deleted for good
    unsent,       \* events of committed writes that are not published yet
    chan,         \* events on their way to this client
    conn,         \* whether the websocket is authenticated
    before,       \* hasConnectedBefore
    query,        \* the query cache
    mut,          \* mutations in flight
    lapse,        \* history: why an entry may be stale with nothing to refresh it
    writes, events

net  == <<unsent, chan, conn, before>>
bounds == <<writes, events>>
vars == <<server, dead, net, query, mut, lapse, bounds>>

Queries == Lists \cup Pages
Scope(q) == IF q \in Lists THEN Issues ELSE {q}

Rows   == Nat \cup Muts
Table  == [Issues -> Rows]
Absent == [i \in Issues |-> 0]
Event  == [kind : {"created", "updated", "deleted"}, issue : Issues, row : Nat, late : BOOLEAN]
Lapses == {"raced", "cleared", "reordered", "late", "restored"}

(* An entry of the cache; "over" when something was handled after its fetch read. *)
Entry ==
    [has : BOOLEAN, data : Table, invalid : BOOLEAN, mounted : BOOLEAN,
     fetch : {"none", "sent", "read"}, snap : Table, over : BOOLEAN]

NoEntry ==
    [has |-> FALSE, data |-> Absent, invalid |-> FALSE, mounted |-> FALSE,
     fetch |-> "none", snap |-> Absent, over |-> FALSE]

Stages == {"idle", "sent", "ok", "err"}
Kinds  == {"create", "update", "delete"}
Snapshot == [has : BOOLEAN, data : Table]
NoSnapshot == [q \in Queries |-> [has |-> FALSE, data |-> Absent]]
Mutation ==
    [stage : Stages, kind : Kinds, issue : Issues, prev : [Queries -> Snapshot], row : Nat]

Still(m) == mut[m].stage = "idle"

-----------------------------------------------------------------------------
(* The query cache (TanStack Query) *)

Fetching(e) == [e EXCEPT !.fetch = "sent", !.snap = Absent, !.over = FALSE]

(* invalidateQueries: an entry in use is fetched again, unless its first fetch is
   still on its way. *)
Invalidate(e) ==
    IF e.mounted /\ (e.has \/ e.fetch = "none") THEN Fetching([e EXCEPT !.invalid = TRUE])
    ELSE IF e.has THEN [e EXCEPT !.invalid = TRUE] ELSE e

(* setQueryData with an updater that skips an entry without data. The entry counts
   as fresh afterwards; a fetch in flight goes on. *)
Patch(e, d) == IF e.has THEN [e EXCEPT !.data = d, !.invalid = FALSE] ELSE e

Put(e, d) == [e EXCEPT !.has = TRUE, !.data = d, !.invalid = FALSE]

Cancel(e) == [e EXCEPT !.fetch = "none", !.snap = Absent, !.over = FALSE]

Patched(e, i, r) == Patch(e, [e.data EXCEPT ![i] = IF @ = 0 THEN 0 ELSE r])
Added(e, i, r)   == Patch(e, [e.data EXCEPT ![i] = IF @ = 0 THEN r ELSE @])

(* Mutant: the row is cut out of the table itself. *)
PrunedRow(e, i) == Patch(e, [j \in Issues \ {i} |-> e.data[j]])

Pruned(e, i) == Patch(e, [e.data EXCEPT ![i] = 0])

(* What a read fetch will land has been overtaken. *)
Overtaken(e) == IF e.fetch = "read" THEN [e EXCEPT !.over = TRUE] ELSE e

Init ==
    /\ server \in [Issues -> {0, 1}]
    /\ dead = {}
    /\ unsent = {} /\ chan = <<>>
    /\ conn = FALSE /\ before = FALSE
    /\ query = [q \in Queries |->
                  IF q = "list" THEN Fetching([NoEntry EXCEPT !.mounted = TRUE]) ELSE NoEntry]
    /\ \E i \in Issues :
         mut = [m \in Muts |->
                  [stage |-> "idle", kind |-> "update", issue |-> i,
                   prev |-> NoSnapshot, row |-> 0]]
    /\ lapse = [q \in Queries |-> {}]
    /\ writes = 1 /\ events = 0

Bounded == events < MaxEvents /\ events' = events + 1

(* A view that shows the query appears: it fetches what is missing or invalid. *)
Mount(q) ==
    /\ ~ query[q].mounted
    /\ Bounded
    /\ LET e == [query[q] EXCEPT !.mounted = TRUE] IN
         query' = [query EXCEPT ![q] =
                     IF e.fetch = "none" /\ (~ e.has \/ e.invalid) THEN Fetching(e) ELSE e]
    /\ UNCHANGED <<server, dead, net, mut, lapse, writes>>

Unmount(q) ==
    /\ query[q].mounted
    /\ query' = [query EXCEPT ![q] = [@ EXCEPT !.mounted = FALSE]]
    /\ UNCHANGED <<server, dead, net, mut, lapse, bounds>>

(* gcTime after the last view has gone. *)
Collect(q) ==
    /\ ~ query[q].mounted /\ query[q].has /\ query[q].fetch = "none"
    /\ query' = [query EXCEPT ![q] = NoEntry]
    /\ lapse' = [lapse EXCEPT ![q] = {}]
    /\ UNCHANGED <<server, dead, net, mut, bounds>>

(* The server answers a fetch ... *)
Read(q) ==
    /\ query[q].fetch = "sent"
    /\ query' = [query EXCEPT ![q] = [@ EXCEPT !.fetch = "read",
                   !.snap = [i \in Issues |-> IF i \in Scope(q) THEN server[i] ELSE 0]]]
    /\ UNCHANGED <<server, dead, net, mut, lapse, bounds>>

(* ... and the answer arrives; a detail that is not found leaves the old data. *)
Land(q) ==
    /\ query[q].fetch = "read"
    /\ LET e == query[q] IN
         IF q \notin Lists /\ e.snap[q] = 0
           THEN /\ query' = [query EXCEPT ![q] = [Cancel(e) EXCEPT !.invalid = e.has]]
                /\ UNCHANGED lapse
           ELSE /\ query' = [query EXCEPT ![q] = Cancel(Put(e, e.snap))]
                /\ lapse' = [lapse EXCEPT ![q] = IF e.over THEN {"raced"} ELSE {}]
    /\ UNCHANGED <<server, dead, net, mut, bounds>>

-----------------------------------------------------------------------------
(* The server: a handler commits, then publishes (external) *)

Write(kind, i) ==
    /\ writes < MaxWrites
    /\ CASE kind = "created" -> server[i] = 0 /\ i \notin dead
         [] kind = "updated" -> server[i] # 0
         [] kind = "deleted" -> server[i] # 0
    /\ writes' = writes + 1
    /\ server' = [server EXCEPT ![i] = IF kind = "deleted" THEN 0 ELSE writes + 1]
    /\ dead' = IF kind = "deleted" THEN dead \cup {i} ELSE dead
    /\ unsent' = unsent \cup
         {[kind |-> kind, issue |-> i, row |-> writes + 1, late |-> FALSE]}

(* Somebody else's write. *)
Remote ==
    /\ \E kind \in {"created", "updated", "deleted"}, i \in Issues : Write(kind, i)
    /\ UNCHANGED <<chan, conn, before, query, mut, lapse, events>>

(* Handlers publish in any order; an event published after a newer one is late. *)
Publish(e) ==
    /\ e \in unsent
    /\ unsent' = {[f EXCEPT !.late = @ \/ (f.issue = e.issue /\ f.row < e.row)]
                    : f \in unsent \ {e}}
    /\ chan' = IF conn THEN Append(chan, e) ELSE chan
    /\ UNCHANGED <<server, dead, conn, before, query, mut, lapse, bounds>>

-----------------------------------------------------------------------------
(* The websocket *)

(* onIssueCreated, onIssueUpdated, onIssueDeleted (cleanupDeletedIssueCaches). *)
Applied(q, e) ==
    LET c == query[q] IN
    CASE q = "list" ->
           (CASE e.kind = "created" -> Added(c, e.issue, e.row)
              [] e.kind = "updated" -> Patched(c, e.issue, e.row)
              [] e.kind = "deleted" -> Invalidate(Pruned(c, e.issue)))
      [] q = "my" ->
           Invalidate(IF e.kind = "deleted" THEN Pruned(c, e.issue) ELSE c)
      [] q = e.issue ->
           (CASE e.kind = "created" -> c
              [] e.kind = "updated" -> Patched(c, e.issue, e.row)
              [] e.kind = "deleted" -> NoEntry)
      [] OTHER -> c

(* Why the entry may now be stale for good: an old event was patched over a newer
   one, or the patch took the mark of an invalidation that nobody has served. *)
Blame(q, e) ==
    LET c == query[q]  n == Applied(q, e) IN
      {l \in {"reordered", "cleared"} :
         \/ l = "reordered" /\ e.late /\ n.data # c.data
         \/ l = "cleared" /\ c.has /\ n.has /\ c.invalid /\ ~ n.invalid /\ c.fetch = "none"}

Touches(q, e) == e.issue \in Scope(q)

Deliver ==
    /\ chan # <<>>
    /\ LET e == Head(chan) IN
         /\ query' = [q \in Queries |->
                        IF Touches(q, e) THEN Overtaken(Applied(q, e)) ELSE query[q]]
         /\ lapse' = [q \in Queries |->
                        IF Touches(q, e) THEN lapse[q] \cup Blame(q, e) ELSE lapse[q]]
    /\ chan' = Tail(chan)
    /\ UNCHANGED <<server, dead, unsent, conn, before, mut, bounds>>

(* onclose; what was on its way is lost. *)
Drop ==
    /\ conn
    /\ Bounded
    /\ conn' = FALSE
    /\ chan' = <<>>
    /\ UNCHANGED <<server, dead, unsent, before, query, mut, lapse, writes>>

(* Mutant: a reconnection resumes the stream of events only. *)
Resumed == query

(* invalidateWorkspaceScopedQueries: everything under issueKeys.all. *)
Refreshed == [q \in Queries |-> Overtaken(Invalidate(query[q]))]

(* onAuthenticated: only a reconnection refreshes. *)
Connect ==
    /\ ~ conn
    /\ conn' = TRUE
    /\ before' = TRUE
    /\ IF before
         THEN query' = Refreshed /\ UNCHANGED lapse
         ELSE /\ query' = [q \in Queries |-> Overtaken(query[q])]
              /\ lapse' = [q \in Queries |->
                             IF query[q].has THEN lapse[q] \cup {"late"} ELSE lapse[q]]
    /\ UNCHANGED <<server, dead, unsent, chan, mut, bounds>>

(* A new WSClient (the user left the workspace and came back): refreshed when it is
   made, before it is authenticated. *)
Replace ==
    /\ Bounded
    /\ conn' = FALSE
    /\ before' = FALSE
    /\ chan' = <<>>
    /\ query' = Refreshed
    /\ UNCHANGED <<server, dead, unsent, mut, lapse, writes>>

-----------------------------------------------------------------------------
(* Mutations *)

(* The snapshots a failure would put back. *)
Saved(kind, i) ==
    CASE kind = "create" -> {}
      [] kind = "update" -> {"list", i} \cap Queries
      [] kind = "delete" -> (Lists \cup {i}) \cap Queries

Begin(m, kind, i) ==
    /\ Still(m)
    /\ Bounded
    /\ mut' = [mut EXCEPT ![m] =
                 [stage |-> "sent", kind |-> kind, issue |-> i, row |-> 0,
                  prev |-> [q \in Queries |->
                              IF q \in Saved(kind, i)
                                THEN [has |-> query[q].has, data |-> query[q].data]
                                ELSE NoSnapshot[q]]]]

Shown(i) == \E q \in Queries : query[q].has /\ query[q].data[i] # 0

CreateIssue(m, i) ==
    /\ server[i] = 0 /\ i \notin dead
    /\ \A n \in Muts : ~ (mut[n].kind = "create" /\ mut[n].issue = i /\ ~ Still(n))
    /\ Begin(m, "create", i)
    /\ UNCHANGED <<server, dead, net, query, lapse, writes>>

(* useUpdateIssue.onMutate: the list's fetch is cancelled, the detail's is not. *)
UpdateIssue(m, i) ==
    /\ Shown(i)
    /\ Begin(m, "update", i)
    /\ query' = [q \in Queries |->
                   CASE q = "list" -> Patched(Cancel(query[q]), i, m)
                     [] q = i -> Patched(query[q], i, m)
                     [] OTHER -> query[q]]
    /\ UNCHANGED <<server, dead, net, lapse, writes>>

(* useDeleteIssue.onMutate *)
DeleteIssue(m, i) ==
    /\ Shown(i)
    /\ Begin(m, "delete", i)
    /\ query' = [q \in Queries |->
                   CASE q \in Lists -> Pruned(Cancel(query[q]), i)
                     [] q = i -> NoEntry
                     [] OTHER -> query[q]]
    /\ UNCHANGED <<server, dead, net, lapse, writes>>

Verb == [create |-> "created", update |-> "updated", delete |-> "deleted"]

(* The server commits; the answer may get lost. *)
Commit(m) ==
    /\ mut[m].stage = "sent"
    /\ Write(Verb[mut[m].kind], mut[m].issue)
    /\ \E s \in {"ok", "err"} :
         mut' = [mut EXCEPT ![m] = [@ EXCEPT !.stage = s, !.row = writes + 1]]
    /\ UNCHANGED <<chan, conn, before, query, lapse, events>>

(* The server refuses, or never hears of it. *)
Reject(m) ==
    /\ mut[m].stage = "sent"
    /\ mut' = [mut EXCEPT ![m] = [@ EXCEPT !.stage = "err"]]
    /\ UNCHANGED <<server, dead, net, query, lapse, bounds>>

End(m) ==
    mut' = [mut EXCEPT ![m] = [@ EXCEPT !.stage = "idle", !.kind = "update",
                                 !.prev = NoSnapshot, !.row = 0]]

(* onSuccess, then onSettled. *)
Succeeded(m, q) ==
    LET c == query[q]  u == mut[m] IN
    CASE u.kind = "create" ->
           (IF q = "list" THEN Invalidate(Added(c, u.issue, u.row)) ELSE c)
      [] u.kind = "update" ->
           (IF q \in {"list", u.issue} THEN Invalidate(c) ELSE c)
      [] u.kind = "delete" ->
           (IF q \in Lists THEN Invalidate(Pruned(c, u.issue))
            ELSE IF q = u.issue THEN NoEntry ELSE c)

Succeed(m) ==
    /\ mut[m].stage = "ok"
    /\ query' = [q \in Queries |-> Succeeded(m, q)]
    /\ End(m)
    /\ UNCHANGED <<server, dead, net, lapse, bounds>>

(* onError puts the snapshots back. *)
Restored(m, q) == IF mut[m].prev[q].has THEN Put(query[q], mut[m].prev[q].data) ELSE query[q]

(* Mutant: an error puts the snapshots back and leaves it at that. *)
FailedQuietly(m, q) == Restored(m, q)

(* onError, then onSettled: the list is always fetched again. *)
Failed(m, q) ==
    IF q = "list" \/ (q = mut[m].issue /\ mut[m].kind = "update")
      THEN Invalidate(Restored(m, q)) ELSE Restored(m, q)

(* The other caches a failed delete restores are not fetched again. *)
Fail(m) ==
    /\ mut[m].stage = "err"
    /\ query' = [q \in Queries |-> Failed(m, q)]
    /\ lapse' = [q \in Queries |->
                   IF mut[m].kind = "delete" /\ q \in {"my", mut[m].issue} /\ mut[m].prev[q].has
                     THEN lapse[q] \cup {"restored"} ELSE lapse[q]]
    /\ End(m)
    /\ UNCHANGED <<server, dead, net, bounds>>

-----------------------------------------------------------------------------

Mutate(m) ==
    \E i \in Issues : CreateIssue(m, i) \/ UpdateIssue(m, i) \/ DeleteIssue(m, i)

Next ==
    \/ Remote \/ Deliver \/ Drop \/ Connect \/ Replace
    \/ \E e \in unsent : Publish(e)
    \/ \E q \in Queries : Mount(q) \/ Unmount(q) \/ Collect(q) \/ Read(q) \/ Land(q)
    \/ \E m \in Muts : Mutate(m) \/ Commit(m) \/ Reject(m) \/ Succeed(m) \/ Fail(m)

Spec == Init /\ [][Next]_vars

(* Requests are answered, events published and delivered, the socket reconnects. *)
Fairness ==
    /\ WF_vars(Deliver) /\ WF_vars(Connect) /\ WF_vars(\E e \in unsent : Publish(e))
    /\ \A q \in Queries : WF_vars(Read(q)) /\ WF_vars(Land(q))
    /\ \A m \in Muts : WF_vars(Commit(m) \/ Reject(m)) /\ WF_vars(Succeed(m)) /\ WF_vars(Fail(m))

FairSpec == Spec /\ Fairness

-----------------------------------------------------------------------------

TypeOK ==
    /\ server \in [Issues -> Nat]
    /\ dead \subseteq Issues
    /\ unsent \subseteq Event
    /\ chan \in Seq(Event)
    /\ conn \in BOOLEAN /\ before \in BOOLEAN
    /\ query \in [Queries -> Entry]
    /\ mut \in [Muts -> Mutation]
    /\ lapse \in [Queries -> SUBSET Lapses]
    /\ writes \in Nat /\ events \in Nat

Fresh(q, i) == query[q].data[i] = server[i]

Coming(i) == \/ \E e \in unsent : e.issue = i
             \/ \E n \in 1..Len(chan) : chan[n].issue = i

(* Somebody still has to bring the row up to date. *)
Owed(q, i) ==
    \/ query[q].fetch # "none"
    \/ query[q].invalid
    \/ ~ conn
    \/ Coming(i)
    \/ \E m \in Muts : ~ Still(m)

(* A stale row is somebody's debt: an event on its way, a fetch, an invalidation, a
   mutation in flight or a reconnection will replace it. The only ways to be stale for
   good are the five of "lapse". *)
Accounted ==
    \A q \in Queries :
        query[q].has =>
            \A i \in Scope(q) : Fresh(q, i) \/ Owed(q, i) \/ lapse[q] # {}

(* After a reconnection the events missed in between have been recovered ("Reconnect ->
   refetch all data to recover missed events"): with nothing in flight, a mounted list
   whose fetches met no event is the server's. *)
Recovered ==
    (/\ query["list"].mounted /\ query["list"].has
     /\ lapse["list"] \subseteq {"cleared"})
        => \A i \in Issues : Fresh("list", i) \/ Owed("list", i)

(* The list in use converges: optimistic rows of failed mutations, rollbacks over newer
   rows and refetches that undo a pending patch all pass. *)
Converges ==
    <>[](query["list"].mounted /\ lapse["list"] = {})
        => <>[](query["list"].has /\ \A i \in Issues : Fresh("list", i))
=============================================================================
