---------------------------- MODULE IssueCacheProofs ----------------------------
(***************************************************************************)
(* Theorems of IssueCache: types, and that a stale row of the cache is     *)
(* always somebody's debt (Accounted).                                     *)
(*                                                                         *)
(* The second rests on the stream of events.  Whoever writes leaves an     *)
(* event behind, so a row that is not the server's is "caught" by an event *)
(* in flight: the newest one of its issue for a row that is shown, the     *)
(* creation for a row that is missing.  Handling an event either brings    *)
(* the row up to date, or a newer event is still behind it, or the event   *)
(* was published late and "lapse" says so.                                 *)
(***************************************************************************)
EXTENDS IssueCache, TLAPS

(* The events this client is still going to hear of. *)
InFlight == unsent \cup {chan[n] : n \in 1 .. Len(chan)}

(* The event of the last write to its issue. *)
Newest(e) == IF server[e.issue] = 0 THEN e.kind = "deleted" ELSE e.row = server[e.issue]

(* What the events in flight say of the table: their rows are writes of the past, the
   creation is the first of an issue and the deletion the last. *)
Ledger ==
    /\ \A e \in InFlight :
          /\ e.row # 0 /\ e.row <= writes
          /\ server[e.issue] # 0 => e.row <= server[e.issue] /\ e.kind # "deleted"
          /\ server[e.issue] = 0 => e.issue \in dead
    /\ \A i \in dead : server[i] = 0
    /\ \A e, f \in InFlight :
          e.issue = f.issue => /\ e.kind = "created" => e.row <= f.row
                               /\ e.kind = "deleted" => f.row <= e.row
    /\ \A e, f \in unsent : e.row = f.row => e = f

(* An event that is not late has the newest one of its issue beside or behind it. *)
Order ==
    /\ ~ conn => chan = <<>>
    /\ \A e \in unsent :
          ~ e.late => \E f \in unsent : f.issue = e.issue /\ Newest(f)
    /\ \A n \in 1 .. Len(chan) :
          ~ chan[n].late =>
             \/ \E f \in unsent : f.issue = chan[n].issue /\ Newest(f)
             \/ \E k \in n .. Len(chan) : chan[k].issue = chan[n].issue /\ Newest(chan[k])

(* The row d is the server's, or the stream will make it so. *)
Caught(d, i) ==
    \/ d = server[i]
    \/ d # 0 /\ \E e \in InFlight : e.issue = i /\ Newest(e) /\ e.kind # "created"
    \/ d = 0 /\ \E e \in InFlight : e.issue = i /\ e.kind = "created"

(* The mutation has drafted a row of the entry, and will refetch it or roll it back. *)
Dirties(m, q) ==
    \/ ~ Still(m) /\ mut[m].kind = "update" /\ q \in {"list", mut[m].issue}
    \/ ~ Still(m) /\ mut[m].kind = "delete" /\ (q = "list" \/ mut[m].prev[q].has)

Excused(q) ==
    \/ query[q].fetch # "none"
    \/ query[q].invalid
    \/ lapse[q] # {}
    \/ \E m \in Muts : Dirties(m, q)

(* While the socket is up, what an entry shows and what a read fetch will land are
   caught by the stream, unless there is an excuse. *)
CleanData(q) ==
    query[q].has /\ ~ Excused(q) => \A i \in Scope(q) : Caught(query[q].data[i], i)

CleanSnap(q) ==
    query[q].fetch = "read" /\ ~ query[q].over =>
        \A i \in Scope(q) : Caught(query[q].snap[i], i)

Clean == conn => \A q \in Queries : CleanData(q) /\ CleanSnap(q)

(* A mutation puts back only what it has saved, and a detail page always has a row. *)
Drafts ==
    /\ \A m \in Muts, q \in Queries :
          mut[m].prev[q].has => q \in Saved(mut[m].kind, mut[m].issue)
    /\ \A q \in Pages : query[q].has => query[q].data[q] # 0
    /\ \A m \in Muts, q \in Pages : mut[m].prev[q].has => mut[m].prev[q].data[q] # 0

ICache == Ledger /\ Order /\ Drafts /\ Clean

-----------------------------------------------------------------------------
(* The operators on entries *)

LEMMA NamesApart ==
  /\ \A q \in Pages : q \in Issues /\ q # "list" /\ q # "my" /\ q \notin Lists
  /\ \A q \in Lists : q \notin Issues /\ q \notin Pages
  /\ \A q \in Lists : q = "list" \/ q = "my"
  /\ "list" \in Lists
BY ListsAssumption, PagesAssumption, MutsAssumption

LEMMA AbsentType == Absent \in Table
BY DEF Absent, Table, Rows

LEMMA NoEntryType == NoEntry \in Entry
BY AbsentType DEF NoEntry, Entry

(* Fetching: the entry waits for an answer and keeps its data. *)
LEMMA FetchingFacts ==
  ASSUME NEW e \in Entry
  PROVE  /\ Fetching(e) \in Entry
         /\ Fetching(e).fetch = "sent"
         /\ Fetching(e).has = e.has /\ Fetching(e).data = e.data
         /\ Fetching(e).invalid = e.invalid /\ Fetching(e).mounted = e.mounted
BY AbsentType DEF Fetching, Entry

(* Invalidate: an entry with data is refetched or marked; a fetch that has read is
   dropped or goes on as it was. *)
LEMMA InvalidateFacts ==
  ASSUME NEW e \in Entry
  PROVE  /\ Invalidate(e) \in Entry
         /\ Invalidate(e).has = e.has /\ Invalidate(e).data = e.data
         /\ e.has => Invalidate(e).fetch # "none" \/ Invalidate(e).invalid
         /\ Invalidate(e).fetch = "read" =>
               e.fetch = "read" /\ Invalidate(e).over = e.over /\ Invalidate(e).snap = e.snap
<1>1. CASE e.mounted /\ (e.has \/ e.fetch = "none")
  <2>1. [e EXCEPT !.invalid = TRUE] \in Entry
    BY DEF Entry
  <2>2. Invalidate(e) = Fetching([e EXCEPT !.invalid = TRUE])
    BY <1>1 DEF Invalidate
  <2>3. /\ [e EXCEPT !.invalid = TRUE].has = e.has
        /\ [e EXCEPT !.invalid = TRUE].data = e.data
    BY DEF Entry
  <2> QED BY <2>1, <2>2, <2>3, FetchingFacts
<1>2. CASE ~ (e.mounted /\ (e.has \/ e.fetch = "none")) /\ e.has
  BY <1>2 DEF Invalidate, Entry
<1>3. CASE ~ (e.mounted /\ (e.has \/ e.fetch = "none")) /\ ~ e.has
  BY <1>3 DEF Invalidate, Entry
<1> QED BY <1>1, <1>2, <1>3

(* Patch: new data and no mark on an entry with data, nothing else. *)
LEMMA PatchFacts ==
  ASSUME NEW e \in Entry, NEW d \in Table
  PROVE  /\ Patch(e, d) \in Entry
         /\ Patch(e, d).has = e.has
         /\ e.has => Patch(e, d).data = d /\ ~ Patch(e, d).invalid
         /\ ~ e.has => Patch(e, d) = e
         /\ Patch(e, d).fetch = e.fetch /\ Patch(e, d).over = e.over
         /\ Patch(e, d).snap = e.snap
BY DEF Patch, Entry

LEMMA PutFacts ==
  ASSUME NEW e \in Entry, NEW d \in Table
  PROVE  /\ Put(e, d) \in Entry
         /\ Put(e, d).has /\ Put(e, d).data = d /\ ~ Put(e, d).invalid
         /\ Put(e, d).fetch = e.fetch /\ Put(e, d).over = e.over /\ Put(e, d).snap = e.snap
BY DEF Put, Entry

LEMMA CancelFacts ==
  ASSUME NEW e \in Entry
  PROVE  /\ Cancel(e) \in Entry
         /\ Cancel(e).fetch = "none"
         /\ Cancel(e).has = e.has /\ Cancel(e).data = e.data
         /\ Cancel(e).invalid = e.invalid
BY AbsentType DEF Cancel, Entry

(* Overtaken: only the note that the answer has been overtaken. *)
LEMMA OvertakenFacts ==
  ASSUME NEW e \in Entry
  PROVE  /\ Overtaken(e) \in Entry
         /\ Overtaken(e).has = e.has /\ Overtaken(e).data = e.data
         /\ Overtaken(e).invalid = e.invalid /\ Overtaken(e).fetch = e.fetch
         /\ Overtaken(e).fetch = "read" => Overtaken(e).over
BY DEF Overtaken, Entry

(* The three patches of one row. *)
LEMMA RowPatches ==
  ASSUME NEW e \in Entry, NEW i \in Issues, NEW r \in Rows
  PROVE  /\ [e.data EXCEPT ![i] = IF @ = 0 THEN 0 ELSE r] \in Table
         /\ [e.data EXCEPT ![i] = IF @ = 0 THEN r ELSE @] \in Table
         /\ [e.data EXCEPT ![i] = 0] \in Table
<1>1. e.data \in [Issues -> Rows] /\ 0 \in Rows
  BY DEF Entry, Table, Rows
<1> QED BY <1>1 DEF Table

LEMMA PatchedFacts ==
  ASSUME NEW e \in Entry, NEW i \in Issues, NEW r \in Rows
  PROVE  /\ Patched(e, i, r) \in Entry
         /\ Patched(e, i, r).has = e.has
         /\ e.has => /\ ~ Patched(e, i, r).invalid
                     /\ \A j \in Issues : Patched(e, i, r).data[j] =
                           IF j = i /\ e.data[i] # 0 THEN r ELSE e.data[j]
         /\ ~ e.has => Patched(e, i, r) = e
         /\ Patched(e, i, r).fetch = e.fetch /\ Patched(e, i, r).over = e.over
         /\ Patched(e, i, r).snap = e.snap
<1> DEFINE d == [e.data EXCEPT ![i] = IF @ = 0 THEN 0 ELSE r]
<1>1. d \in Table
  BY RowPatches
<1>2. e.data \in [Issues -> Rows]
  BY DEF Entry, Table
<1>3. \A j \in Issues : d[j] = IF j = i /\ e.data[i] # 0 THEN r ELSE e.data[j]
  BY <1>2
<1>4. Patched(e, i, r) = Patch(e, d)
  BY DEF Patched
<1> HIDE DEF d
<1> QED BY <1>1, <1>3, <1>4, PatchFacts

LEMMA AddedFacts ==
  ASSUME NEW e \in Entry, NEW i \in Issues, NEW r \in Rows
  PROVE  /\ Added(e, i, r) \in Entry
         /\ Added(e, i, r).has = e.has
         /\ e.has => /\ ~ Added(e, i, r).invalid
                     /\ \A j \in Issues : Added(e, i, r).data[j] =
                           IF j = i /\ e.data[i] = 0 THEN r ELSE e.data[j]
         /\ ~ e.has => Added(e, i, r) = e
         /\ Added(e, i, r).fetch = e.fetch /\ Added(e, i, r).over = e.over
         /\ Added(e, i, r).snap = e.snap
<1> DEFINE d == [e.data EXCEPT ![i] = IF @ = 0 THEN r ELSE @]
<1>1. d \in Table
  BY RowPatches
<1>2. e.data \in [Issues -> Rows]
  BY DEF Entry, Table
<1>3. \A j \in Issues : d[j] = IF j = i /\ e.data[i] = 0 THEN r ELSE e.data[j]
  BY <1>2
<1>4. Added(e, i, r) = Patch(e, d)
  BY DEF Added
<1> HIDE DEF d
<1> QED BY <1>1, <1>3, <1>4, PatchFacts

LEMMA PrunedFacts ==
  ASSUME NEW e \in Entry, NEW i \in Issues
  PROVE  /\ Pruned(e, i) \in Entry
         /\ Pruned(e, i).has = e.has
         /\ Pruned(e, i).fetch = e.fetch /\ Pruned(e, i).over = e.over
         /\ Pruned(e, i).snap = e.snap
<1>1. [e.data EXCEPT ![i] = 0] \in Table
  BY RowPatches DEF Rows
<1> QED BY <1>1, PatchFacts DEF Pruned

-----------------------------------------------------------------------------
(* Types *)

LEMMA QueriesFinite == Queries \subseteq Issues \cup {"list", "my"}
BY NamesApart DEF Queries

(* What is read of the server for an entry is a table. *)
LEMMA SnapType ==
  ASSUME server \in [Issues -> Nat], NEW q
  PROVE  [i \in Issues |-> IF i \in Scope(q) THEN server[i] ELSE 0] \in Table
BY DEF Table, Rows

(* The handlers of an event, entry by entry. *)
LEMMA AppliedCases ==
  ASSUME NEW q \in Queries, NEW e \in Event
  PROVE  /\ q = "list" /\ e.kind = "created" =>
               Applied(q, e) = Added(query[q], e.issue, e.row)
         /\ q = "list" /\ e.kind = "updated" =>
               Applied(q, e) = Patched(query[q], e.issue, e.row)
         /\ q = "list" /\ e.kind = "deleted" =>
               Applied(q, e) = Invalidate(Pruned(query[q], e.issue))
         /\ q = "my" /\ e.kind = "deleted" =>
               Applied(q, e) = Invalidate(Pruned(query[q], e.issue))
         /\ q = "my" /\ e.kind # "deleted" => Applied(q, e) = Invalidate(query[q])
         /\ q = e.issue /\ e.kind = "created" => Applied(q, e) = query[q]
         /\ q = e.issue /\ e.kind = "updated" =>
               Applied(q, e) = Patched(query[q], e.issue, e.row)
         /\ q = e.issue /\ e.kind = "deleted" => Applied(q, e) = NoEntry
         /\ q \notin {"list", "my", e.issue} => Applied(q, e) = query[q]
<1>1. e.issue # "list" /\ e.issue # "my"
  BY MutsAssumption DEF Event
<1>2. e.kind \in {"created", "updated", "deleted"}
  BY DEF Event
<1>3. CASE q = "list"
  BY <1>1, <1>2, <1>3 DEF Applied
<1>4. CASE q = "my"
  BY <1>1, <1>2, <1>4 DEF Applied
<1>5. CASE q = e.issue
  BY <1>1, <1>2, <1>5 DEF Applied
<1>6. CASE q \notin {"list", "my", e.issue}
  BY <1>6 DEF Applied
<1> QED BY <1>3, <1>4, <1>5, <1>6

LEMMA AppliedType ==
  ASSUME TypeOK, NEW q \in Queries, NEW e \in Event
  PROVE  Applied(q, e) \in Entry
<1>1. query[q] \in Entry /\ e.issue \in Issues /\ e.row \in Rows
  BY DEF TypeOK, Event, Rows
<1>2. e.kind \in {"created", "updated", "deleted"}
  BY DEF Event
<1>3. /\ Added(query[q], e.issue, e.row) \in Entry
      /\ Patched(query[q], e.issue, e.row) \in Entry
      /\ Pruned(query[q], e.issue) \in Entry
      /\ Invalidate(Pruned(query[q], e.issue)) \in Entry
      /\ Invalidate(query[q]) \in Entry
  BY <1>1, AddedFacts, PatchedFacts, PrunedFacts, InvalidateFacts
<1> QED BY <1>1, <1>2, <1>3, AppliedCases, NoEntryType

LEMMA PrevType ==
  ASSUME TypeOK, NEW m \in Muts, NEW q \in Queries
  PROVE  /\ mut[m].prev[q].has \in BOOLEAN
         /\ mut[m].prev[q].data \in Table
         /\ mut[m].issue \in Issues /\ mut[m].kind \in Kinds /\ mut[m].stage \in Stages
         /\ mut[m].row \in Rows
BY DEF TypeOK, Mutation, Snapshot, Rows

LEMMA SucceededType ==
  ASSUME TypeOK, NEW m \in Muts, NEW q \in Queries
  PROVE  Succeeded(m, q) \in Entry
<1>1. /\ query[q] \in Entry
      /\ mut[m].issue \in Issues /\ mut[m].kind \in Kinds /\ mut[m].row \in Rows
  BY PrevType DEF TypeOK
<1>2. /\ Added(query[q], mut[m].issue, mut[m].row) \in Entry
      /\ Invalidate(Added(query[q], mut[m].issue, mut[m].row)) \in Entry
      /\ Pruned(query[q], mut[m].issue) \in Entry
      /\ Invalidate(Pruned(query[q], mut[m].issue)) \in Entry
      /\ Invalidate(query[q]) \in Entry
  BY <1>1, AddedFacts, PrunedFacts, InvalidateFacts
<1> QED BY <1>1, <1>2, NoEntryType DEF Succeeded, Kinds

LEMMA RestoredType ==
  ASSUME TypeOK, NEW m \in Muts, NEW q \in Queries
  PROVE  Restored(m, q) \in Entry /\ Failed(m, q) \in Entry
<1>1. query[q] \in Entry /\ mut[m].prev[q].data \in Table
  BY PrevType DEF TypeOK
<1>2. Restored(m, q) \in Entry
  BY <1>1, PutFacts DEF Restored
<1> QED BY <1>2, InvalidateFacts DEF Failed

LEMMA InitTypeOK == Init => TypeOK
<1> SUFFICES ASSUME Init PROVE TypeOK
  OBVIOUS
<1>1. [NoEntry EXCEPT !.mounted = TRUE] \in Entry
  BY NoEntryType DEF Entry
<1>2. Fetching([NoEntry EXCEPT !.mounted = TRUE]) \in Entry
  BY <1>1, FetchingFacts
<1>3. query \in [Queries -> Entry]
  BY <1>2, NoEntryType DEF Init
<1>4. NoSnapshot \in [Queries -> Snapshot]
  BY AbsentType DEF NoSnapshot, Snapshot
<1>5. mut \in [Muts -> Mutation]
  BY <1>4 DEF Init, Mutation, Stages, Kinds
<1>6. server \in [Issues -> Nat] /\ chan \in Seq(Event)
  BY DEF Init
<1>7. lapse \in [Queries -> SUBSET Lapses]
  BY DEF Init
<1> QED BY <1>3, <1>5, <1>6, <1>7 DEF Init, TypeOK

(* A write, and the event it leaves to be published. *)
LEMMA WriteType ==
  ASSUME TypeOK, NEW kind \in {"created", "updated", "deleted"}, NEW i \in Issues, Write(kind, i)
  PROVE  /\ server' \in [Issues -> Nat] /\ dead' \subseteq Issues
         /\ unsent' \subseteq Event /\ writes' \in Nat
<1>1. [kind |-> kind, issue |-> i, row |-> writes + 1, late |-> FALSE] \in Event
  BY DEF TypeOK, Event
<1>2. server' \in [Issues -> Nat]
  BY DEF TypeOK, Write
<1>3. dead' \subseteq Issues
  BY DEF TypeOK, Write
<1>4. unsent' \subseteq Event
  BY <1>1 DEF TypeOK, Write
<1>5. writes' \in Nat
  BY DEF TypeOK, Write
<1> QED BY <1>2, <1>3, <1>4, <1>5

LEMMA PublishType ==
  ASSUME TypeOK, NEW e \in unsent, Publish(e)
  PROVE  unsent' \subseteq Event /\ chan' \in Seq(Event)
<1>1. e \in Event
  BY DEF TypeOK
<1>2. chan' \in Seq(Event)
  BY <1>1 DEF TypeOK, Publish
<1>3. ASSUME NEW f \in unsent
      PROVE  [f EXCEPT !.late = @ \/ (f.issue = e.issue /\ f.row < e.row)] \in Event
  BY DEF TypeOK, Event
<1> QED BY <1>2, <1>3 DEF Publish

(* A mutation begins with a snapshot of the entries it drafts. *)
LEMMA BeginType ==
  ASSUME TypeOK, NEW m \in Muts, NEW kind \in Kinds, NEW i \in Issues, Begin(m, kind, i)
  PROVE  mut' \in [Muts -> Mutation] /\ events' \in Nat
<1> DEFINE p == [q \in Queries |->
                  IF q \in Saved(kind, i)
                    THEN [has |-> query[q].has, data |-> query[q].data] ELSE NoSnapshot[q]]
<1>1. ASSUME NEW q \in Queries PROVE p[q] \in Snapshot
  <2>1. query[q].has \in BOOLEAN /\ query[q].data \in Table
    BY DEF TypeOK, Entry
  <2> QED BY <2>1, AbsentType DEF NoSnapshot, Snapshot
<1>2. p \in [Queries -> Snapshot]
  BY <1>1
<1>3. mut' = [mut EXCEPT ![m] = [stage |-> "sent", kind |-> kind, issue |-> i, row |-> 0,
                                 prev |-> p]]
  BY DEF Begin
<1> HIDE DEF p
<1>4. [stage |-> "sent", kind |-> kind, issue |-> i, row |-> 0, prev |-> p] \in Mutation
  BY <1>2 DEF Mutation, Stages
<1> QED BY <1>3, <1>4 DEF TypeOK, Begin, Bounded

LEMMA StageType ==
  ASSUME TypeOK, NEW m \in Muts, NEW s \in Stages, NEW r \in Nat
  PROVE  /\ [mut EXCEPT ![m] = [@ EXCEPT !.stage = s, !.row = r]] \in [Muts -> Mutation]
         /\ [mut EXCEPT ![m] = [@ EXCEPT !.stage = s]] \in [Muts -> Mutation]
<1>1. mut[m] \in Mutation /\ mut \in [Muts -> Mutation]
  BY DEF TypeOK
<1>2. [mut[m] EXCEPT !.stage = s, !.row = r] \in Mutation
  BY <1>1 DEF Mutation
<1>3. [mut[m] EXCEPT !.stage = s] \in Mutation
  BY <1>1 DEF Mutation
<1> QED BY <1>1, <1>2, <1>3

LEMMA EndType ==
  ASSUME TypeOK, NEW m \in Muts, End(m)
  PROVE  mut' \in [Muts -> Mutation]
<1>1. mut[m] \in Mutation /\ mut \in [Muts -> Mutation]
  BY DEF TypeOK
<1>2. NoSnapshot \in [Queries -> Snapshot]
  BY AbsentType DEF NoSnapshot, Snapshot
<1>3. [mut[m] EXCEPT !.stage = "idle", !.kind = "update", !.prev = NoSnapshot, !.row = 0]
        \in Mutation
  BY <1>1, <1>2 DEF Mutation, Stages, Kinds
<1> QED BY <1>1, <1>3 DEF End

LEMMA RefreshedType ==
  ASSUME TypeOK
  PROVE  Refreshed \in [Queries -> Entry] /\ [q \in Queries |-> Overtaken(query[q])] \in [Queries -> Entry]
<1>1. ASSUME NEW q \in Queries
      PROVE  Overtaken(Invalidate(query[q])) \in Entry /\ Overtaken(query[q]) \in Entry
  BY InvalidateFacts, OvertakenFacts DEF TypeOK
<1> QED BY <1>1 DEF Refreshed

(* Steps of an entry alone. *)
LEMMA EntryStepType ==
  ASSUME TypeOK, NEW q \in Queries,
         Mount(q) \/ Unmount(q) \/ Collect(q) \/ Read(q) \/ Land(q)
  PROVE  TypeOK'
<1> USE DEF TypeOK
<1>0. query[q] \in Entry /\ query \in [Queries -> Entry]
  OBVIOUS
<1>1. CASE Mount(q)
  <2>1. [query[q] EXCEPT !.mounted = TRUE] \in Entry
    BY <1>0 DEF Entry
  <2>2. Fetching([query[q] EXCEPT !.mounted = TRUE]) \in Entry
    BY <2>1, FetchingFacts
  <2>3. query' \in [Queries -> Entry]
    BY <1>0, <1>1, <2>1, <2>2 DEF Mount
  <2> QED BY <1>1, <2>3 DEF Mount, Bounded, net
<1>2. CASE Unmount(q)
  <2>1. [query[q] EXCEPT !.mounted = FALSE] \in Entry
    BY <1>0 DEF Entry
  <2>2. query' \in [Queries -> Entry]
    BY <1>0, <1>2, <2>1 DEF Unmount
  <2> QED BY <1>2, <2>2 DEF Unmount, net, bounds
<1>3. CASE Collect(q)
  <2>1. query' \in [Queries -> Entry]
    BY <1>0, <1>3, NoEntryType DEF Collect
  <2>2. lapse' \in [Queries -> SUBSET Lapses]
    BY <1>3 DEF Collect
  <2> QED BY <1>3, <2>1, <2>2 DEF Collect, net, bounds
<1>4. CASE Read(q)
  <2> DEFINE s == [i \in Issues |-> IF i \in Scope(q) THEN server[i] ELSE 0]
  <2>1. s \in Table
    BY SnapType
  <2> HIDE DEF s
  <2>2. [query[q] EXCEPT !.fetch = "read", !.snap = s] \in Entry
    BY <1>0, <2>1 DEF Entry
  <2>3. query' = [query EXCEPT ![q] = [@ EXCEPT !.fetch = "read", !.snap = s]]
    BY <1>4 DEF Read, s
  <2>4. query' \in [Queries -> Entry]
    BY <1>0, <2>2, <2>3
  <2> QED BY <1>4, <2>4 DEF Read, net, bounds
<1>5. CASE Land(q)
  <2>1. query[q].snap \in Table /\ query[q].has \in BOOLEAN
    BY <1>0 DEF Entry
  <2>2. Cancel(query[q]) \in Entry /\ Cancel(Put(query[q], query[q].snap)) \in Entry
    BY <1>0, <2>1, PutFacts, CancelFacts
  <2>3. [Cancel(query[q]) EXCEPT !.invalid = query[q].has] \in Entry
    BY <2>1, <2>2 DEF Entry
  <2>4. query' \in [Queries -> Entry] /\ lapse' \in [Queries -> SUBSET Lapses]
    <3>1. CASE q \notin Lists /\ query[q].snap[q] = 0
      BY <1>0, <1>5, <2>3, <3>1 DEF Land
    <3>2. CASE ~ (q \notin Lists /\ query[q].snap[q] = 0)
      BY <1>0, <1>5, <2>2, <3>2 DEF Land, Lapses
    <3> QED BY <3>1, <3>2
  <2> QED BY <1>5, <2>4 DEF Land, net, bounds
<1> QED BY <1>1, <1>2, <1>3, <1>4, <1>5

(* Steps of the socket. *)
LEMMA NetStepType ==
  ASSUME TypeOK, Remote \/ Deliver \/ Drop \/ Connect \/ Replace
                   \/ \E e \in unsent : Publish(e)
  PROVE  TypeOK'
<1> USE DEF TypeOK
<1>1. CASE Remote
  BY <1>1, WriteType DEF Remote
<1>2. CASE Deliver
  <2>1. Head(chan) \in Event /\ Tail(chan) \in Seq(Event)
    BY <1>2 DEF Deliver
  <2>2. ASSUME NEW q \in Queries
        PROVE  /\ Overtaken(Applied(q, Head(chan))) \in Entry
               /\ lapse[q] \cup Blame(q, Head(chan)) \in SUBSET Lapses
    <3>1. Overtaken(Applied(q, Head(chan))) \in Entry
      BY <2>1, AppliedType, OvertakenFacts
    <3>2. Blame(q, Head(chan)) \subseteq Lapses
      BY DEF Blame, Lapses
    <3> QED BY <3>1, <3>2
  <2>3. query' \in [Queries -> Entry]
    BY <1>2, <2>2 DEF Deliver
  <2>4. lapse' \in [Queries -> SUBSET Lapses]
    BY <1>2, <2>2 DEF Deliver
  <2> QED BY <1>2, <2>1, <2>3, <2>4 DEF Deliver, bounds
<1>3. CASE Drop
  <2>0. chan' = <<>>
    BY <1>3 DEF Drop
  <2>1. events' \in Nat
    BY <1>3 DEF Drop, Bounded
  <2>3. conn' = FALSE
    BY <1>3 DEF Drop
  <2>2. chan' \in Seq(Event)
    BY <2>0
  <2> QED BY <1>3, <2>1, <2>2, <2>3 DEF Drop
<1>4. CASE Connect
  <2>1. query' \in [Queries -> Entry]
    BY <1>4, RefreshedType DEF Connect
  <2>2. lapse' \in [Queries -> SUBSET Lapses]
    <3>1. CASE before
      BY <1>4, <3>1 DEF Connect
    <3>2. CASE ~ before
      <4>1. ASSUME NEW q \in Queries PROVE lapse[q] \cup {"late"} \in SUBSET Lapses
        BY DEF Lapses
      <4> QED BY <1>4, <3>2, <4>1 DEF Connect
    <3> QED BY <3>1, <3>2
  <2>3. conn' \in BOOLEAN /\ before' \in BOOLEAN
    BY <1>4 DEF Connect
  <2> QED BY <1>4, <2>1, <2>2, <2>3 DEF Connect, bounds
<1>5. CASE Replace
  <2>0. chan' = <<>>
    BY <1>5 DEF Replace
  <2>1. events' \in Nat
    BY <1>5 DEF Replace, Bounded
  <2>3. conn' = FALSE /\ before' = FALSE
    BY <1>5 DEF Replace
  <2>2. chan' \in Seq(Event)
    BY <2>0
  <2> QED BY <1>5, <2>1, <2>2, <2>3, RefreshedType DEF Replace
<1>6. ASSUME NEW e \in unsent, Publish(e) PROVE TypeOK'
  BY <1>6, PublishType DEF Publish, bounds
<1> QED BY <1>1, <1>2, <1>3, <1>4, <1>5, <1>6

(* Steps of a mutation. *)
LEMMA MutStepType ==
  ASSUME TypeOK, NEW m \in Muts,
         Mutate(m) \/ Commit(m) \/ Reject(m) \/ Succeed(m) \/ Fail(m)
  PROVE  TypeOK'
<1> USE DEF TypeOK
<1>0. ASSUME NEW q \in Queries, NEW i \in Issues
      PROVE  /\ query[q] \in Entry
             /\ Patched(Cancel(query[q]), i, m) \in Entry
             /\ Patched(query[q], i, m) \in Entry
             /\ Pruned(Cancel(query[q]), i) \in Entry
  BY CancelFacts, PatchedFacts, PrunedFacts DEF Rows
<1>1. ASSUME NEW i \in Issues, CreateIssue(m, i) PROVE TypeOK'
  BY <1>1, BeginType DEF CreateIssue, net, Kinds
<1>2. ASSUME NEW i \in Issues, UpdateIssue(m, i) PROVE TypeOK'
  <2>1. query' \in [Queries -> Entry]
    BY <1>0, <1>2 DEF UpdateIssue
  <2> QED BY <1>2, <2>1, BeginType DEF UpdateIssue, net, Kinds
<1>3. ASSUME NEW i \in Issues, DeleteIssue(m, i) PROVE TypeOK'
  <2>1. query' \in [Queries -> Entry]
    BY <1>0, <1>3, NoEntryType DEF DeleteIssue
  <2> QED BY <1>3, <2>1, BeginType DEF DeleteIssue, net, Kinds
<1>4. CASE Commit(m)
  <2>1. mut[m].kind \in Kinds /\ mut[m].issue \in Issues
    BY DEF Mutation
  <2>2. Verb[mut[m].kind] \in {"created", "updated", "deleted"}
    BY <2>1 DEF Verb, Kinds
  <2>3. mut' \in [Muts -> Mutation]
    <3>1. PICK s \in {"ok", "err"} :
            mut' = [mut EXCEPT ![m] = [@ EXCEPT !.stage = s, !.row = writes + 1]]
      BY <1>4 DEF Commit
    <3>2. s \in Stages /\ writes + 1 \in Nat
      BY DEF Stages
    <3> QED BY <3>1, <3>2, StageType
  <2> QED BY <1>4, <2>1, <2>2, <2>3, WriteType DEF Commit
<1>5. CASE Reject(m)
  BY <1>5, StageType DEF Reject, net, bounds, Stages
<1>6. CASE Succeed(m)
  BY <1>6, SucceededType, EndType DEF Succeed, net, bounds
<1>7. CASE Fail(m)
  <2>1. query' \in [Queries -> Entry]
    BY <1>7, RestoredType DEF Fail
  <2>2. lapse' \in [Queries -> SUBSET Lapses]
    BY <1>7 DEF Fail, Lapses
  <2> QED BY <1>7, <2>1, <2>2, EndType DEF Fail, net, bounds
<1> QED BY <1>1, <1>2, <1>3, <1>4, <1>5, <1>6, <1>7 DEF Mutate

LEMMA NextTypeOK == TypeOK /\ [Next]_vars => TypeOK'
<1> SUFFICES ASSUME TypeOK, [Next]_vars PROVE TypeOK'
  OBVIOUS
<1>1. CASE Next
  BY <1>1, NetStepType, EntryStepType, MutStepType DEF Next
<1>2. CASE UNCHANGED vars
  BY <1>2 DEF TypeOK, vars, net, bounds
<1> QED BY <1>1, <1>2

(* Every state has the shapes the client's code relies on: whatever is patched, restored
   or fetched, an entry stays a row for every issue. *)
THEOREM TypeCorrect == Spec => []TypeOK
BY InitTypeOK, NextTypeOK, PTL DEF Spec

-----------------------------------------------------------------------------
(* The stream of events *)

LEMMA InFlightType ==
  ASSUME TypeOK
  PROVE  InFlight \subseteq Event
BY DEF TypeOK, InFlight

(* A write adds its event, which is the newest of its issue. *)
LEMMA WriteAdds ==
  ASSUME TypeOK, NEW kind \in {"created", "updated", "deleted"}, NEW i \in Issues,
         Write(kind, i), UNCHANGED chan
  PROVE  \E n \in unsent' :
            /\ n.kind = kind /\ n.issue = i /\ n.row = writes + 1 /\ ~ n.late
            /\ unsent' = unsent \cup {n}
            /\ InFlight' = InFlight \cup {n}
            /\ Newest(n)'
<1>0. [kind |-> kind, issue |-> i, row |-> writes + 1, late |-> FALSE] \in Event
  BY DEF TypeOK, Event
<1>1. PICK n \in Event : n = [kind |-> kind, issue |-> i, row |-> writes + 1, late |-> FALSE]
  BY <1>0
<1>2. n.kind = kind /\ n.issue = i /\ n.row = writes + 1 /\ ~ n.late
  BY <1>1
<1>3. unsent' = unsent \cup {n}
  BY <1>1 DEF Write
<1>4. server'[i] = (IF kind = "deleted" THEN 0 ELSE writes + 1) /\ writes + 1 # 0
  BY DEF Write, TypeOK
<1>5. Newest(n)'
  BY <1>2, <1>4 DEF Newest
<1>6. InFlight' = InFlight \cup {n}
  BY <1>3 DEF InFlight
<1>7. n \in unsent'
  BY <1>3
<1> QED BY <1>2, <1>3, <1>5, <1>6, <1>7

(* The rest of the table is as it was. *)
LEMMA WriteElse ==
  ASSUME TypeOK, NEW kind \in {"created", "updated", "deleted"}, NEW i \in Issues,
         Write(kind, i)
  PROVE  /\ \A j \in Issues : j # i => server'[j] = server[j]
         /\ server'[i] = IF kind = "deleted" THEN 0 ELSE writes + 1
         /\ dead' = IF kind = "deleted" THEN dead \cup {i} ELSE dead
         /\ kind = "created" => server[i] = 0 /\ i \notin dead
         /\ kind # "created" => server[i] # 0
         /\ writes' = writes + 1
BY DEF Write, TypeOK

LEMMA WriteLedger ==
  ASSUME TypeOK, Ledger, NEW kind \in {"created", "updated", "deleted"}, NEW i \in Issues,
         Write(kind, i), UNCHANGED chan
  PROVE  Ledger'
<1>1. PICK n \in unsent' :
            /\ n.kind = kind /\ n.issue = i /\ n.row = writes + 1
            /\ unsent' = unsent \cup {n}
            /\ InFlight' = InFlight \cup {n}
  BY WriteAdds
<1>2. ASSUME NEW e \in InFlight PROVE e \in Event /\ e.row \in Nat /\ e.issue \in Issues
  BY <1>2, InFlightType DEF Event
<1>0. writes \in Nat /\ server \in [Issues -> Nat] /\ dead \subseteq Issues
  BY DEF TypeOK
<1>3. \A e \in InFlight' : e.row # 0 /\ e.row <= writes'
  BY <1>0, <1>1, <1>2, WriteElse DEF Ledger
<1>4. ASSUME NEW e \in InFlight'
      PROVE  /\ server'[e.issue] # 0 => e.row <= server'[e.issue] /\ e.kind # "deleted"
             /\ server'[e.issue] = 0 => e.issue \in dead'
  <2>1. CASE e = n
    BY <1>0, <1>1, <2>1, WriteElse
  <2>2. CASE e \in InFlight /\ e.issue # i
    BY <1>2, <2>2, WriteElse DEF Ledger
  <2>3. CASE e \in InFlight /\ e.issue = i
    <3>1. kind # "created"
      BY <2>3, WriteElse DEF Ledger
    <3>2. e.row <= writes /\ e.kind # "deleted"
      BY <2>3, <3>1, WriteElse DEF Ledger
    <3> QED BY <1>0, <1>2, <2>3, <3>1, <3>2, WriteElse
  <2> QED BY <1>1, <2>1, <2>2, <2>3
<1>5. \A j \in dead' : server'[j] = 0
  <2> SUFFICES ASSUME NEW j \in dead' PROVE server'[j] = 0
    OBVIOUS
  <2>1. CASE j = i
    <3>1. CASE kind = "deleted"
      BY <2>1, <3>1, WriteElse
    <3>2. CASE kind # "deleted"
      BY <2>1, <3>2, WriteElse DEF Ledger
    <3> QED BY <3>1, <3>2
  <2>2. CASE j # i
    BY <1>0, <2>2, WriteElse DEF Ledger
  <2> QED BY <2>1, <2>2
<1>6. ASSUME NEW e \in InFlight', NEW f \in InFlight', e.issue = f.issue
      PROVE  /\ e.kind = "created" => e.row <= f.row
             /\ e.kind = "deleted" => f.row <= e.row
  <2>1. CASE e \in InFlight /\ f \in InFlight
    BY <1>6, <2>1 DEF Ledger
  <2>2. CASE e = n /\ f = n
    BY <1>0, <1>1, <2>2
  <2>3. CASE e = n /\ f \in InFlight
    <3>1. kind # "created"
      BY <1>1, <1>6, <2>3, WriteElse DEF Ledger
    <3>2. f.row <= writes
      BY <2>3 DEF Ledger
    <3> QED BY <1>0, <1>1, <1>2, <2>3, <3>1, <3>2
  <2>4. CASE e \in InFlight /\ f = n
    <3>1. e.row <= writes
      BY <2>4 DEF Ledger
    <3>2. e.kind # "deleted"
      <4>1. server[i] # 0 \/ (server[i] = 0 /\ i \notin dead)
        BY WriteElse
      <4> QED BY <1>1, <1>6, <2>4, <4>1 DEF Ledger
    <3> QED BY <1>0, <1>1, <1>2, <2>4, <3>1, <3>2
  <2> QED BY <1>1, <2>1, <2>2, <2>3, <2>4
<1>7. ASSUME NEW e \in unsent', NEW f \in unsent', e.row = f.row
      PROVE  e = f
  <2>1. \A g \in unsent : g.row <= writes /\ g.row \in Nat
    BY <1>2 DEF Ledger, InFlight
  <2> QED BY <1>0, <1>1, <1>7, <2>1 DEF Ledger
<1> QED BY <1>3, <1>4, <1>5, <1>6, <1>7 DEF Ledger

(* The newest event of another issue stays the newest. *)
LEMMA WriteOrder ==
  ASSUME TypeOK, Order, NEW kind \in {"created", "updated", "deleted"}, NEW i \in Issues,
         Write(kind, i), UNCHANGED chan, UNCHANGED conn
  PROVE  Order'
<1>1. PICK n \in unsent' :
            n.issue = i /\ Newest(n)' /\ unsent' = unsent \cup {n}
  BY WriteAdds
<1>2. ASSUME NEW e \in Event, e.issue # i, Newest(e) PROVE Newest(e)'
  <2>1. e.issue \in Issues
    BY DEF Event
  <2>2. server'[e.issue] = server[e.issue]
    BY <1>2, <2>1, WriteElse
  <2> QED BY <1>2, <2>2 DEF Newest
<1>3. ASSUME NEW e \in unsent', ~ e.late
      PROVE  \E f \in unsent' : f.issue = e.issue /\ Newest(f)'
  <2>1. CASE e.issue = i
    BY <1>1, <2>1
  <2>2. CASE e.issue # i
    <3>1. e \in unsent
      BY <1>1, <2>2
    <3>2. PICK f \in unsent : f.issue = e.issue /\ Newest(f)
      BY <1>3, <3>1 DEF Order
    <3> QED BY <1>1, <1>2, <2>2, <3>2 DEF TypeOK
  <2> QED BY <2>1, <2>2
<1>4. ASSUME NEW k \in 1 .. Len(chan), ~ chan[k].late
      PROVE  \/ \E f \in unsent' : f.issue = chan[k].issue /\ Newest(f)'
             \/ \E l \in k .. Len(chan) : chan[l].issue = chan[k].issue /\ Newest(chan[l])'
  <2>1. CASE chan[k].issue = i
    BY <1>1, <2>1
  <2>2. CASE chan[k].issue # i
    <3>1. CASE \E f \in unsent : f.issue = chan[k].issue /\ Newest(f)
      BY <1>1, <1>2, <2>2, <3>1 DEF TypeOK
    <3>2. CASE \E l \in k .. Len(chan) : chan[l].issue = chan[k].issue /\ Newest(chan[l])
      <4>1. PICK l \in k .. Len(chan) : chan[l].issue = chan[k].issue /\ Newest(chan[l])
        BY <3>2
      <4>2. chan[l] \in Event
        BY DEF TypeOK
      <4>3. Newest(chan[l])'
        <5>1. server'[chan[l].issue] = server[chan[l].issue]
          BY <2>2, <4>1, <4>2, WriteElse DEF Event
        <5> QED BY <4>1, <5>1 DEF Newest
      <4> QED BY <4>1, <4>3
    <3> QED BY <1>4, <3>1, <3>2 DEF Order
  <2> QED BY <2>1, <2>2
<1>5. ~ conn' => chan' = <<>>
  BY DEF Order
<1> QED BY <1>3, <1>4, <1>5 DEF Order

(* The same event, late or not. *)
Twin(e, f) == e.kind = f.kind /\ e.issue = f.issue /\ e.row = f.row

(* Publishing takes one event off the handlers and marks the older ones of its issue. *)
LEMMA PublishFacts ==
  ASSUME TypeOK, NEW e \in unsent, Publish(e)
  PROVE  /\ \A g \in unsent' : \E f \in unsent \ {e} :
               Twin(f, g) /\ (~ g.late => ~ f.late /\ ~ (f.issue = e.issue /\ f.row < e.row))
         /\ \A f \in unsent \ {e} : \E g \in unsent' : Twin(f, g)
         /\ \A f \in unsent \ {e}, h \in unsent \ {e}, g \in unsent' :
               Twin(f, g) /\ Twin(h, g) => Twin(f, h)
<1> DEFINE L(f) == [f EXCEPT !.late = @ \/ (f.issue = e.issue /\ f.row < e.row)]
<1>1. ASSUME NEW f \in Event
      PROVE  /\ Twin(f, L(f))
             /\ ~ L(f).late => ~ f.late /\ ~ (f.issue = e.issue /\ f.row < e.row)
  BY DEF Event, Twin
<1>2. unsent' = {L(f) : f \in unsent \ {e}}
  BY DEF Publish
<1>3. unsent \subseteq Event
  BY DEF TypeOK
<1> HIDE DEF L
<1> QED BY <1>1, <1>2, <1>3 DEF Twin

LEMMA NewestTwin ==
  ASSUME NEW e, NEW f, Twin(e, f), Newest(e), UNCHANGED server
  PROVE  Newest(f)'
BY DEF Newest, Twin

(* The channel grows at its end when there is one. *)
LEMMA AppendFacts ==
  ASSUME TypeOK, NEW e \in unsent, Publish(e)
  PROVE  /\ Len(chan') \in Nat /\ Len(chan) \in Nat
         /\ \A n \in 1 .. Len(chan) : n \in 1 .. Len(chan') /\ chan'[n] = chan[n]
         /\ conn => Len(chan') = Len(chan) + 1 /\ chan'[Len(chan')] = e
         /\ ~ conn => chan' = chan
         /\ \A n \in 1 .. Len(chan') : n \in 1 .. Len(chan) \/ (conn /\ n = Len(chan'))
<1>0. e \in Event /\ chan \in Seq(Event)
  BY DEF TypeOK
<1>1. CASE conn
  BY <1>0, <1>1 DEF Publish
<1>2. CASE ~ conn
  BY <1>0, <1>2 DEF Publish
<1> QED BY <1>1, <1>2

LEMMA PublishInFlight ==
  ASSUME TypeOK, NEW e \in unsent, Publish(e)
  PROVE  /\ \A g \in InFlight' : \E f \in InFlight : Twin(f, g)
         /\ conn => \A f \in InFlight : \E g \in InFlight' : Twin(f, g)
<1>1. ASSUME NEW g \in InFlight' PROVE \E f \in InFlight : Twin(f, g)
  <2>1. CASE g \in unsent'
    BY <2>1, PublishFacts DEF InFlight
  <2>2. ASSUME NEW n \in 1 .. Len(chan'), g = chan'[n]
        PROVE  g \in InFlight
    <3>1. CASE n \in 1 .. Len(chan)
      BY <2>2, <3>1, AppendFacts DEF InFlight
    <3>2. CASE conn /\ n = Len(chan')
      BY <2>2, <3>2, AppendFacts DEF InFlight
    <3> QED BY <3>1, <3>2, AppendFacts
  <2>3. Twin(g, g)
    BY DEF Twin
  <2> QED BY <2>1, <2>2, <2>3 DEF InFlight
<1>2. ASSUME conn, NEW f \in InFlight PROVE \E g \in InFlight' : Twin(f, g)
  <2>0. Twin(f, f)
    BY DEF Twin
  <2>1. CASE f \in unsent /\ f # e
    BY <2>1, PublishFacts DEF InFlight
  <2>2. CASE f = e
    <3>1. Len(chan') \in 1 .. Len(chan') /\ chan'[Len(chan')] = e
      BY <1>2, AppendFacts
    <3>2. e \in InFlight'
      BY <3>1 DEF InFlight
    <3> QED BY <2>0, <2>2, <3>2
  <2>3. ASSUME NEW n \in 1 .. Len(chan), f = chan[n]
        PROVE  f \in InFlight'
    BY <2>3, AppendFacts DEF InFlight
  <2> QED BY <2>0, <2>1, <2>2, <2>3 DEF InFlight
<1> QED BY <1>1, <1>2

(* What the table says of the events does not depend on who holds them. *)
LEMMA LedgerInherited ==
  ASSUME Ledger, UNCHANGED <<server, dead, writes>>,
         \A g \in InFlight' : \E f \in InFlight : Twin(f, g),
         \A e, f \in unsent' : e.row = f.row => e = f
  PROVE  Ledger'
<1>1. \A g \in InFlight' :
          /\ g.row # 0 /\ g.row <= writes'
          /\ server'[g.issue] # 0 => g.row <= server'[g.issue] /\ g.kind # "deleted"
          /\ server'[g.issue] = 0 => g.issue \in dead'
  BY DEF Ledger, Twin
<1>2. \A g, h \in InFlight' :
          g.issue = h.issue => /\ g.kind = "created" => g.row <= h.row
                               /\ g.kind = "deleted" => h.row <= g.row
  BY DEF Ledger, Twin
<1>3. \A j \in dead' : server'[j] = 0
  BY DEF Ledger
<1> QED BY <1>1, <1>2, <1>3 DEF Ledger

LEMMA PublishLedger ==
  ASSUME TypeOK, Ledger, NEW e \in unsent, Publish(e)
  PROVE  Ledger'
<1>1. UNCHANGED <<server, dead, writes>>
  BY DEF Publish, bounds
<1>2. ASSUME NEW g \in unsent', NEW h \in unsent', g.row = h.row
      PROVE  g = h
  <2> DEFINE L(f) == [f EXCEPT !.late = @ \/ (f.issue = e.issue /\ f.row < e.row)]
  <2>1. PICK f1 \in unsent \ {e} : g = L(f1)
    BY DEF Publish
  <2>2. PICK f2 \in unsent \ {e} : h = L(f2)
    BY DEF Publish
  <2>3. f1.row = g.row /\ f2.row = h.row
    BY <2>1, <2>2 DEF TypeOK, Event
  <2>4. f1 = f2
    BY <1>2, <2>3 DEF Ledger
  <2> QED BY <2>1, <2>2, <2>4
<1> QED BY <1>1, <1>2, PublishInFlight, LedgerInherited

(* If the newest event of an issue is the one published, the others are now late. *)
LEMMA PublishNewest ==
  ASSUME TypeOK, Ledger, NEW e \in unsent, NEW f \in unsent,
         Newest(e), f.issue = e.issue, f # e
  PROVE  f.row < e.row
<1>1. e \in InFlight /\ f \in InFlight /\ f.row \in Nat /\ e.row \in Nat
  BY DEF InFlight, TypeOK, Event
<1>2. f.row # e.row
  BY DEF Ledger
<1>3. CASE server[e.issue] = 0
  <2>1. f.row <= e.row
    BY <1>1, <1>3 DEF Ledger, Newest
  <2> QED BY <1>1, <1>2, <2>1
<1>4. CASE server[e.issue] # 0
  <2>1. f.row <= e.row
    BY <1>1, <1>4 DEF Ledger, Newest
  <2> QED BY <1>1, <1>2, <2>1
<1> QED BY <1>3, <1>4

LEMMA PublishOrder ==
  ASSUME TypeOK, Ledger, Order, NEW e \in unsent, Publish(e)
  PROVE  Order'
<1>0. UNCHANGED <<server, conn>>
  BY DEF Publish
<1>1. ASSUME NEW f \in unsent \ {e}, Newest(f)
      PROVE  \E g \in unsent' : g.issue = f.issue /\ Newest(g)'
  BY <1>0, <1>1, PublishFacts, NewestTwin DEF Twin
<1>2. ~ conn' => chan' = <<>>
  BY <1>0, AppendFacts DEF Order
<1>3. ASSUME NEW g \in unsent', ~ g.late
      PROVE  \E h \in unsent' : h.issue = g.issue /\ Newest(h)'
  <2>1. PICK f \in unsent \ {e} :
           Twin(f, g) /\ ~ f.late /\ ~ (f.issue = e.issue /\ f.row < e.row)
    BY <1>3, PublishFacts
  <2>2. PICK h \in unsent : h.issue = f.issue /\ Newest(h)
    BY <2>1 DEF Order
  <2>3. h # e
    BY <2>1, <2>2, PublishNewest
  <2> QED BY <1>1, <2>1, <2>2, <2>3 DEF Twin
<1>4. ASSUME NEW n \in 1 .. Len(chan'), ~ chan'[n].late
      PROVE  \/ \E f \in unsent' : f.issue = chan'[n].issue /\ Newest(f)'
             \/ \E k \in n .. Len(chan'), h \in InFlight :
                   h = chan'[k] /\ h.issue = chan'[n].issue /\ Newest(h)'
  <2>1. ASSUME NEW h \in unsent, h.issue = chan'[n].issue, Newest(h)
        PROVE  \/ \E f \in unsent' : f.issue = chan'[n].issue /\ Newest(f)'
               \/ h = e /\ Newest(e)'
    <3>1. CASE h = e
      BY <1>0, <2>1, <3>1 DEF Newest
    <3>2. CASE h # e
      BY <1>1, <2>1, <3>2
    <3> QED BY <3>1, <3>2
  <2>2. CASE n \in 1 .. Len(chan)
    <3>1. chan'[n] = chan[n] /\ Len(chan) \in Nat /\ Len(chan') \in Nat
      BY <2>2, AppendFacts
    <3>2. conn /\ Len(chan') = Len(chan) + 1 /\ chan'[Len(chan')] = e
      <4>1. conn
        BY <2>2 DEF Order
      <4> QED BY <4>1, AppendFacts
    <3>3. CASE \E h \in unsent : h.issue = chan[n].issue /\ Newest(h)
      <4>1. PICK h \in unsent : h.issue = chan[n].issue /\ Newest(h)
        BY <3>3
      <4>2. CASE h = e /\ Newest(e)'
        <5>1. Len(chan') \in n .. Len(chan') /\ e \in InFlight
          BY <2>2, <3>1, <3>2 DEF InFlight
        <5> QED BY <3>1, <3>2, <4>1, <4>2, <5>1
      <4> QED BY <2>1, <3>1, <4>1, <4>2
    <3>4. CASE \E k \in n .. Len(chan) : chan[k].issue = chan[n].issue /\ Newest(chan[k])
      <4>1. PICK k \in n .. Len(chan) : chan[k].issue = chan[n].issue /\ Newest(chan[k])
        BY <3>4
      <4>2. k \in 1 .. Len(chan) /\ k \in n .. Len(chan')
        BY <2>2, <3>1, <3>2
      <4>3. chan'[k] = chan[k] /\ chan[k] \in InFlight
        BY <4>2, AppendFacts DEF InFlight
      <4>4. PICK h \in InFlight : h = chan[k]
        BY <4>3
      <4>5. Newest(h)'
        BY <1>0, <4>1, <4>4 DEF Newest
      <4> QED BY <3>1, <4>1, <4>2, <4>3, <4>4, <4>5
    <3> QED BY <1>4, <2>2, <3>1, <3>3, <3>4 DEF Order
  <2>3. CASE conn /\ n = Len(chan')
    <3>1. chan'[n] = e /\ n \in n .. Len(chan') /\ e \in InFlight
      BY <2>3, AppendFacts DEF InFlight
    <3>2. PICK h \in unsent : h.issue = e.issue /\ Newest(h)
      BY <1>4, <3>1 DEF Order
    <3> QED BY <2>1, <3>1, <3>2
  <2> QED BY <2>2, <2>3, AppendFacts
<1> QED BY <1>2, <1>3, <1>4 DEF Order, Newest

(* Handling the first event of the channel leaves the others. *)
LEMMA TailFacts ==
  ASSUME TypeOK, chan # <<>>, chan' = Tail(chan), UNCHANGED unsent
  PROVE  /\ Len(chan) \in Nat /\ Len(chan') = Len(chan) - 1
         /\ Head(chan) = chan[1] /\ Head(chan) \in InFlight /\ Head(chan) \in Event
         /\ \A n \in 1 .. Len(chan') : n + 1 \in 1 .. Len(chan) /\ chan'[n] = chan[n + 1]
         /\ \A n \in 1 .. Len(chan) :
               n = 1 \/ (n - 1 \in 1 .. Len(chan') /\ chan'[n - 1] = chan[n])
         /\ InFlight' \subseteq InFlight
         /\ \A f \in InFlight : f = Head(chan) \/ f \in InFlight'
<1>0. chan \in Seq(Event)
  BY DEF TypeOK
<1>1. /\ Len(chan) \in Nat /\ Len(chan') = Len(chan) - 1 /\ Len(chan) > 0
      /\ Head(chan) = chan[1] /\ Head(chan) \in Event
  BY <1>0
<1>2. \A n \in 1 .. Len(chan') : n + 1 \in 1 .. Len(chan) /\ chan'[n] = chan[n + 1]
  BY <1>0, <1>1
<1>3. ASSUME NEW n \in 1 .. Len(chan), n # 1
      PROVE  n - 1 \in 1 .. Len(chan') /\ chan'[n - 1] = chan[n]
  <2>1. n - 1 \in 1 .. Len(chan') /\ (n - 1) + 1 = n
    BY <1>1, <1>3
  <2> QED BY <1>2, <2>1
<1>4. Head(chan) \in InFlight
  BY <1>1 DEF InFlight
<1>5. InFlight' \subseteq InFlight
  BY <1>2 DEF InFlight
<1>6. ASSUME NEW f \in InFlight PROVE f = Head(chan) \/ f \in InFlight'
  BY <1>1, <1>3 DEF InFlight
<1> QED BY <1>1, <1>2, <1>3, <1>4, <1>5, <1>6

LEMMA DeliverStream ==
  ASSUME TypeOK, Ledger, Order, Deliver
  PROVE  Ledger' /\ Order'
<1>0. /\ chan # <<>> /\ chan' = Tail(chan)
      /\ UNCHANGED unsent /\ UNCHANGED server /\ UNCHANGED conn
      /\ UNCHANGED <<server, dead, writes>>
  BY DEF Deliver, bounds
<1>1. Ledger'
  <2>1. \A g \in InFlight' : \E f \in InFlight : Twin(f, g)
    BY <1>0, TailFacts DEF Twin
  <2>2. \A e, f \in unsent' : e.row = f.row => e = f
    BY <1>0 DEF Ledger
  <2> QED BY <1>0, <2>1, <2>2, LedgerInherited
<1>2. ~ conn' => chan' = <<>>
  BY <1>0 DEF Order
<1>3. \A e \in unsent' : ~ e.late => \E f \in unsent' : f.issue = e.issue /\ Newest(f)'
  BY <1>0 DEF Order, Newest
<1>4. ASSUME NEW n \in 1 .. Len(chan'), ~ chan'[n].late
      PROVE  \/ \E f \in unsent' : f.issue = chan'[n].issue /\ Newest(f)'
             \/ \E k \in n .. Len(chan'), h \in InFlight :
                   h = chan'[k] /\ h.issue = chan'[n].issue /\ Newest(h)'
  <2>1. n + 1 \in 1 .. Len(chan) /\ chan'[n] = chan[n + 1]
    BY <1>0, TailFacts
  <2>2. CASE \E f \in unsent : f.issue = chan[n + 1].issue /\ Newest(f)
    BY <1>0, <2>1, <2>2 DEF Newest
  <2>3. CASE \E k \in n + 1 .. Len(chan) :
                chan[k].issue = chan[n + 1].issue /\ Newest(chan[k])
    <3>1. PICK k \in n + 1 .. Len(chan) :
                chan[k].issue = chan[n + 1].issue /\ Newest(chan[k])
      BY <2>3
    <3>2. k \in 1 .. Len(chan) /\ k # 1
      BY <1>0, <2>1, <3>1, TailFacts
    <3>3. k - 1 \in n .. Len(chan') /\ chan'[k - 1] = chan[k] /\ chan[k] \in InFlight
      BY <1>0, <2>1, <3>1, <3>2, TailFacts DEF InFlight
    <3>4. PICK h \in InFlight : h = chan[k]
      BY <3>3
    <3>5. Newest(h)'
      BY <1>0, <3>1, <3>4 DEF Newest
    <3> QED BY <2>1, <3>1, <3>3, <3>4, <3>5
  <2> QED BY <1>4, <2>1, <2>2, <2>3 DEF Order
<1> QED BY <1>1, <1>2, <1>3, <1>4 DEF Order, Newest

(* A connection that is lost takes its events with it. *)
LEMMA LostStream ==
  ASSUME TypeOK, Ledger, Order, chan' = <<>>, UNCHANGED unsent,
         UNCHANGED <<server, dead, writes>>
  PROVE  Ledger' /\ Order'
<1>1. Len(chan') = 0
  OBVIOUS
<1>2. InFlight' \subseteq InFlight
  BY <1>1 DEF InFlight
<1>3. Ledger'
  <2>1. \A g \in InFlight' : \E f \in InFlight : Twin(f, g)
    BY <1>2 DEF Twin
  <2>2. \A e, f \in unsent' : e.row = f.row => e = f
    BY DEF Ledger
  <2> QED BY <2>1, <2>2, LedgerInherited
<1>4. \A e \in unsent' : ~ e.late => \E f \in unsent' : f.issue = e.issue /\ Newest(f)'
  BY DEF Order, Newest
<1> QED BY <1>1, <1>3, <1>4 DEF Order

(* Nothing moves on the wire. *)
LEMMA StillStream ==
  ASSUME Ledger, Order, UNCHANGED <<server, dead, writes>>, UNCHANGED unsent,
         UNCHANGED chan, conn' = conn \/ conn'
  PROVE  Ledger' /\ Order'
<1>1. InFlight' = InFlight
  BY DEF InFlight
<1>2. Ledger'
  BY <1>1 DEF Ledger
<1>3. \A e \in unsent' : ~ e.late => \E f \in unsent' : f.issue = e.issue /\ Newest(f)'
  BY DEF Order, Newest
<1>4. \A n \in 1 .. Len(chan') :
          ~ chan'[n].late =>
             \/ \E f \in unsent' : f.issue = chan'[n].issue /\ Newest(f)'
             \/ \E k \in n .. Len(chan) : chan[k].issue = chan[n].issue /\ Newest(chan[k])
  BY DEF Order, Newest
<1> QED BY <1>2, <1>3, <1>4 DEF Order, Newest

-----------------------------------------------------------------------------
(* Rows caught by the stream *)

LEMMA CaughtStill ==
  ASSUME UNCHANGED server, UNCHANGED unsent, UNCHANGED chan, NEW d, NEW i
  PROVE  Caught(d, i)' <=> Caught(d, i)
<1>1. InFlight' = InFlight
  BY DEF InFlight
<1> QED BY <1>1 DEF Caught, Newest

LEMMA CaughtWrite ==
  ASSUME TypeOK, Ledger, NEW kind \in {"created", "updated", "deleted"}, NEW j \in Issues,
         Write(kind, j), UNCHANGED chan, NEW d, NEW i \in Issues, Caught(d, i)
  PROVE  Caught(d, i)'
<1>1. PICK n \in unsent' :
            /\ n.kind = kind /\ n.issue = j
            /\ InFlight' = InFlight \cup {n}
            /\ Newest(n)'
  BY WriteAdds
<1>2. CASE i # j
  <2>1. server'[i] = server[i]
    BY <1>2, WriteElse
  <2> QED BY <1>1, <1>2, <2>1 DEF Caught, Newest
<1>3. CASE i = j /\ kind = "created"
  <2>1. server[i] = 0 /\ i \notin dead
    BY <1>3, WriteElse
  <2>2. d = 0
    BY <2>1 DEF Caught, Ledger
  <2> QED BY <1>1, <1>3, <2>2 DEF Caught
<1>4. CASE i = j /\ kind # "created" /\ d # 0
  BY <1>1, <1>4 DEF Caught
<1>5. CASE i = j /\ kind # "created" /\ d = 0
  <2>1. server[i] # 0
    BY <1>5, WriteElse
  <2>2. \E e \in InFlight : e.issue = i /\ e.kind = "created"
    BY <1>5, <2>1 DEF Caught
  <2> QED BY <1>1, <1>5, <2>2 DEF Caught
<1> QED BY <1>2, <1>3, <1>4, <1>5

LEMMA CaughtPublish ==
  ASSUME TypeOK, conn, NEW e \in unsent, Publish(e), NEW d, NEW i, Caught(d, i)
  PROVE  Caught(d, i)'
<1>1. UNCHANGED server
  BY DEF Publish
<1>2. \A f \in InFlight : \E g \in InFlight' : Twin(f, g)
  BY PublishInFlight
<1>3. CASE d = server[i]
  BY <1>1, <1>3 DEF Caught
<1>4. CASE d # 0 /\ \E f \in InFlight : f.issue = i /\ Newest(f) /\ f.kind # "created"
  <2>1. PICK f \in InFlight : f.issue = i /\ Newest(f) /\ f.kind # "created"
    BY <1>4
  <2>2. PICK g \in InFlight' : Twin(f, g)
    BY <1>2
  <2>3. Newest(g)'
    BY <1>1, <2>1, <2>2, NewestTwin
  <2> QED BY <1>4, <2>1, <2>2, <2>3 DEF Caught, Twin
<1>5. CASE d = 0 /\ \E f \in InFlight : f.issue = i /\ f.kind = "created"
  BY <1>2, <1>5 DEF Caught, Twin
<1> QED BY <1>3, <1>4, <1>5 DEF Caught

(* The event handled was not what caught the row. *)
LEMMA CaughtDeliver ==
  ASSUME TypeOK, Deliver, NEW d, NEW i, Caught(d, i),
         \/ i # Head(chan).issue
         \/ d # 0 /\ Head(chan).kind = "created"
         \/ d = 0 /\ Head(chan).kind = "updated"
  PROVE  Caught(d, i)'
<1>0. /\ chan # <<>> /\ chan' = Tail(chan)
      /\ UNCHANGED unsent /\ UNCHANGED server
  BY DEF Deliver
<1>1. \A f \in InFlight : f = Head(chan) \/ f \in InFlight'
  BY <1>0, TailFacts
<1> QED BY <1>0, <1>1 DEF Caught, Newest

(* The row an event brings is caught: it is the newest, or the newest is behind it. *)
LEMMA CaughtBrought ==
  ASSUME TypeOK, Ledger, Order, Deliver,
         ~ Head(chan).late, Head(chan).kind # "deleted",
         NEW d, NEW i, d = Head(chan).row, i = Head(chan).issue
  PROVE  Caught(d, i)'
<1> DEFINE e == Head(chan)
<1>0. /\ chan # <<>> /\ chan' = Tail(chan)
      /\ UNCHANGED unsent /\ UNCHANGED server
  BY DEF Deliver
<1>1. e \in InFlight /\ e \in Event /\ e = chan[1] /\ 1 \in 1 .. Len(chan)
  BY <1>0, TailFacts DEF TypeOK
<1>2. CASE Newest(e)
  <2>1. e.row = server[e.issue]
    BY <1>2 DEF Newest
  <2> QED BY <1>0, <2>1 DEF Caught
<1>3. CASE ~ Newest(e)
  <2>1. PICK f \in InFlight : f.issue = e.issue /\ Newest(f) /\ f \in InFlight'
    <3>1. CASE \E f \in unsent : f.issue = e.issue /\ Newest(f)
      BY <1>0, <3>1 DEF InFlight
    <3>2. CASE \E k \in 1 .. Len(chan) : chan[k].issue = e.issue /\ Newest(chan[k])
      <4>1. PICK k \in 1 .. Len(chan) : chan[k].issue = e.issue /\ Newest(chan[k])
        BY <3>2
      <4>2. chan[k] \in InFlight /\ chan[k] # e
        BY <1>3, <4>1 DEF InFlight
      <4> QED BY <1>0, <4>1, <4>2, TailFacts
    <3> QED BY <1>1, <3>1, <3>2 DEF Order
  <2>2. f.row \in Nat /\ e.row \in Nat /\ e.row # 0
    BY <1>1, InFlightType DEF Event, Ledger
  <2>3. f.kind # "created"
    <3> SUFFICES ASSUME f.kind = "created" PROVE FALSE
      OBVIOUS
    <3>1. f.row <= e.row
      BY <1>1, <2>1 DEF Ledger
    <3>2. server[e.issue] # 0 /\ f.row = server[e.issue]
      BY <2>1 DEF Newest
    <3>3. e.row <= server[e.issue]
      BY <1>1, <3>2 DEF Ledger
    <3> QED BY <1>3, <2>2, <3>1, <3>2, <3>3 DEF Newest
  <2>4. Newest(f)'
    BY <1>0, <2>1 DEF Newest
  <2> QED BY <2>1, <2>2, <2>3, <2>4 DEF Caught
<1> QED BY <1>2, <1>3

(* A late event that changes nothing. *)
LEMMA CaughtAlready ==
  ASSUME TypeOK, Ledger, Deliver, Head(chan).kind = "updated",
         NEW d, NEW i, i = Head(chan).issue, d = Head(chan).row, Caught(d, i)
  PROVE  Caught(d, i)'
<1>0. /\ chan # <<>> /\ chan' = Tail(chan)
      /\ UNCHANGED unsent /\ UNCHANGED server
  BY DEF Deliver
<1>1. Head(chan) \in InFlight /\ \A f \in InFlight : f = Head(chan) \/ f \in InFlight'
  BY <1>0, TailFacts
<1>2. d # 0
  BY <1>1 DEF Ledger
<1>3. CASE Newest(Head(chan))
  BY <1>0, <1>3 DEF Caught, Newest
<1>4. CASE ~ Newest(Head(chan))
  BY <1>0, <1>1, <1>2, <1>4 DEF Caught, Newest
<1> QED BY <1>3, <1>4

-----------------------------------------------------------------------------
(* The steps of the stream *)

LEMMA VerbKind ==
  ASSUME TypeOK, NEW m \in Muts
  PROVE  /\ mut[m].kind \in Kinds /\ mut[m].issue \in Issues
         /\ Verb[mut[m].kind] \in {"created", "updated", "deleted"}
<1>1. mut[m].kind \in Kinds /\ mut[m].issue \in Issues
  BY DEF TypeOK, Mutation
<1> QED BY <1>1 DEF Verb, Kinds

LEMMA NextStream ==
  ASSUME TypeOK, Ledger, Order, [Next]_vars
  PROVE  Ledger' /\ Order'
<1>1. CASE Remote
  <2>1. UNCHANGED chan /\ UNCHANGED conn
    BY <1>1 DEF Remote
  <2> QED BY <1>1, <2>1, WriteLedger, WriteOrder DEF Remote
<1>2. CASE Deliver
  BY <1>2, DeliverStream
<1>3. CASE Drop
  BY <1>3, LostStream DEF Drop
<1>4. CASE Connect
  <2>1. UNCHANGED <<server, dead, writes>> /\ UNCHANGED unsent /\ UNCHANGED chan /\ conn'
    BY <1>4 DEF Connect, bounds
  <2> QED BY <2>1, StillStream
<1>5. CASE Replace
  BY <1>5, LostStream DEF Replace
<1>6. ASSUME NEW e \in unsent, Publish(e) PROVE Ledger' /\ Order'
  BY <1>6, PublishLedger, PublishOrder
<1>7. ASSUME NEW q \in Queries, Mount(q) \/ Unmount(q) \/ Collect(q) \/ Read(q) \/ Land(q)
      PROVE  Ledger' /\ Order'
  <2>1. UNCHANGED <<server, dead, writes>> /\ UNCHANGED unsent /\ UNCHANGED chan
        /\ conn' = conn
    BY <1>7 DEF Mount, Unmount, Collect, Read, Land, net, bounds
  <2> QED BY <2>1, StillStream
<1>8. ASSUME NEW m \in Muts, Mutate(m) \/ Reject(m) \/ Succeed(m) \/ Fail(m)
      PROVE  Ledger' /\ Order'
  <2>1. UNCHANGED <<server, dead, writes>> /\ UNCHANGED unsent /\ UNCHANGED chan
        /\ conn' = conn
    BY <1>8 DEF Mutate, CreateIssue, UpdateIssue, DeleteIssue, Reject, Succeed, Fail, net,
                bounds
  <2> QED BY <2>1, StillStream
<1>9. ASSUME NEW m \in Muts, Commit(m) PROVE Ledger' /\ Order'
  <2>1. UNCHANGED chan /\ UNCHANGED conn /\ Write(Verb[mut[m].kind], mut[m].issue)
    BY <1>9 DEF Commit
  <2> QED BY <2>1, VerbKind, WriteLedger, WriteOrder
<1>10. CASE UNCHANGED vars
  <2>1. UNCHANGED <<server, dead, writes>> /\ UNCHANGED unsent /\ UNCHANGED chan
        /\ conn' = conn
    BY <1>10 DEF vars, net, bounds
  <2> QED BY <2>1, StillStream
<1> QED BY <1>1, <1>2, <1>3, <1>4, <1>5, <1>6, <1>7, <1>8, <1>9, <1>10 DEF Next

-----------------------------------------------------------------------------
(* Mutations and their drafts *)

LEMMA BeginFacts ==
  ASSUME TypeOK, NEW m \in Muts, NEW kind \in Kinds, NEW i \in Issues, Begin(m, kind, i)
  PROVE  /\ Still(m) /\ ~ Still(m)' /\ mut'[m].kind = kind /\ mut'[m].issue = i
         /\ \A q \in Queries :
               /\ q \in Saved(kind, i) => /\ mut'[m].prev[q].has = query[q].has
                                          /\ mut'[m].prev[q].data = query[q].data
               /\ q \notin Saved(kind, i) => ~ mut'[m].prev[q].has
         /\ \A o \in Muts : o # m => mut'[o] = mut[o]
BY DEF Begin, TypeOK, NoSnapshot, Still

LEMMA StageFacts ==
  ASSUME TypeOK, NEW m \in Muts, NEW s, s # "idle", NEW r, mut[m].stage # "idle",
         \/ mut' = [mut EXCEPT ![m] = [@ EXCEPT !.stage = s, !.row = r]]
         \/ mut' = [mut EXCEPT ![m] = [@ EXCEPT !.stage = s]]
  PROVE  \A o \in Muts :
            /\ mut'[o].kind = mut[o].kind /\ mut'[o].issue = mut[o].issue
            /\ mut'[o].prev = mut[o].prev
            /\ Still(o)' = Still(o)
<1>1. mut \in [Muts -> Mutation] /\ mut[m] \in Mutation
  BY DEF TypeOK
<1>2. \A o \in Muts : o # m => mut'[o] = mut[o]
  BY <1>1
<1>3. /\ mut'[m].kind = mut[m].kind /\ mut'[m].issue = mut[m].issue
      /\ mut'[m].prev = mut[m].prev /\ mut'[m].stage = s
  BY <1>1 DEF Mutation
<1> QED BY <1>2, <1>3 DEF Still

LEMMA EndFacts ==
  ASSUME TypeOK, NEW m \in Muts, End(m)
  PROVE  /\ Still(m)'
         /\ \A q \in Queries : ~ mut'[m].prev[q].has
         /\ \A o \in Muts : o # m => mut'[o] = mut[o]
<1>1. mut \in [Muts -> Mutation] /\ mut[m] \in Mutation
  BY DEF TypeOK
<1>2. \A o \in Muts : o # m => mut'[o] = mut[o]
  BY <1>1 DEF End
<1>3. mut'[m].stage = "idle" /\ mut'[m].prev = NoSnapshot
  BY <1>1 DEF End, Mutation
<1> QED BY <1>2, <1>3 DEF Still, NoSnapshot

(* The parts of Drafts. *)
SavedOnly == \A m \in Muts, q \in Queries :
                mut[m].prev[q].has => q \in Saved(mut[m].kind, mut[m].issue)

ShowsRow == \A q \in Pages : query[q].has => query[q].data[q] # 0

SavedRow == \A m \in Muts, q \in Pages : mut[m].prev[q].has => mut[m].prev[q].data[q] # 0

LEMMA DraftsParts == Drafts <=> SavedOnly /\ ShowsRow /\ SavedRow
BY DEF Drafts, SavedOnly, ShowsRow, SavedRow

LEMMA BeginDrafts ==
  ASSUME TypeOK, Drafts, NEW m \in Muts, NEW kind \in Kinds, NEW i \in Issues,
         Begin(m, kind, i)
  PROVE  SavedOnly' /\ SavedRow'
<1>1. SavedOnly'
  BY BeginFacts DEF Drafts, SavedOnly
<1>2. SavedRow'
  <2> SUFFICES ASSUME NEW o \in Muts, NEW q \in Pages, mut'[o].prev[q].has
               PROVE  mut'[o].prev[q].data[q] # 0
    BY DEF SavedRow
  <2>1. q \in Queries
    BY DEF Queries
  <2>2. CASE o = m
    BY <2>1, <2>2, BeginFacts DEF Drafts
  <2>3. CASE o # m
    BY <2>1, <2>3, BeginFacts DEF Drafts
  <2> QED BY <2>2, <2>3
<1> QED BY <1>1, <1>2

LEMMA StageDrafts ==
  ASSUME Drafts,
         \A o \in Muts : /\ mut'[o].kind = mut[o].kind /\ mut'[o].issue = mut[o].issue
                         /\ mut'[o].prev = mut[o].prev
  PROVE  SavedOnly' /\ SavedRow'
BY DEF Drafts, SavedOnly, SavedRow

LEMMA EndDrafts ==
  ASSUME TypeOK, Drafts, NEW m \in Muts, End(m)
  PROVE  SavedOnly' /\ SavedRow'
<1>1. SavedOnly'
  BY EndFacts DEF Drafts, SavedOnly
<1>2. SavedRow'
  BY EndFacts DEF Drafts, SavedRow, Queries
<1> QED BY <1>1, <1>2

(* A page is a query of its own, and its row is one of the table's. *)
LEMMA PageFacts ==
  ASSUME TypeOK, NEW q \in Pages
  PROVE  /\ q \in Queries /\ q \in Issues /\ q \notin Lists /\ q # "list" /\ q # "my"
         /\ query[q] \in Entry
BY NamesApart DEF Queries, TypeOK

ShowsRowAt(q) == query[q].has => query[q].data[q] # 0

LEMMA EntryStepShows ==
  ASSUME TypeOK, Drafts, NEW p \in Queries,
         Mount(p) \/ Unmount(p) \/ Collect(p) \/ Read(p) \/ Land(p)
  PROVE  ShowsRow'
<1> SUFFICES ASSUME NEW q \in Pages PROVE ShowsRowAt(q)'
  BY DEF ShowsRow, ShowsRowAt
<1>0. /\ q \in Queries /\ q \in Issues /\ q \notin Lists
      /\ query[q] \in Entry /\ query \in [Queries -> Entry]
  BY PageFacts DEF TypeOK
<1>1. ShowsRowAt(q)
  BY DEF Drafts, ShowsRowAt
<1>2. CASE q # p
  <2>1. query'[q] = query[q]
    BY <1>0, <1>2 DEF Mount, Unmount, Collect, Read, Land
  <2> QED BY <1>1, <2>1 DEF ShowsRowAt
<1>3. CASE q = p /\ Mount(p)
  <2>1. [query[q] EXCEPT !.mounted = TRUE] \in Entry
    BY <1>0 DEF Entry
  <2>2. /\ [query[q] EXCEPT !.mounted = TRUE].has = query[q].has
        /\ [query[q] EXCEPT !.mounted = TRUE].data = query[q].data
    BY <1>0 DEF Entry
  <2>3. query'[q].has = query[q].has /\ query'[q].data = query[q].data
    BY <1>0, <1>3, <2>1, <2>2, FetchingFacts DEF Mount
  <2> QED BY <1>1, <2>3 DEF ShowsRowAt
<1>4. CASE q = p /\ (Unmount(p) \/ Read(p))
  <2>1. query'[q].has = query[q].has /\ query'[q].data = query[q].data
    BY <1>0, <1>4 DEF Unmount, Read, Entry
  <2> QED BY <1>1, <2>1 DEF ShowsRowAt
<1>5. CASE q = p /\ Collect(p)
  BY <1>0, <1>5 DEF Collect, NoEntry, ShowsRowAt
<1>6. CASE q = p /\ Land(p)
  <2>0. query[q].snap \in Table
    BY <1>0 DEF Entry
  <2>1. CASE query[q].snap[q] = 0
    <3>1. query' = [query EXCEPT ![q] = [Cancel(query[q]) EXCEPT !.invalid = query[q].has]]
      BY <1>0, <1>6, <2>1 DEF Land
    <3>2. query'[q] = [Cancel(query[q]) EXCEPT !.invalid = query[q].has]
      BY <1>0, <3>1
    <3>3. query'[q].has = query[q].has /\ query'[q].data = query[q].data
      BY <1>0, <3>2, CancelFacts DEF Entry
    <3> QED BY <1>1, <3>3 DEF ShowsRowAt
  <2>2. CASE query[q].snap[q] # 0
    <3>1. query'[q] = Cancel(Put(query[q], query[q].snap))
      BY <1>0, <1>6, <2>2 DEF Land
    <3>2. query'[q].data = query[q].snap
      BY <1>0, <2>0, <3>1, PutFacts, CancelFacts
    <3> QED BY <2>2, <3>2 DEF ShowsRowAt
  <2> QED BY <2>1, <2>2
<1> QED BY <1>2, <1>3, <1>4, <1>5, <1>6

LEMMA NetStepShows ==
  ASSUME TypeOK, Ledger, Drafts, Deliver \/ Connect \/ Replace
  PROVE  ShowsRow'
<1> SUFFICES ASSUME NEW q \in Pages PROVE ShowsRowAt(q)'
  BY DEF ShowsRow, ShowsRowAt
<1>0. q \in Queries /\ q \in Issues /\ q # "list" /\ q # "my" /\ query[q] \in Entry
  BY PageFacts
<1>1. ShowsRowAt(q)
  BY DEF Drafts, ShowsRowAt
<1>2. CASE Deliver
  <2>1. chan # <<>> /\ chan' = Tail(chan) /\ UNCHANGED unsent
    BY <1>2 DEF Deliver
  <2>2. PICK e \in Event : e = Head(chan) /\ e \in InFlight
    BY <2>1, TailFacts
  <2>3. e.row # 0 /\ e.row \in Rows /\ e.issue \in Issues
    BY <2>2 DEF Ledger, Event, Rows
  <2>4. CASE q # e.issue
    <3>1. ~ Touches(q, e)
      BY <1>0, <2>4, NamesApart DEF Touches, Scope
    <3>2. query'[q] = query[q]
      BY <1>0, <1>2, <2>2, <3>1 DEF Deliver
    <3> QED BY <1>1, <3>2 DEF ShowsRowAt
  <2>5. CASE q = e.issue
    <3>1. Touches(q, e)
      BY <2>5, <1>0, NamesApart DEF Touches, Scope
    <3>2. query'[q] = Overtaken(Applied(q, e))
      BY <1>0, <1>2, <2>2, <3>1 DEF Deliver
    <3>3. Applied(q, e) \in Entry
      BY <1>0, AppliedType
    <3>4. query'[q].has = Applied(q, e).has /\ query'[q].data = Applied(q, e).data
      BY <3>2, <3>3, OvertakenFacts
    <3>5. CASE e.kind = "created"
      BY <1>0, <1>1, <2>5, <3>4, <3>5, AppliedCases DEF ShowsRowAt
    <3>6. CASE e.kind = "updated"
      <4>1. Applied(q, e) = Patched(query[q], q, e.row)
        BY <1>0, <2>5, <3>6, AppliedCases
      <4> QED BY <1>0, <1>1, <2>3, <3>4, <4>1, PatchedFacts DEF ShowsRowAt
    <3>7. CASE e.kind = "deleted"
      <4>1. Applied(q, e) = NoEntry
        BY <1>0, <2>5, <3>7, AppliedCases
      <4>2. ~ NoEntry.has
        BY DEF NoEntry
      <4>3. ~ query'[q].has
        BY <3>4, <4>1, <4>2
      <4> QED BY <4>3 DEF ShowsRowAt
    <3> QED BY <3>5, <3>6, <3>7 DEF Event
  <2> QED BY <2>4, <2>5
<1>3. CASE Connect \/ Replace
  <2>1. query'[q] = Overtaken(query[q]) \/ query'[q] = Overtaken(Invalidate(query[q]))
    BY <1>0, <1>3 DEF Connect, Replace, Refreshed
  <2>2. query'[q].has = query[q].has /\ query'[q].data = query[q].data
    BY <1>0, <2>1, OvertakenFacts, InvalidateFacts
  <2> QED BY <1>1, <2>2 DEF ShowsRowAt
<1> QED BY <1>2, <1>3

LEMMA MutStepShows ==
  ASSUME TypeOK, Drafts, NEW m \in Muts,
         \/ \E i \in Issues : UpdateIssue(m, i) \/ DeleteIssue(m, i)
         \/ Succeed(m) \/ Fail(m)
  PROVE  ShowsRow'
<1> SUFFICES ASSUME NEW q \in Pages PROVE ShowsRowAt(q)'
  BY DEF ShowsRow, ShowsRowAt
<1>0. /\ q \in Queries /\ q \in Issues /\ q # "list" /\ q # "my" /\ q \notin Lists
      /\ query[q] \in Entry
  BY PageFacts
<1>1. ShowsRowAt(q)
  BY DEF Drafts, ShowsRowAt
<1>2. m \in Rows /\ m # 0
  BY MutsAssumption DEF Rows
<1>3. ASSUME NEW i \in Issues, UpdateIssue(m, i) PROVE ShowsRowAt(q)'
  <2>1. query'[q] = IF q = i THEN Patched(query[q], i, m) ELSE query[q]
    BY <1>0, <1>3 DEF UpdateIssue
  <2>2. CASE q = i
    BY <1>0, <1>1, <1>2, <2>1, <2>2, PatchedFacts DEF ShowsRowAt
  <2>3. CASE q # i
    BY <1>1, <2>1, <2>3 DEF ShowsRowAt
  <2> QED BY <2>2, <2>3
<1>4. ASSUME NEW i \in Issues, DeleteIssue(m, i) PROVE ShowsRowAt(q)'
  <2>1. query'[q] = IF q = i THEN NoEntry ELSE query[q]
    BY <1>0, <1>4 DEF DeleteIssue
  <2> QED BY <1>1, <2>1 DEF ShowsRowAt, NoEntry
<1>5. CASE Succeed(m)
  <2>1. query'[q] = Succeeded(m, q)
    BY <1>0, <1>5 DEF Succeed
  <2>2. mut[m].kind \in Kinds
    BY VerbKind
  <2>3. Succeeded(m, q) \in {query[q], Invalidate(query[q]), NoEntry}
    BY <1>0, <2>2 DEF Succeeded, Kinds
  <2> QED BY <1>0, <1>1, <2>1, <2>3, InvalidateFacts DEF ShowsRowAt, NoEntry
<1>6. CASE Fail(m)
  <2>1. query'[q] = Failed(m, q)
    BY <1>0, <1>6 DEF Fail
  <2>2. Restored(m, q) \in Entry /\ mut[m].prev[q].data \in Table
    BY <1>0, RestoredType, PrevType
  <2>3. Restored(m, q).has => Restored(m, q).data[q] # 0
    BY <1>0, <1>1, <2>2, PutFacts DEF Restored, ShowsRowAt, Drafts
  <2>4. query'[q].has = Restored(m, q).has /\ query'[q].data = Restored(m, q).data
    BY <2>1, <2>2, InvalidateFacts DEF Failed
  <2> QED BY <2>3, <2>4 DEF ShowsRowAt
<1> QED BY <1>3, <1>4, <1>5, <1>6

LEMMA NextDrafts ==
  ASSUME TypeOK, Ledger, Drafts, [Next]_vars
  PROVE  Drafts'
<1>0. SavedOnly /\ ShowsRow /\ SavedRow
  BY DraftsParts
<1> SUFFICES (SavedOnly /\ ShowsRow /\ SavedRow)'
  BY DEF Drafts, SavedOnly, ShowsRow, SavedRow
<1>1. ASSUME UNCHANGED mut PROVE SavedOnly' /\ SavedRow'
  BY <1>0, <1>1 DEF SavedOnly, SavedRow
<1>2. ASSUME UNCHANGED query PROVE ShowsRow'
  BY <1>0, <1>2 DEF ShowsRow
<1>3. CASE Remote \/ Drop \/ \E e \in unsent : Publish(e)
  BY <1>1, <1>2, <1>3 DEF Remote, Drop, Publish
<1>4. CASE Deliver \/ Connect \/ Replace
  <2>1. UNCHANGED mut
    BY <1>4 DEF Deliver, Connect, Replace
  <2> QED BY <1>1, <1>4, <2>1, NetStepShows
<1>5. ASSUME NEW q \in Queries, Mount(q) \/ Unmount(q) \/ Collect(q) \/ Read(q) \/ Land(q)
      PROVE  (SavedOnly /\ ShowsRow /\ SavedRow)'
  <2>1. UNCHANGED mut
    BY <1>5 DEF Mount, Unmount, Collect, Read, Land
  <2> QED BY <1>1, <1>5, <2>1, EntryStepShows
<1>6. ASSUME NEW m \in Muts, NEW i \in Issues,
             CreateIssue(m, i) \/ UpdateIssue(m, i) \/ DeleteIssue(m, i)
      PROVE  (SavedOnly /\ ShowsRow /\ SavedRow)'
  <2>1. PICK kind \in Kinds : Begin(m, kind, i)
    BY <1>6 DEF CreateIssue, UpdateIssue, DeleteIssue, Kinds
  <2>2. SavedOnly' /\ SavedRow'
    BY <2>1, BeginDrafts
  <2>3. ShowsRow'
    BY <1>2, <1>6, MutStepShows DEF CreateIssue
  <2> QED BY <2>2, <2>3
<1>7. ASSUME NEW m \in Muts, Commit(m) \/ Reject(m)
      PROVE  (SavedOnly /\ ShowsRow /\ SavedRow)'
  <2>1. UNCHANGED query /\ mut[m].stage # "idle"
    BY <1>7 DEF Commit, Reject
  <2>2. PICK s \in {"ok", "err"}, r \in {writes + 1} :
            \/ mut' = [mut EXCEPT ![m] = [@ EXCEPT !.stage = s, !.row = r]]
            \/ mut' = [mut EXCEPT ![m] = [@ EXCEPT !.stage = s]]
    BY <1>7 DEF Commit, Reject
  <2>3. s # "idle"
    OBVIOUS
  <2>4. \A o \in Muts : /\ mut'[o].kind = mut[o].kind /\ mut'[o].issue = mut[o].issue
                        /\ mut'[o].prev = mut[o].prev
    BY <2>1, <2>2, <2>3, StageFacts
  <2>5. SavedOnly' /\ SavedRow'
    BY <2>4, StageDrafts
  <2> QED BY <1>2, <2>1, <2>5
<1>8. ASSUME NEW m \in Muts, Succeed(m) \/ Fail(m)
      PROVE  (SavedOnly /\ ShowsRow /\ SavedRow)'
  <2>1. End(m)
    BY <1>8 DEF Succeed, Fail
  <2>2. SavedOnly' /\ SavedRow'
    BY <2>1, EndDrafts
  <2> QED BY <1>8, <2>2, MutStepShows
<1>9. CASE UNCHANGED vars
  BY <1>1, <1>2, <1>9 DEF vars
<1> QED BY <1>3, <1>4, <1>5, <1>6, <1>7, <1>8, <1>9 DEF Next, Mutate

-----------------------------------------------------------------------------
(* One entry over one step *)

(* What caught a row of the entry still does. *)
Keeps(q) == \A i \in Scope(q), d \in Rows : Caught(d, i) => Caught(d, i)'

LEMMA ScopeIssues ==
  ASSUME NEW q \in Queries
  PROVE  Scope(q) \subseteq Issues
BY NamesApart DEF Scope, Queries

LEMMA EntryRows ==
  ASSUME TypeOK, NEW q \in Queries, NEW i \in Scope(q)
  PROVE  query[q].data[i] \in Rows /\ query[q].snap[i] \in Rows
<1>1. i \in Issues
  BY ScopeIssues
<1> QED BY <1>1 DEF TypeOK, Entry, Table

LEMMA KeepData ==
  ASSUME TypeOK, NEW q \in Queries, CleanData(q), Keeps(q),
         Excused(q) => Excused(q)',
         query'[q].has => query[q].has,
         query'[q].data = query[q].data
  PROVE  CleanData(q)'
<1>1. Scope(q)' = Scope(q)
  BY DEF Scope
<1> QED BY <1>1, EntryRows DEF CleanData, Keeps

LEMMA KeepSnap ==
  ASSUME TypeOK, NEW q \in Queries, CleanSnap(q), Keeps(q),
         query'[q].fetch = "read" /\ ~ query'[q].over =>
            /\ query[q].fetch = "read" /\ ~ query[q].over
            /\ query'[q].snap = query[q].snap
  PROVE  CleanSnap(q)'
<1>1. Scope(q)' = Scope(q)
  BY DEF Scope
<1> QED BY <1>1, EntryRows DEF CleanSnap, Keeps

(* An entry left alone. *)
LEMMA KeepEntry ==
  ASSUME TypeOK, NEW q \in Queries, CleanData(q), CleanSnap(q), Keeps(q),
         query'[q] = query[q], lapse'[q] = lapse[q],
         \A m \in Muts : Dirties(m, q) => Dirties(m, q)'
  PROVE  CleanData(q)' /\ CleanSnap(q)'
<1>1. Excused(q) => Excused(q)'
  BY DEF Excused
<1> QED BY <1>1, KeepData, KeepSnap

LEMMA KeepsStill ==
  ASSUME UNCHANGED server, UNCHANGED unsent, UNCHANGED chan, NEW q
  PROVE  Keeps(q)
BY CaughtStill DEF Keeps

LEMMA DirtiesStill ==
  ASSUME NEW m, NEW q, mut'[m] = mut[m], Dirties(m, q)
  PROVE  Dirties(m, q)'
BY DEF Dirties, Still

(* Steps that leave the cache alone. *)
LEMMA QuietClean ==
  ASSUME TypeOK, Ledger, Clean, conn, NEW q \in Queries,
         \/ Remote
         \/ \E e \in unsent : Publish(e)
         \/ \E m \in Muts, i \in Issues : CreateIssue(m, i)
         \/ \E m \in Muts : Commit(m) \/ Reject(m)
         \/ UNCHANGED vars
  PROVE  CleanData(q)' /\ CleanSnap(q)'
<1>0. CleanData(q) /\ CleanSnap(q)
  BY DEF Clean
<1>1. UNCHANGED query /\ UNCHANGED lapse
  BY DEF Remote, Publish, CreateIssue, Commit, Reject, vars
<1>2. query'[q] = query[q] /\ lapse'[q] = lapse[q]
  BY <1>1
<1>3. CASE Remote
  <2>1. UNCHANGED chan /\ UNCHANGED mut
    BY <1>3 DEF Remote
  <2>2. Keeps(q)
    BY <1>3, <2>1, CaughtWrite, ScopeIssues DEF Remote, Keeps
  <2> QED BY <1>0, <1>2, <2>1, <2>2, KeepEntry, DirtiesStill
<1>4. ASSUME NEW e \in unsent, Publish(e) PROVE CleanData(q)' /\ CleanSnap(q)'
  <2>1. UNCHANGED mut
    BY <1>4 DEF Publish
  <2>2. Keeps(q)
    BY <1>4, CaughtPublish DEF Keeps
  <2> QED BY <1>0, <1>2, <2>1, <2>2, KeepEntry, DirtiesStill
<1>5. ASSUME NEW m \in Muts, NEW i \in Issues, CreateIssue(m, i)
      PROVE  CleanData(q)' /\ CleanSnap(q)'
  <2>1. Still(m) /\ \A o \in Muts : o # m => mut'[o] = mut[o]
    BY <1>5, BeginFacts DEF CreateIssue, Kinds
  <2>2. \A o \in Muts : Dirties(o, q) => Dirties(o, q)'
    BY <2>1, DirtiesStill DEF Dirties
  <2>3. Keeps(q)
    BY <1>5, KeepsStill DEF CreateIssue, net
  <2> QED BY <1>0, <1>2, <2>2, <2>3, KeepEntry
<1>6. ASSUME NEW m \in Muts, Commit(m) \/ Reject(m)
      PROVE  CleanData(q)' /\ CleanSnap(q)'
  <2>1. mut[m].stage # "idle"
    BY <1>6 DEF Commit, Reject
  <2>2. PICK s \in {"ok", "err"}, r \in {writes + 1} :
            \/ mut' = [mut EXCEPT ![m] = [@ EXCEPT !.stage = s, !.row = r]]
            \/ mut' = [mut EXCEPT ![m] = [@ EXCEPT !.stage = s]]
    BY <1>6 DEF Commit, Reject
  <2>3. s # "idle"
    OBVIOUS
  <2>4. \A o \in Muts : /\ mut'[o].kind = mut[o].kind /\ mut'[o].issue = mut[o].issue
                        /\ mut'[o].prev = mut[o].prev
                        /\ Still(o)' = Still(o)
    BY <2>1, <2>2, <2>3, StageFacts
  <2>5. \A o \in Muts : Dirties(o, q) => Dirties(o, q)'
    BY <2>4 DEF Dirties
  <2>6. Keeps(q)
    <3>1. CASE Commit(m)
      BY <3>1, VerbKind, CaughtWrite, ScopeIssues DEF Commit, Keeps
    <3>2. CASE Reject(m)
      BY <3>2, KeepsStill DEF Reject, net
    <3> QED BY <1>6, <3>1, <3>2
  <2> QED BY <1>0, <1>2, <2>5, <2>6, KeepEntry
<1>7. CASE UNCHANGED vars
  BY <1>0, <1>2, <1>7, KeepsStill, KeepEntry, DirtiesStill DEF vars, net
<1> QED BY <1>3, <1>4, <1>5, <1>6, <1>7

(* Steps of one entry. *)
LEMMA EntryClean ==
  ASSUME TypeOK, Clean, conn, NEW p \in Queries, NEW q \in Queries,
         Mount(p) \/ Unmount(p) \/ Collect(p) \/ Read(p) \/ Land(p)
  PROVE  CleanData(q)' /\ CleanSnap(q)'
<1>0. /\ CleanData(q) /\ CleanSnap(q)
      /\ query[q] \in Entry /\ query \in [Queries -> Entry]
      /\ lapse \in [Queries -> SUBSET Lapses]
  BY DEF Clean, TypeOK
<1>1. UNCHANGED mut /\ UNCHANGED server /\ UNCHANGED unsent /\ UNCHANGED chan
  BY DEF Mount, Unmount, Collect, Read, Land, net
<1>2. Keeps(q) /\ \A m \in Muts : Dirties(m, q) => Dirties(m, q)'
  BY <1>1, KeepsStill, DirtiesStill
<1>3. CASE q # p
  <2>1. query'[q] = query[q] /\ lapse'[q] = lapse[q]
    BY <1>0, <1>3 DEF Mount, Unmount, Collect, Read, Land
  <2> QED BY <1>0, <1>2, <2>1, KeepEntry
<1>4. CASE q = p /\ Mount(p)
  <2> DEFINE e == [query[q] EXCEPT !.mounted = TRUE]
  <2>1. /\ e \in Entry /\ e.has = query[q].has /\ e.data = query[q].data
        /\ e.invalid = query[q].invalid /\ e.fetch = query[q].fetch
        /\ e.over = query[q].over /\ e.snap = query[q].snap
    BY <1>0 DEF Entry
  <2>2. lapse'[q] = lapse[q] /\ query'[q] \in {e, Fetching(e)}
    BY <1>0, <1>4 DEF Mount
  <2> HIDE DEF e
  <2>3. CASE query'[q] = e
    <3>1. Excused(q) => Excused(q)'
      BY <1>2, <2>1, <2>2, <2>3 DEF Excused
    <3> QED BY <1>0, <1>2, <2>1, <2>3, <3>1, KeepData, KeepSnap
  <2>4. CASE query'[q] = Fetching(e)
    <3>1. query'[q].fetch = "sent"
      BY <2>1, <2>4, FetchingFacts
    <3> QED BY <3>1 DEF CleanData, CleanSnap, Excused
  <2> QED BY <2>2, <2>3, <2>4
<1>5. CASE q = p /\ Unmount(p)
  <2>1. /\ query'[q].has = query[q].has /\ query'[q].data = query[q].data
        /\ query'[q].invalid = query[q].invalid /\ query'[q].fetch = query[q].fetch
        /\ query'[q].over = query[q].over /\ query'[q].snap = query[q].snap
        /\ lapse'[q] = lapse[q]
    BY <1>0, <1>5 DEF Unmount, Entry
  <2>2. Excused(q) => Excused(q)'
    BY <1>2, <2>1 DEF Excused
  <2> QED BY <1>0, <1>2, <2>1, <2>2, KeepData, KeepSnap
<1>6. CASE q = p /\ Collect(p)
  <2>1. query'[q] = NoEntry
    BY <1>0, <1>6 DEF Collect
  <2>2. ~ NoEntry.has /\ NoEntry.fetch = "none"
    BY DEF NoEntry
  <2> QED BY <2>1, <2>2 DEF CleanData, CleanSnap
<1>7. CASE q = p /\ Read(p)
  <2>1. /\ query'[q].fetch = "read" /\ query[q].fetch = "sent"
        /\ query'[q].snap = [i \in Issues |-> IF i \in Scope(q) THEN server[i] ELSE 0]
    BY <1>0, <1>7 DEF Read, Entry
  <2>2. CleanData(q)'
    BY <2>1 DEF CleanData, Excused
  <2>3. \A i \in Scope(q) : query'[q].snap[i] = server'[i]
    BY <1>1, <2>1, ScopeIssues
  <2>4. \A i \in Scope(q) : Caught(query[q].snap[i], i)'
    BY <2>3 DEF Caught
  <2>5. Scope(q)' = Scope(q)
    BY DEF Scope
  <2> QED BY <2>2, <2>4, <2>5 DEF CleanSnap
<1>8. CASE q = p /\ Land(p)
  <2>0. query[q].snap \in Table /\ Cancel(query[q]) \in Entry
    BY <1>0, CancelFacts DEF Entry
  <2>1. CASE q \notin Lists /\ query[q].snap[q] = 0
    <3>1. query'[q] = [Cancel(query[q]) EXCEPT !.invalid = query[q].has]
      BY <1>0, <1>8, <2>1 DEF Land
    <3>2. /\ query'[q].has = query[q].has /\ query'[q].invalid = query[q].has
          /\ query'[q].fetch = "none"
      BY <1>0, <2>0, <3>1, CancelFacts DEF Entry
    <3> QED BY <3>2 DEF CleanData, CleanSnap, Excused
  <2>2. CASE ~ (q \notin Lists /\ query[q].snap[q] = 0)
    <3>1. /\ query'[q] = Cancel(Put(query[q], query[q].snap))
          /\ lapse'[q] = IF query[q].over THEN {"raced"} ELSE {}
      BY <1>0, <1>8, <2>2 DEF Land
    <3>2. query'[q].data = query[q].snap /\ query'[q].fetch = "none"
      BY <1>0, <2>0, <3>1, PutFacts, CancelFacts
    <3>3. CASE query[q].over
      BY <3>1, <3>2, <3>3 DEF CleanData, CleanSnap, Excused
    <3>4. CASE ~ query[q].over
      <4>1. \A i \in Scope(q) : Caught(query[q].snap[i], i)
        BY <1>0, <1>8, <3>4 DEF CleanSnap, Land
      <4>2. \A i \in Scope(q) : Caught(query[q].data[i], i)'
        BY <1>2, <3>2, <4>1, EntryRows DEF Keeps
      <4>3. Scope(q)' = Scope(q)
        BY DEF Scope
      <4> QED BY <3>2, <4>2, <4>3 DEF CleanData, CleanSnap
    <3> QED BY <3>3, <3>4
  <2> QED BY <2>1, <2>2
<1> QED BY <1>3, <1>4, <1>5, <1>6, <1>7, <1>8

(* An entry with an excuse, or without data, has nothing to answer for. *)
LEMMA ExcusedData ==
  ASSUME NEW q, ~ query'[q].has \/ query'[q].fetch # "none" \/ query'[q].invalid
                  \/ lapse'[q] # {} \/ \E m \in Muts : Dirties(m, q)'
  PROVE  CleanData(q)'
BY DEF CleanData, Excused

(* A connection: the first marks what is shown as perhaps stale, the others refetch. *)
LEMMA ConnectClean ==
  ASSUME TypeOK, Connect, NEW q \in Queries
  PROVE  CleanData(q)' /\ CleanSnap(q)'
<1>0. query[q] \in Entry
  BY DEF TypeOK
<1>1. CASE before
  <2>1. query'[q] = Overtaken(Invalidate(query[q]))
    BY <1>1 DEF Connect, Refreshed
  <2>2. Invalidate(query[q]) \in Entry
    BY <1>0, InvalidateFacts
  <2>3. /\ query'[q].has => query'[q].fetch # "none" \/ query'[q].invalid
        /\ query'[q].fetch = "read" => query'[q].over
    BY <1>0, <2>1, <2>2, InvalidateFacts, OvertakenFacts
  <2> QED BY <2>3, ExcusedData DEF CleanSnap
<1>2. CASE ~ before
  <2>1. /\ query'[q] = Overtaken(query[q])
        /\ query[q].has => lapse'[q] # {}
    BY <1>2 DEF Connect
  <2>2. /\ query'[q].has => lapse'[q] # {}
        /\ query'[q].fetch = "read" => query'[q].over
    BY <1>0, <2>1, OvertakenFacts
  <2> QED BY <2>2, ExcusedData DEF CleanSnap
<1> QED BY <1>1, <1>2

(* An entry that is refetched after the step: what it shows is excused, a fetch that
   has read goes on as it was. *)
LEMMA InvalidateClean ==
  ASSUME TypeOK, NEW q \in Queries, CleanSnap(q), Keeps(q),
         NEW c \in Entry, query'[q] = Invalidate(c),
         c.fetch = query[q].fetch, c.over = query[q].over, c.snap = query[q].snap
  PROVE  CleanData(q)' /\ CleanSnap(q)'
<1>1. /\ query'[q].has => query'[q].fetch # "none" \/ query'[q].invalid
      /\ query'[q].fetch = "read" /\ ~ query'[q].over =>
            /\ query[q].fetch = "read" /\ ~ query[q].over
            /\ query'[q].snap = query[q].snap
  BY InvalidateFacts
<1> QED BY <1>1, KeepSnap, ExcusedData

LEMMA NoEntryClean ==
  ASSUME NEW q, query'[q] = NoEntry
  PROVE  CleanData(q)' /\ CleanSnap(q)'
<1>1. ~ NoEntry.has /\ NoEntry.fetch = "none"
  BY DEF NoEntry
<1> QED BY <1>1 DEF CleanData, CleanSnap

(* An optimistic draft: the mutation answers for it. *)
LEMMA DraftClean ==
  ASSUME TypeOK, Clean, conn, NEW m \in Muts, NEW i \in Issues, NEW q \in Queries,
         UpdateIssue(m, i) \/ DeleteIssue(m, i)
  PROVE  CleanData(q)' /\ CleanSnap(q)'
<1>0. CleanData(q) /\ CleanSnap(q) /\ query[q] \in Entry /\ m \in Rows
  BY DEF Clean, TypeOK, Rows
<1>1. PICK kind \in {"update", "delete"} : Begin(m, kind, i)
  BY DEF UpdateIssue, DeleteIssue
<1>2. /\ Still(m) /\ ~ Still(m)' /\ mut'[m].kind = kind /\ mut'[m].issue = i
      /\ \A p \in Queries : p \in Saved(kind, i) => mut'[m].prev[p].has = query[p].has
      /\ \A o \in Muts : o # m => mut'[o] = mut[o]
  BY <1>1, BeginFacts DEF Kinds
<1>3. \A o \in Muts : Dirties(o, q) => Dirties(o, q)'
  BY <1>2, DirtiesStill DEF Dirties
<1>4. Keeps(q) /\ UNCHANGED lapse
  BY KeepsStill DEF UpdateIssue, DeleteIssue, net
<1>5. CASE UpdateIssue(m, i)
  <2>1. kind = "update"
    BY <1>2, <1>5, BeginFacts DEF UpdateIssue, Kinds
  <2>2. CASE q = "list"
    <3>1. query'[q] = Patched(Cancel(query[q]), i, m)
      BY <1>5, <2>2, NamesApart DEF UpdateIssue
    <3>2. query'[q].fetch = "none"
      BY <1>0, <3>1, CancelFacts, PatchedFacts
    <3>3. Dirties(m, q)'
      BY <1>2, <2>1, <2>2 DEF Dirties
    <3> QED BY <3>2, <3>3, ExcusedData DEF CleanSnap
  <2>3. CASE q # "list" /\ q = i
    <3>1. query'[q] = Patched(query[q], i, m)
      BY <1>5, <2>3 DEF UpdateIssue
    <3>2. /\ query'[q].fetch = query[q].fetch /\ query'[q].over = query[q].over
          /\ query'[q].snap = query[q].snap
      BY <1>0, <3>1, PatchedFacts
    <3>3. Dirties(m, q)'
      BY <1>2, <2>1, <2>3 DEF Dirties
    <3> QED BY <1>0, <1>4, <3>2, <3>3, KeepSnap, ExcusedData
  <2>4. CASE q # "list" /\ q # i
    <3>1. query'[q] = query[q]
      BY <1>5, <2>4 DEF UpdateIssue
    <3> QED BY <1>0, <1>3, <1>4, <3>1, KeepEntry
  <2> QED BY <2>2, <2>3, <2>4
<1>6. CASE DeleteIssue(m, i)
  <2>1. kind = "delete"
    BY <1>2, <1>6, BeginFacts DEF DeleteIssue, Kinds
  <2>2. CASE q \in Lists
    <3>1. query'[q] = Pruned(Cancel(query[q]), i)
      BY <1>6, <2>2, NamesApart DEF DeleteIssue
    <3>2. query'[q].fetch = "none" /\ query'[q].has = query[q].has
      BY <1>0, <3>1, CancelFacts, PrunedFacts
    <3>3. query[q].has => Dirties(m, q)'
      BY <1>2, <2>1, <2>2 DEF Dirties, Saved
    <3> QED BY <3>2, <3>3, ExcusedData DEF CleanSnap
  <2>3. CASE q \notin Lists /\ q = i
    BY <1>6, <2>3, NoEntryClean DEF DeleteIssue
  <2>4. CASE q \notin Lists /\ q # i
    <3>1. query'[q] = query[q]
      BY <1>6, <2>4 DEF DeleteIssue
    <3> QED BY <1>0, <1>3, <1>4, <3>1, KeepEntry
  <2> QED BY <2>2, <2>3, <2>4
<1> QED BY <1>5, <1>6

(* A mutation that ends leaves no entry it had drafted without a refetch or a mark. *)
LEMMA SucceedClean ==
  ASSUME TypeOK, Drafts, Clean, conn, NEW m \in Muts, NEW q \in Queries, Succeed(m)
  PROVE  CleanData(q)' /\ CleanSnap(q)'
<1>0. CleanData(q) /\ CleanSnap(q) /\ query[q] \in Entry
  BY DEF Clean, TypeOK
<1>1. Keeps(q) /\ UNCHANGED lapse /\ query'[q] = Succeeded(m, q)
  BY KeepsStill DEF Succeed, net
<1>2. \A o \in Muts : o # m => (Dirties(o, q) => Dirties(o, q)')
  BY EndFacts, DirtiesStill DEF Succeed
<1>3. mut[m].issue \in Issues /\ mut[m].kind \in Kinds /\ mut[m].row \in Rows
  BY PrevType
<1>4. ASSUME query'[q] = query[q], ~ Dirties(m, q)
      PROVE  CleanData(q)' /\ CleanSnap(q)'
  <2>1. \A o \in Muts : Dirties(o, q) => Dirties(o, q)'
    BY <1>2, <1>4
  <2> QED BY <1>0, <1>1, <1>4, <2>1, KeepEntry
<1>5. mut[m].prev[q].has => q \in Saved(mut[m].kind, mut[m].issue)
  BY DEF Drafts
<1>6. CASE mut[m].kind = "create"
  <2>1. ~ Dirties(m, q)
    BY <1>6 DEF Dirties
  <2>2. CASE q = "list"
    <3>1. query'[q] = Invalidate(Added(query[q], mut[m].issue, mut[m].row))
      BY <1>1, <1>6, <2>2 DEF Succeeded
    <3> QED BY <1>0, <1>1, <1>3, <3>1, AddedFacts, InvalidateClean
  <2>3. CASE q # "list"
    BY <1>1, <1>4, <1>6, <2>1, <2>3 DEF Succeeded
  <2> QED BY <2>2, <2>3
<1>7. CASE mut[m].kind = "update"
  <2>1. CASE q \in {"list", mut[m].issue}
    <3>1. query'[q] = Invalidate(query[q])
      BY <1>1, <1>7, <2>1 DEF Succeeded
    <3> QED BY <1>0, <1>1, <3>1, InvalidateClean
  <2>2. CASE q \notin {"list", mut[m].issue}
    <3>1. ~ Dirties(m, q)
      BY <1>7, <2>2 DEF Dirties
    <3> QED BY <1>1, <1>4, <1>7, <2>2, <3>1 DEF Succeeded
  <2> QED BY <2>1, <2>2
<1>8. CASE mut[m].kind = "delete"
  <2>1. CASE q \in Lists
    <3>1. query'[q] = Invalidate(Pruned(query[q], mut[m].issue))
      BY <1>1, <1>8, <2>1 DEF Succeeded
    <3> QED BY <1>0, <1>1, <1>3, <3>1, PrunedFacts, InvalidateClean
  <2>2. CASE q \notin Lists /\ q = mut[m].issue
    BY <1>1, <1>8, <2>2, NoEntryClean DEF Succeeded
  <2>3. CASE q \notin Lists /\ q # mut[m].issue
    <3>1. ~ Dirties(m, q)
      BY <1>5, <1>8, <2>3, NamesApart DEF Dirties, Saved
    <3> QED BY <1>1, <1>4, <1>8, <2>3, <3>1 DEF Succeeded
  <2> QED BY <2>1, <2>2, <2>3
<1> QED BY <1>3, <1>6, <1>7, <1>8 DEF Kinds

LEMMA FailClean ==
  ASSUME TypeOK, Drafts, Clean, conn, NEW m \in Muts, NEW q \in Queries, Fail(m)
  PROVE  CleanData(q)' /\ CleanSnap(q)'
<1>0. CleanData(q) /\ CleanSnap(q) /\ query[q] \in Entry
  BY DEF Clean, TypeOK
<1>1. Keeps(q) /\ query'[q] = Failed(m, q)
  BY KeepsStill DEF Fail, net
<1>2. \A o \in Muts : o # m => (Dirties(o, q) => Dirties(o, q)')
  BY EndFacts, DirtiesStill DEF Fail
<1>3. mut[m].issue \in Issues /\ mut[m].kind \in Kinds /\ mut[m].prev[q].data \in Table
  BY PrevType
<1>4. /\ Restored(m, q) \in Entry
      /\ Restored(m, q).fetch = query[q].fetch /\ Restored(m, q).over = query[q].over
      /\ Restored(m, q).snap = query[q].snap
  BY <1>0, <1>3, RestoredType, PutFacts DEF Restored
<1>5. mut[m].prev[q].has => q \in Saved(mut[m].kind, mut[m].issue)
  BY DEF Drafts
<1>6. CASE q = "list" \/ (q = mut[m].issue /\ mut[m].kind = "update")
  <2>1. query'[q] = Invalidate(Restored(m, q))
    BY <1>1, <1>6 DEF Failed
  <2> QED BY <1>0, <1>1, <1>4, <2>1, InvalidateClean
<1>7. CASE ~ (q = "list" \/ (q = mut[m].issue /\ mut[m].kind = "update"))
  <2>1. query'[q] = Restored(m, q)
    BY <1>1, <1>7 DEF Failed
  <2>2. CASE mut[m].prev[q].has
    <3>1. mut[m].kind = "delete" /\ q \in {"my", mut[m].issue}
      BY <1>3, <1>5, <1>7, <2>2, NamesApart DEF Saved, Kinds
    <3>2. lapse'[q] # {}
      BY <2>2, <3>1 DEF Fail
    <3> QED BY <1>0, <1>1, <1>4, <2>1, <3>2, KeepSnap, ExcusedData
  <2>3. CASE ~ mut[m].prev[q].has
    <3>1. query'[q] = query[q] /\ lapse'[q] = lapse[q]
      BY <2>1, <2>3 DEF Restored, Fail
    <3>2. ~ Dirties(m, q)
      BY <1>7, <2>3 DEF Dirties
    <3>3. \A o \in Muts : Dirties(o, q) => Dirties(o, q)'
      BY <1>2, <3>2
    <3> QED BY <1>0, <1>1, <3>1, <3>3, KeepEntry
  <2> QED BY <2>2, <2>3
<1> QED BY <1>6, <1>7

(* What handling an event does to an entry: a list that is refetched, a page that is
   dropped, or a row that is patched in. *)
LEMMA DeliverClean ==
  ASSUME TypeOK, Ledger, Order, Drafts, Clean, conn, NEW q \in Queries, Deliver
  PROVE  CleanData(q)' /\ CleanSnap(q)'
<1>0. /\ chan # <<>> /\ chan' = Tail(chan)
      /\ UNCHANGED unsent /\ UNCHANGED server /\ UNCHANGED mut
      /\ CleanData(q) /\ CleanSnap(q) /\ query[q] \in Entry
      /\ lapse[q] \in SUBSET Lapses
  BY DEF Deliver, Clean, TypeOK
<1>1. PICK e \in Event : e = Head(chan) /\ e \in InFlight
  BY <1>0, TailFacts
<1>2. e.issue \in Issues /\ e.row \in Rows /\ e.kind \in {"created", "updated", "deleted"}
  BY DEF Event, Rows
<1>3. \A m \in Muts : Dirties(m, q) => Dirties(m, q)'
  BY <1>0, DirtiesStill
<1>4. CASE ~ Touches(q, e)
  <2>1. query'[q] = query[q] /\ lapse'[q] = lapse[q]
    BY <1>1, <1>4 DEF Deliver
  <2>2. Keeps(q)
    BY <1>1, <1>4, CaughtDeliver DEF Keeps, Touches
  <2> QED BY <1>0, <1>3, <2>1, <2>2, KeepEntry
<1>5. CASE Touches(q, e)
  <2> DEFINE n == Applied(q, e)
  <2>0. n \in Entry
    BY AppliedType
  <2>1. query'[q] = Overtaken(n) /\ lapse'[q] = lapse[q] \cup Blame(q, e)
    BY <1>1, <1>5 DEF Deliver
  <2>2. /\ query'[q].has = n.has /\ query'[q].data = n.data
        /\ query'[q].invalid = n.invalid /\ query'[q].fetch = n.fetch
        /\ query'[q].fetch = "read" => query'[q].over
    BY <2>0, <2>1, OvertakenFacts
  <2>3. CleanSnap(q)'
    BY <2>2 DEF CleanSnap
  <2>4. CASE q = "my" \/ e.kind = "deleted"
    <3>1. CASE q \in {"list", "my"}
      <4>1. PICK c \in Entry : n = Invalidate(c)
        BY <1>0, <1>2, <2>4, <3>1, AppliedCases, PrunedFacts
      <4>2. n.has => n.fetch # "none" \/ n.invalid
        BY <4>1, InvalidateFacts
      <4> QED BY <2>2, <2>3, <4>2, ExcusedData
    <3>2. CASE q \notin {"list", "my"}
      <4>1. q = e.issue
        BY <1>5, <3>2, NamesApart DEF Touches, Scope, Queries
      <4>2. n = NoEntry
        BY <2>4, <3>2, <4>1, AppliedCases
      <4>3. ~ NoEntry.has
        BY DEF NoEntry
      <4>4. ~ query'[q].has
        BY <2>2, <4>2, <4>3
      <4> QED BY <2>3, <4>4, ExcusedData
    <3> QED BY <3>1, <3>2
  <2>5. CASE q # "my" /\ e.kind # "deleted" /\ (~ n.has \/ Excused(q)')
    BY <2>2, <2>3, <2>5 DEF CleanData
  <2>6. CASE q # "my" /\ e.kind # "deleted" /\ n.has /\ ~ Excused(q)'
    <3>1. q = "list" \/ (q = e.issue /\ q \in Pages)
      BY <1>5, <2>6, NamesApart DEF Touches, Scope, Queries
    <3>2. \/ n = Added(query[q], e.issue, e.row) /\ e.kind = "created"
          \/ n = Patched(query[q], e.issue, e.row) /\ e.kind = "updated"
          \/ n = query[q] /\ e.kind = "created" /\ q = e.issue /\ q \in Pages
      BY <1>2, <2>6, <3>1, AppliedCases
    <3>3. query[q].has /\ n.fetch = query[q].fetch
      BY <1>0, <1>2, <2>6, <3>2, AddedFacts, PatchedFacts
    <3>4. /\ n.fetch = "none" /\ ~ n.invalid /\ lapse[q] = {} /\ Blame(q, e) = {}
          /\ \A m \in Muts : ~ Dirties(m, q)'
      BY <2>1, <2>2, <2>6 DEF Excused
    <3>5. ~ query[q].invalid
      BY <2>6, <3>3, <3>4 DEF Blame
    <3>6. ~ Excused(q)
      BY <1>3, <3>3, <3>4, <3>5 DEF Excused
    <3>7. \A i \in Scope(q) : Caught(query[q].data[i], i)
      BY <1>0, <3>3, <3>6 DEF CleanData
    <3>8. e.late => n.data = query[q].data
      BY <3>4 DEF Blame
    <3>9. ASSUME NEW i \in Scope(q), NEW d \in Rows, d = n.data[i]
          PROVE  Caught(d, i)'
      <4>0. i \in Issues /\ Caught(query[q].data[i], i) /\ query[q].data[i] \in Rows
        BY <3>7, ScopeIssues, EntryRows
      <4>1. CASE n.data[i] = query[q].data[i] /\ i # e.issue
        BY <1>1, <3>9, <4>0, <4>1, CaughtDeliver
      <4>2. CASE i = e.issue /\ e.kind = "created" /\ query[q].data[i] # 0
        <5>1. d = query[q].data[i]
          BY <1>0, <1>2, <3>2, <3>3, <3>9, <4>0, <4>2, AddedFacts
        <5> QED BY <1>1, <4>0, <4>2, <5>1, CaughtDeliver
      <4>3. CASE i = e.issue /\ e.kind = "updated" /\ query[q].data[i] = 0
        <5>1. d = query[q].data[i]
          BY <1>0, <1>2, <3>2, <3>3, <3>9, <4>0, <4>3, PatchedFacts
        <5> QED BY <1>1, <4>0, <4>3, <5>1, CaughtDeliver
      <4>4. CASE i = e.issue /\ e.kind = "created" /\ query[q].data[i] = 0
        <5>1. n = Added(query[q], e.issue, e.row)
          BY <3>2, <3>3, <4>4 DEF Drafts
        <5>2. d = e.row
          BY <1>0, <1>2, <3>3, <3>9, <4>0, <4>4, <5>1, AddedFacts
        <5>3. ~ e.late
          BY <1>1, <3>8, <3>9, <4>4, <5>2 DEF Ledger
        <5> QED BY <1>1, <4>4, <5>2, <5>3, CaughtBrought
      <4>5. CASE i = e.issue /\ e.kind = "updated" /\ query[q].data[i] # 0
        <5>1. d = e.row
          BY <1>0, <1>2, <3>2, <3>3, <3>9, <4>0, <4>5, PatchedFacts
        <5>2. CASE e.late
          BY <1>1, <3>8, <3>9, <4>0, <4>5, <5>1, <5>2, CaughtAlready
        <5>3. CASE ~ e.late
          BY <1>1, <4>5, <5>1, <5>3, CaughtBrought
        <5> QED BY <5>2, <5>3
      <4>6. CASE i # e.issue
        <5>1. CASE n = Added(query[q], e.issue, e.row)
          <6>1. Added(query[q], e.issue, e.row).data[i] = query[q].data[i]
            <7>1. \A j \in Issues : Added(query[q], e.issue, e.row).data[j] =
                     IF j = e.issue /\ query[q].data[e.issue] = 0
                       THEN e.row ELSE query[q].data[j]
              BY <1>0, <1>2, <3>3, AddedFacts
            <7> QED BY <4>0, <4>6, <7>1
          <6> QED BY <4>1, <4>6, <5>1, <6>1
        <5>2. CASE n = Patched(query[q], e.issue, e.row)
          <6>1. Patched(query[q], e.issue, e.row).data[i] = query[q].data[i]
            <7>1. \A j \in Issues : Patched(query[q], e.issue, e.row).data[j] =
                     IF j = e.issue /\ query[q].data[e.issue] # 0
                       THEN e.row ELSE query[q].data[j]
              BY <1>0, <1>2, <3>3, PatchedFacts
            <7> QED BY <4>0, <4>6, <7>1
          <6> QED BY <4>1, <4>6, <5>2, <6>1
        <5>3. CASE n = query[q]
          BY <4>1, <4>6, <5>3
        <5> QED BY <3>2, <5>1, <5>2, <5>3
      <4> QED BY <1>2, <2>6, <4>2, <4>3, <4>4, <4>5, <4>6
    <3>10. \A i \in Scope(q) : n.data[i] \in Rows
      BY <2>0, ScopeIssues DEF Entry, Table
    <3>11. \A i \in Scope(q) : Caught(query[q].data[i], i)'
      BY <2>2, <3>9, <3>10
    <3>12. Scope(q)' = Scope(q)
      BY DEF Scope
    <3> QED BY <2>3, <3>11, <3>12 DEF CleanData
  <2> QED BY <2>4, <2>5, <2>6
<1> QED BY <1>4, <1>5

LEMMA NextClean ==
  ASSUME TypeOK, Ledger, Order, Drafts, Clean, [Next]_vars
  PROVE  Clean'
<1> SUFFICES ASSUME conn', NEW q \in Queries PROVE CleanData(q)' /\ CleanSnap(q)'
  BY DEF Clean, Queries
<1>1. CASE Connect
  BY <1>1, ConnectClean
<1>2. CASE ~ Connect
  <2>1. ~ Drop /\ ~ Replace
    BY DEF Drop, Replace
  <2>2. conn
    <3>1. CASE Next
      BY <1>2, <2>1, <3>1
         DEF Next, Remote, Deliver, Publish, Mount, Unmount, Collect, Read, Land, Mutate,
             CreateIssue, UpdateIssue, DeleteIssue, Commit, Reject, Succeed, Fail, net
    <3>2. CASE UNCHANGED vars
      BY <3>2 DEF vars, net
    <3> QED BY <3>1, <3>2
  <2> QED BY <1>2, <2>1, <2>2, QuietClean, EntryClean, DraftClean, SucceedClean, FailClean,
             DeliverClean DEF Next, Mutate
<1> QED BY <1>1, <1>2

LEMMA InitCache == Init => ICache
<1> SUFFICES ASSUME Init PROVE ICache
  OBVIOUS
<1>1. unsent = {} /\ chan = <<>> /\ dead = {} /\ ~ conn
  BY DEF Init
<1>2. Len(chan) = 0
  BY <1>1
<1>3. InFlight = {}
  BY <1>1, <1>2 DEF InFlight
<1>4. Ledger
  BY <1>1, <1>3 DEF Ledger
<1>5. Order
  BY <1>1, <1>2 DEF Order
<1>6. Clean
  BY <1>1 DEF Clean
<1>7. Drafts
  <2>1. \A m \in Muts, q \in Queries : ~ mut[m].prev[q].has
    BY DEF Init, NoSnapshot
  <2>2. \A q \in Pages : ~ query[q].has
    BY NamesApart DEF Init, NoEntry, Queries
  <2> QED BY <2>1, <2>2 DEF Drafts, Queries
<1> QED BY <1>4, <1>5, <1>6, <1>7 DEF ICache

(* What is in flight was written, in its order, and what is on screen while connected is
   caught up by it. *)
THEOREM InductiveCache == Spec => []ICache
<1>1. TypeOK /\ ICache /\ [Next]_vars => ICache'
  BY NextStream, NextDrafts, NextClean DEF ICache
<1> QED BY InitCache, TypeCorrect, <1>1, PTL DEF Spec

LEMMA CleanAccounted ==
  ASSUME TypeOK, Clean
  PROVE  Accounted
<1> SUFFICES ASSUME NEW q \in Queries, query[q].has, NEW i \in Scope(q), lapse[q] = {},
                    ~ Owed(q, i)
             PROVE  Fresh(q, i)
  BY DEF Accounted
<1>1. /\ conn /\ query[q].fetch = "none" /\ ~ query[q].invalid
      /\ ~ Coming(i) /\ \A m \in Muts : Still(m)
  BY DEF Owed
<1>2. ~ Excused(q)
  BY <1>1 DEF Excused, Dirties
<1>3. Caught(query[q].data[i], i)
  BY <1>1, <1>2 DEF Clean, CleanData
<1>4. \A e \in InFlight : e.issue # i
  BY <1>1 DEF Coming, InFlight
<1> QED BY <1>3, <1>4 DEF Caught, Fresh

(* A stale row is always somebody's debt, or of one of the five kinds the client has no
   answer to: whatever the order in which events, answers, rollbacks and reconnections
   arrive. *)
THEOREM StaleRowsOwed == Spec => []Accounted
BY TypeCorrect, InductiveCache, CleanAccounted, PTL DEF ICache
=============================================================================
