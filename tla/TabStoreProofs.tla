----------------------------- MODULE TabStoreProofs -----------------------------
(***************************************************************************)
(* Every operation of TabStore leads from a sound store to a sound store,  *)
(* for any set of workspaces and pages and any number of tabs.             *)
(***************************************************************************)
EXTENDS TabStore, TLAPS, FunctionTheorems, SequenceTheorems, FiniteSetTheorems,
        WellFoundedInduction

----------------------------------------------------------------------------
(* RemoveAt and InsertAt, position by position. *)

LEMMA Removed ==
    ASSUME NEW S, NEW t \in Seq(S), NEW k \in 1..Len(t)
    PROVE  /\ RemoveAt(t, k) \in Seq(S)
           /\ Len(RemoveAt(t, k)) = Len(t) - 1
           /\ \A j \in 1..(Len(t) - 1) : RemoveAt(t, k)[j] = IF j < k THEN t[j] ELSE t[j + 1]
<1> DEFINE a == SubSeq(t, 1, k - 1)
           b == SubSeq(t, k + 1, Len(t))
<1>1. Len(t) \in Nat /\ k \in Nat /\ 1 <= k /\ k <= Len(t)
  OBVIOUS
<1>2. a \in Seq(S) /\ Len(a) = k - 1 /\ \A j \in 1..(k - 1) : a[j] = t[j]
  BY <1>1, SubSeqProperties
<1>3. b \in Seq(S) /\ Len(b) = Len(t) - k /\ \A j \in 1..(Len(t) - k) : b[j] = t[k + j]
  BY <1>1, SubSeqProperties
<1> HIDE DEF a, b
<1>4. /\ a \o b \in Seq(S)
      /\ Len(a \o b) = Len(a) + Len(b)
      /\ \A j \in 1..(Len(a) + Len(b)) : (a \o b)[j] = IF j <= Len(a) THEN a[j] ELSE b[j - Len(a)]
  BY <1>2, <1>3, ConcatProperties
<1>5. \A j \in 1..(Len(t) - 1) : (a \o b)[j] = IF j < k THEN t[j] ELSE t[j + 1]
  <2> TAKE j \in 1..(Len(t) - 1)
  <2>1. CASE j < k
    BY <1>1, <1>2, <1>3, <1>4, <2>1
  <2>2. CASE ~(j < k)
    <3>1. (a \o b)[j] = b[j - (k - 1)] /\ j - (k - 1) \in 1..(Len(t) - k)
      BY <1>1, <1>2, <1>3, <1>4, <2>2
    <3>2. b[j - (k - 1)] = t[k + (j - (k - 1))] /\ k + (j - (k - 1)) = j + 1
      BY <1>1, <1>3, <3>1
    <3> QED BY <1>1, <2>2, <3>1, <3>2
  <2> QED BY <2>1, <2>2
<1>6. RemoveAt(t, k) = a \o b
  BY DEF RemoveAt, a, b
<1>7. Len(a \o b) = Len(t) - 1
  BY <1>1, <1>2, <1>3, <1>4
<1> QED BY <1>4, <1>5, <1>6, <1>7

LEMMA Inserted ==
    ASSUME NEW S, NEW t \in Seq(S), NEW k \in 1..(Len(t) + 1), NEW x \in S
    PROVE  /\ InsertAt(t, k, x) \in Seq(S)
           /\ Len(InsertAt(t, k, x)) = Len(t) + 1
           /\ \A j \in 1..(Len(t) + 1) :
                InsertAt(t, k, x)[j] = IF j < k THEN t[j] ELSE IF j = k THEN x ELSE t[j - 1]
<1> DEFINE a == SubSeq(t, 1, k - 1)
           b == SubSeq(t, k, Len(t))
           c == a \o <<x>>
<1>1. Len(t) \in Nat /\ k \in Nat /\ 1 <= k /\ k <= Len(t) + 1
  OBVIOUS
<1>2. a \in Seq(S) /\ Len(a) = k - 1 /\ \A j \in 1..(k - 1) : a[j] = t[j]
  BY <1>1, SubSeqProperties
<1>3. b \in Seq(S) /\ Len(b) = Len(t) - k + 1 /\ \A j \in 1..(Len(t) - k + 1) : b[j] = t[k + j - 1]
  BY <1>1, SubSeqProperties
<1> HIDE DEF a, b
<1>4. c \in Seq(S) /\ Len(c) = k /\ c[k] = x /\ \A j \in 1..(k - 1) : c[j] = t[j]
  BY <1>1, <1>2
<1> HIDE DEF c
<1>5. /\ c \o b \in Seq(S)
      /\ Len(c \o b) = Len(c) + Len(b)
      /\ \A j \in 1..(Len(c) + Len(b)) : (c \o b)[j] = IF j <= Len(c) THEN c[j] ELSE b[j - Len(c)]
  BY <1>3, <1>4, ConcatProperties
<1>6. \A j \in 1..(Len(t) + 1) :
        (c \o b)[j] = IF j < k THEN t[j] ELSE IF j = k THEN x ELSE t[j - 1]
  BY <1>1, <1>3, <1>4, <1>5
<1>7. InsertAt(t, k, x) = c \o b
  BY DEF InsertAt, a, b, c
<1> QED BY <1>1, <1>3, <1>4, <1>5, <1>6, <1>7

----------------------------------------------------------------------------
(* Groups *)

UniqueIn(t) == \A j, k \in DOMAIN t : t[j].id = t[k].id => j = k

SoundGroup(g) ==
    /\ g \in Group
    /\ UniqueIn(g.tabs)
    /\ g.active \in IdsIn(g)
    /\ PinnedFirst(g)

LEMMA IdsNat ==
    ASSUME NEW g \in Group
    PROVE  IdsIn(g) \subseteq Nat
<1> SUFFICES ASSUME NEW k \in DOMAIN g.tabs PROVE g.tabs[k].id \in Nat
  BY DEF IdsIn
<1>1. g.tabs \in Seq(Tab)
  BY DEF Group
<1>2. g.tabs[k] \in Tab
  BY <1>1
<1> QED BY <1>2 DEF Tab

LEMMA MadeTab ==
    ASSUME NEW p \in Location, NEW i \in Nat
    PROVE  makeTab(p, i) \in Tab /\ makeTab(p, i).id = i /\ ~makeTab(p, i).pinned
BY DEF makeTab, Tab

(* A group of one new tab. *)
LEMMA Seeded ==
    ASSUME NEW p \in Location, NEW i \in Nat
    PROVE  LET g == [tabs |-> <<makeTab(p, i)>>, active |-> i]
           IN SoundGroup(g) /\ IdsIn(g) = {i}
BY MadeTab DEF SoundGroup, Group, UniqueIn, IdsIn, PinnedFirst

(* A new tab at the end. *)
LEMMA Appended ==
    ASSUME NEW g, SoundGroup(g), NEW p \in Location, NEW i \in Nat, i \notin IdsIn(g),
           NEW a \in IdsIn(g) \cup {i}
    PROVE  LET h == [tabs |-> Append(g.tabs, makeTab(p, i)), active |-> a]
           IN SoundGroup(h) /\ IdsIn(h) = IdsIn(g) \cup {i}
<1> DEFINE x == makeTab(p, i)
           t == Append(g.tabs, x)
           h == [tabs |-> t, active |-> a]
           n == Len(g.tabs)
<1>1. x \in Tab /\ x.id = i /\ ~x.pinned
  BY MadeTab
<1>2. g.tabs \in Seq(Tab) /\ n \in Nat /\ DOMAIN g.tabs = 1..n
  BY DEF SoundGroup, Group
<1> HIDE DEF x
<1>3. t \in Seq(Tab) /\ DOMAIN t = 1..(n + 1) /\ t[n + 1] = x /\ \A k \in 1..n : t[k] = g.tabs[k]
  BY <1>1, <1>2
<1> HIDE DEF t
<1>4. IdsIn(h) = IdsIn(g) \cup {i}
  <2>1. \A j \in 1..(n + 1) : j \in 1..n \/ j = n + 1
    BY <1>2
  <2>2. n + 1 \in 1..(n + 1) /\ 1..n \subseteq 1..(n + 1)
    BY <1>2
  <2> QED BY <1>1, <1>2, <1>3, <2>1, <2>2 DEF IdsIn
<1>5. UniqueIn(t)
  <2> SUFFICES ASSUME NEW j \in 1..(n + 1), NEW k \in 1..(n + 1), t[j].id = t[k].id PROVE j = k
    BY <1>3 DEF UniqueIn
  <2>1. \A m \in 1..n : t[m].id \in IdsIn(g) /\ t[m].id # i
    BY <1>2, <1>3 DEF IdsIn
  <2>2. CASE j \in 1..n /\ k \in 1..n
    BY <1>2, <1>3, <2>2 DEF SoundGroup, UniqueIn
  <2>3. CASE ~(j \in 1..n /\ k \in 1..n)
    BY <1>1, <1>2, <1>3, <2>1, <2>3
  <2> QED BY <2>2, <2>3
<1>6. PinnedFirst(h)
  BY <1>1, <1>2, <1>3 DEF PinnedFirst, SoundGroup
<1>7. h \in Group
  <2>1. a \in Nat
    BY IdsNat DEF SoundGroup
  <2> QED BY <1>3, <2>1 DEF Group
<1>8. SoundGroup(h)
  <2>1. h.active \in IdsIn(h)
    BY <1>4
  <2> QED BY <1>5, <1>6, <1>7, <2>1 DEF SoundGroup
<1> QED BY <1>4, <1>8 DEF t, x

(* A tab changed in place keeps its id and its pin. *)
LEMMA Changed ==
    ASSUME NEW g, SoundGroup(g), NEW k \in DOMAIN g.tabs,
           NEW x \in Tab, x.id = g.tabs[k].id, x.pinned = g.tabs[k].pinned
    PROVE  LET h == [g EXCEPT !.tabs = [g.tabs EXCEPT ![k] = x]]
           IN SoundGroup(h) /\ IdsIn(h) = IdsIn(g)
<1> DEFINE t == [g.tabs EXCEPT ![k] = x]
           h == [g EXCEPT !.tabs = t]
<1>1. g \in Group /\ g.tabs \in Seq(Tab)
  BY DEF SoundGroup, Group
<1>2. t \in Seq(Tab) /\ DOMAIN t = DOMAIN g.tabs
      /\ \A j \in DOMAIN t : t[j].id = g.tabs[j].id /\ t[j].pinned = g.tabs[j].pinned
  BY <1>1
<1> HIDE DEF t
<1>3. h \in Group /\ h.tabs = t /\ h.active = g.active
  BY <1>1, <1>2 DEF Group
<1>4. IdsIn(h) = IdsIn(g)
  BY <1>2, <1>3 DEF IdsIn
<1> QED BY <1>2, <1>3, <1>4 DEF SoundGroup, UniqueIn, PinnedFirst, t

(* Another of its tabs in focus. *)
LEMMA Refocused ==
    ASSUME NEW g, SoundGroup(g), NEW a \in IdsIn(g)
    PROVE  LET h == [g EXCEPT !.active = a] IN SoundGroup(h) /\ IdsIn(h) = IdsIn(g)
<1> DEFINE h == [g EXCEPT !.active = a]
<1>1. g \in Group /\ a \in Nat
  BY IdsNat DEF SoundGroup
<1>2. h \in Group /\ h.tabs = g.tabs /\ h.active = a
  BY <1>1 DEF Group
<1> QED BY <1>2 DEF SoundGroup, IdsIn, PinnedFirst

(* The tabs without the one at position k. *)
PinsFirst(t) == \A j, k \in DOMAIN t : j < k /\ t[k].pinned => t[j].pinned

LEMMA Without ==
    ASSUME NEW t \in Seq(Tab), UniqueIn(t), PinsFirst(t), NEW k \in DOMAIN t
    PROVE  LET r == RemoveAt(t, k)
           IN /\ r \in Seq(Tab) /\ Len(r) = Len(t) - 1
              /\ UniqueIn(r) /\ PinsFirst(r)
              /\ \A j \in DOMAIN r : \E m \in DOMAIN t : m # k /\ r[j] = t[m]
              /\ \A m \in DOMAIN t : m # k => \E j \in DOMAIN r : r[j] = t[m]
<1> DEFINE r == RemoveAt(t, k)
           n == Len(t)
<1>1. n \in Nat /\ DOMAIN t = 1..n
  OBVIOUS
<1>2. r \in Seq(Tab) /\ Len(r) = n - 1 /\ DOMAIN r = 1..(n - 1)
      /\ \A j \in 1..(n - 1) : r[j] = IF j < k THEN t[j] ELSE t[j + 1]
  <2>1. k \in 1..Len(t)
    BY <1>1
  <2>2. r \in Seq(Tab) /\ Len(r) = Len(t) - 1
        /\ \A j \in 1..(Len(t) - 1) : r[j] = IF j < k THEN t[j] ELSE t[j + 1]
    BY <2>1, Removed
  <2> HIDE DEF r
  <2> QED BY <1>1, <2>2
<1> HIDE DEF r
<1>3. \A j \in DOMAIN r : \E m \in 1..n : m # k /\ r[j] = t[m] /\ m = IF j < k THEN j ELSE j + 1
  BY <1>1, <1>2
<1>4. \A m \in 1..n : m # k => \E j \in DOMAIN r : r[j] = t[m]
  <2> SUFFICES ASSUME NEW m \in 1..n, m # k PROVE \E j \in DOMAIN r : r[j] = t[m]
    OBVIOUS
  <2>1. CASE m < k
    BY <1>1, <1>2, <2>1
  <2>2. CASE m > k
    <3>1. m - 1 \in 1..(n - 1) /\ r[m - 1] = t[m]
      BY <1>1, <1>2, <2>2
    <3> QED BY <1>2, <3>1
  <2> QED BY <1>1, <2>1, <2>2
<1>5. UniqueIn(r)
  <2> SUFFICES ASSUME NEW i \in DOMAIN r, NEW j \in DOMAIN r, r[i].id = r[j].id PROVE i = j
    BY DEF UniqueIn
  <2>1. PICK m \in 1..n : r[i] = t[m] /\ m = IF i < k THEN i ELSE i + 1
    BY <1>3
  <2>2. PICK q \in 1..n : r[j] = t[q] /\ q = IF j < k THEN j ELSE j + 1
    BY <1>3
  <2>3. m = q
    BY <1>1, <2>1, <2>2 DEF UniqueIn
  <2> QED BY <1>1, <1>2, <2>1, <2>2, <2>3
<1>6. PinsFirst(r)
  <2> SUFFICES ASSUME NEW i \in DOMAIN r, NEW j \in DOMAIN r, i < j, r[j].pinned PROVE r[i].pinned
    BY DEF PinsFirst
  <2>1. PICK m \in 1..n : r[i] = t[m] /\ m = IF i < k THEN i ELSE i + 1
    BY <1>3
  <2>2. PICK q \in 1..n : r[j] = t[q] /\ q = IF j < k THEN j ELSE j + 1
    BY <1>3
  <2>3. m < q
    BY <1>1, <1>2, <2>1, <2>2
  <2> QED BY <1>1, <2>1, <2>2, <2>3 DEF PinsFirst
<1> QED BY <1>1, <1>2, <1>3, <1>4, <1>5, <1>6 DEF r

(* One tab less, of two or more. *)
LEMMA Closed ==
    ASSUME NEW g, SoundGroup(g), NEW k \in DOMAIN g.tabs,
           NEW a, \E j \in DOMAIN RemoveAt(g.tabs, k) : a = RemoveAt(g.tabs, k)[j].id
    PROVE  LET h == [tabs |-> RemoveAt(g.tabs, k), active |-> a]
           IN SoundGroup(h) /\ IdsIn(h) = IdsIn(g) \ {g.tabs[k].id}
<1> DEFINE t == g.tabs
           r == RemoveAt(t, k)
           h == [tabs |-> r, active |-> a]
<1>1. g \in Group /\ t \in Seq(Tab) /\ UniqueIn(t) /\ PinsFirst(t)
  BY DEF SoundGroup, Group, PinnedFirst, PinsFirst
<1>2. /\ r \in Seq(Tab) /\ UniqueIn(r) /\ PinsFirst(r)
      /\ \A j \in DOMAIN r : \E m \in DOMAIN t : m # k /\ r[j] = t[m]
      /\ \A m \in DOMAIN t : m # k => \E j \in DOMAIN r : r[j] = t[m]
  BY <1>1, Without
<1>3. a \in IdsIn(h)
  BY DEF IdsIn
<1> HIDE DEF r
<1>4. IdsIn(h) = IdsIn(g) \ {t[k].id}
  <2>1. ASSUME NEW j \in DOMAIN r PROVE r[j].id \in IdsIn(g) \ {t[k].id}
    <3>1. PICK m \in DOMAIN t : m # k /\ r[j] = t[m]
      BY <1>2
    <3> QED BY <1>1, <3>1 DEF IdsIn, UniqueIn
  <2>2. ASSUME NEW m \in DOMAIN t, t[m].id # t[k].id PROVE t[m].id \in IdsIn(h)
    BY <1>2, <2>2 DEF IdsIn
  <2> QED BY <2>1, <2>2 DEF IdsIn
<1>5. a \in Nat
  BY <1>1, <1>3, <1>4, IdsNat
<1>6. h \in Group
  BY <1>2, <1>5 DEF Group
<1>7. PinnedFirst(h)
  BY <1>2 DEF PinnedFirst, PinsFirst
<1> QED BY <1>2, <1>3, <1>4, <1>6, <1>7 DEF SoundGroup, r

(* A tab taken out and put back, as x, where the pinned zone allows it. *)
LEMMA Reinserted ==
    ASSUME NEW g, SoundGroup(g), NEW k \in DOMAIN g.tabs, NEW d \in 1..Len(g.tabs),
           NEW x \in Tab, x.id = g.tabs[k].id,
           x.pinned => \A j \in 1..(d - 1) : RemoveAt(g.tabs, k)[j].pinned,
           ~x.pinned => \A j \in d..(Len(g.tabs) - 1) : ~RemoveAt(g.tabs, k)[j].pinned
    PROVE  LET h == [g EXCEPT !.tabs = InsertAt(RemoveAt(g.tabs, k), d, x)]
           IN SoundGroup(h) /\ IdsIn(h) = IdsIn(g)
<1> DEFINE t == g.tabs
           n == Len(t)
           r == RemoveAt(t, k)
           q == InsertAt(r, d, x)
           h == [g EXCEPT !.tabs = q]
<1>1. g \in Group /\ t \in Seq(Tab) /\ UniqueIn(t) /\ PinsFirst(t) /\ n \in Nat /\ DOMAIN t = 1..n
  BY DEF SoundGroup, Group, PinnedFirst, PinsFirst
<1>2. /\ r \in Seq(Tab) /\ Len(r) = n - 1 /\ UniqueIn(r) /\ PinsFirst(r)
      /\ \A j \in DOMAIN r : \E m \in DOMAIN t : m # k /\ r[j] = t[m]
      /\ \A m \in DOMAIN t : m # k => \E j \in DOMAIN r : r[j] = t[m]
  <2>1. t \in Seq(Tab) /\ UniqueIn(t) /\ PinsFirst(t) /\ k \in DOMAIN t
    BY <1>1
  <2> QED BY ONLY <2>1, Without
<1>2a. \A a, b \in DOMAIN r : r[a].id = r[b].id => a = b
  BY <1>2 DEF UniqueIn
<1>2b. \A a, b \in DOMAIN r : a < b /\ r[b].pinned => r[a].pinned
  BY <1>2 DEF PinsFirst
<1>3. /\ x.pinned => \A j \in 1..(d - 1) : r[j].pinned
      /\ ~x.pinned => \A j \in d..(n - 1) : ~r[j].pinned
  OBVIOUS
<1> HIDE DEF r
<1>4. DOMAIN r = 1..(n - 1)
  BY <1>1, <1>2
<1>5. /\ q \in Seq(Tab) /\ DOMAIN q = 1..n
      /\ \A j \in 1..n : q[j] = IF j < d THEN r[j] ELSE IF j = d THEN x ELSE r[j - 1]
  <2>1. d \in 1..(Len(r) + 1)
    BY <1>1, <1>2
  <2>2. /\ q \in Seq(Tab) /\ Len(q) = Len(r) + 1
        /\ \A j \in 1..(Len(r) + 1) : q[j] = IF j < d THEN r[j] ELSE IF j = d THEN x ELSE r[j - 1]
    BY <1>2, <2>1, Inserted
  <2>3. Len(r) + 1 = n
    BY <1>1, <1>2
  <2> QED BY <2>2, <2>3
<1> HIDE DEF q
<1>6. h \in Group /\ h.tabs = q /\ h.active = g.active
  BY <1>1, <1>5 DEF Group
<1>7. \A j \in 1..n : j # d => \E m \in DOMAIN r : q[j] = r[m] /\ m = IF j < d THEN j ELSE j - 1
  BY <1>1, <1>4, <1>5
<1>8. \A m \in DOMAIN r : r[m].id # x.id
  BY <1>1, <1>2 DEF UniqueIn
<1>9. UniqueIn(q)
  <2> SUFFICES ASSUME NEW i \in 1..n, NEW j \in 1..n, q[i].id = q[j].id PROVE i = j
    BY <1>5 DEF UniqueIn
  <2>1. CASE i # d /\ j # d
    <3>1. PICK a \in DOMAIN r : q[i] = r[a] /\ a = IF i < d THEN i ELSE i - 1
      BY <1>7, <2>1
    <3>2. PICK b \in DOMAIN r : q[j] = r[b] /\ b = IF j < d THEN j ELSE j - 1
      BY <1>7, <2>1
    <3>3. a = b
      BY <1>2a, <3>1, <3>2
    <3> QED BY <1>1, <1>4, <2>1, <3>1, <3>2, <3>3
  <2>2. CASE ~(i # d /\ j # d)
    BY <1>5, <1>7, <1>8, <2>2
  <2> QED BY <2>1, <2>2
<1>10. PinsFirst(q)
  <2> SUFFICES ASSUME NEW i \in 1..n, NEW j \in 1..n, i < j, q[j].pinned PROVE q[i].pinned
    BY <1>5 DEF PinsFirst
  <2>1. CASE j = d
    BY <1>1, <1>3, <1>5, <2>1
  <2>2. CASE i = d
    <3>1. q[j] = r[j - 1] /\ j - 1 \in d..(n - 1) /\ q[i] = x
      BY <1>1, <1>5, <2>2
    <3> QED BY <1>3, <3>1
  <2>3. CASE i # d /\ j # d
    <3>1. PICK a \in DOMAIN r : q[i] = r[a] /\ a = IF i < d THEN i ELSE i - 1
      BY <1>7, <2>3
    <3>2. PICK b \in DOMAIN r : q[j] = r[b] /\ b = IF j < d THEN j ELSE j - 1
      BY <1>7, <2>3
    <3>3. a < b
      BY <1>1, <1>4, <2>3, <3>1, <3>2
    <3> QED BY <1>2b, <3>1, <3>2, <3>3
  <2> QED BY <2>1, <2>2, <2>3
<1>11. IdsIn(h) = IdsIn(g)
  <2>1. ASSUME NEW j \in 1..n PROVE q[j].id \in IdsIn(g)
    <3>1. CASE j = d
      BY <1>1, <1>5, <3>1 DEF IdsIn
    <3>2. CASE j # d
      <4>1. PICK a \in DOMAIN r : q[j] = r[a]
        BY <1>7, <3>2
      <4>2. PICK m \in DOMAIN t : r[a] = t[m]
        BY <1>2
      <4> QED BY <4>1, <4>2 DEF IdsIn
    <3> QED BY <3>1, <3>2
  <2>2. ASSUME NEW m \in DOMAIN t PROVE \E j \in 1..n : q[j].id = t[m].id
    <3>1. CASE m = k
      BY <1>5, <3>1
    <3>2. CASE m # k
      <4>1. PICK j \in DOMAIN r : r[j] = t[m]
        BY <1>2, <3>2
      <4>2. CASE j < d
        BY <1>1, <1>4, <1>5, <4>1, <4>2
      <4>3. CASE ~(j < d)
        <5>1. j + 1 \in 1..n /\ q[j + 1] = r[j]
          BY <1>1, <1>4, <1>5, <4>3
        <5>2. q[j + 1].id = t[m].id
          BY <4>1, <5>1
        <5>3. PICK a \in 1..n : a = j + 1
          BY <5>1
        <5>4. q[a].id = t[m].id
          BY <5>2, <5>3
        <5> WITNESS a \in 1..n
        <5> QED BY <5>4
      <4> QED BY <4>2, <4>3
    <3> QED BY <3>1, <3>2
  <2>3. IdsIn(h) = {q[j].id : j \in 1..n} /\ IdsIn(g) = {t[m].id : m \in DOMAIN t}
    BY <1>5, <1>6 DEF IdsIn
  <2>4. IdsIn(h) \subseteq IdsIn(g)
    BY <2>1, <2>3
  <2>5. IdsIn(g) \subseteq IdsIn(h)
    <3> SUFFICES ASSUME NEW a \in IdsIn(g) PROVE a \in IdsIn(h)
      OBVIOUS
    <3>1. PICK m \in DOMAIN t : a = t[m].id
      BY <2>3
    <3>2. PICK j \in 1..n : q[j].id = t[m].id
      BY <2>2
    <3> QED BY <2>3, <3>1, <3>2
  <2> QED BY <2>4, <2>5
<1>12. h.active \in IdsIn(h)
  BY <1>6, <1>11 DEF SoundGroup
<1>13. PinnedFirst(h)
  BY <1>6, <1>10 DEF PinnedFirst, PinsFirst
<1> QED BY <1>6, <1>9, <1>11, <1>12, <1>13 DEF SoundGroup, q, r

----------------------------------------------------------------------------
(* The pinned zone *)

LEMMA Least ==
    ASSUME NEW T, T \subseteq Nat, T # {}
    PROVE  \E m \in T : \A k \in T : m <= k
<1>1. \E m \in T : \A k \in T : ~(<<k, m>> \in OpToRel(<, Nat))
  BY WFMin, NatLessThanWellFounded
<1>2. PICK m \in T : \A k \in T : ~(<<k, m>> \in OpToRel(<, Nat))
  BY <1>1
<1>3. ASSUME NEW k \in T, k < m PROVE FALSE
  <2>1. <<k, m>> \in Nat \X Nat
    OBVIOUS
  <2>2. <<k, m>> \in OpToRel(<, Nat)
    BY <1>3, <2>1 DEF OpToRel
  <2> QED BY <1>2, <2>2
<1>4. m \in Nat /\ \A k \in T : k \in Nat /\ ~(k < m)
  BY <1>3
<1>5. \A k \in T : m <= k
  BY <1>4
<1> QED BY <1>5

LEMMA Boundary ==
    ASSUME NEW t \in Seq(Tab), PinsFirst(t)
    PROVE  /\ pinnedBoundary(t) \in 0..Len(t)
           /\ \A k \in 1..Len(t) : t[k].pinned <=> k <= pinnedBoundary(t)
<1> DEFINE K == {k \in 1..Len(t) : ~t[k].pinned}
           OK(b) == (\A k \in 1..b : t[k].pinned) /\ (b < Len(t) => ~t[b + 1].pinned)
<1>1. \E b \in 0..Len(t) : OK(b)
  <2>1. CASE K = {}
    <3>1. \A k \in 1..Len(t) : t[k].pinned
      <4> SUFFICES ASSUME NEW k \in 1..Len(t), ~t[k].pinned PROVE FALSE
        OBVIOUS
      <4>1. k \in K
        OBVIOUS
      <4> QED BY <2>1, <4>1
    <3>2. Len(t) \in 0..Len(t) /\ ~(Len(t) < Len(t))
      OBVIOUS
    <3> WITNESS Len(t) \in 0..Len(t)
    <3> QED BY <3>1
  <2>2. CASE K # {}
    <3>0. K \subseteq Nat
      OBVIOUS
    <3> HIDE DEF K
    <3>1. PICK m \in K : \A k \in K : m <= k
      BY <2>2, <3>0, Least
    <3> USE DEF K
    <3>2. m \in 1..Len(t) /\ ~t[m].pinned /\ m - 1 \in 0..Len(t) /\ (m - 1) + 1 = m
      BY <3>1
    <3>3. \A k \in 1..(m - 1) : t[k].pinned
      BY <3>1, <3>2
    <3> QED BY <3>2, <3>3
  <2> QED BY <2>1, <2>2
<1> DEFINE b == pinnedBoundary(t)
<1>2. b \in 0..Len(t) /\ OK(b)
  BY <1>1 DEF pinnedBoundary
<1> HIDE DEF b
<1>3. ASSUME NEW k \in 1..Len(t), t[k].pinned PROVE k <= b
  <2> SUFFICES ASSUME ~(k <= b) PROVE FALSE
    OBVIOUS
  <2>1. b + 1 \in 1..Len(t) /\ ~t[b + 1].pinned /\ b + 1 <= k
    BY <1>2
  <2>2. b + 1 # k
    BY <1>3, <2>1
  <2>3. b + 1 < k
    BY <1>2, <2>1, <2>2
  <2> QED BY <1>3, <2>1, <2>3 DEF PinsFirst
<1> QED BY <1>2, <1>3 DEF b

----------------------------------------------------------------------------
(* The store *)

SoundStore(s) ==
    /\ s = [shown |-> s.shown, by |-> s.by]
    /\ s.shown \in DOMAIN s.by \cup {None}
    /\ s.by = [w \in DOMAIN s.by |-> s.by[w]]
    /\ DOMAIN s.by \subseteq Workspaces
    /\ \A w \in DOMAIN s.by : SoundGroup(s.by[w])
    /\ \A v, w \in DOMAIN s.by : v # w => IdsIn(s.by[v]) \cap IdsIn(s.by[w]) = {}

(* A sound store is what the properties of TabStore ask for. *)
LEMMA SoundIsSound ==
    ASSUME NEW s, SoundStore(s)
    PROVE  StoreType(s) /\ Sound(s)
<1>1. UniqueIds(s)
  <2> SUFFICES ASSUME NEW v \in DOMAIN s.by, NEW w \in DOMAIN s.by,
                      NEW j \in DOMAIN s.by[v].tabs, NEW k \in DOMAIN s.by[w].tabs,
                      s.by[v].tabs[j].id = s.by[w].tabs[k].id
               PROVE  v = w /\ j = k
    BY DEF UniqueIds
  <2>1. v = w
    BY DEF SoundStore, IdsIn
  <2> QED BY <2>1 DEF SoundStore, SoundGroup, UniqueIn
<1>2. StoreType(s)
  BY DEF StoreType, SoundStore, SoundGroup
<1>3. \A w \in DOMAIN s.by : s.by[w].active \in IdsIn(s.by[w]) /\ PinnedFirst(s.by[w])
  BY DEF SoundStore, SoundGroup
<1> QED BY <1>1, <1>2, <1>3 DEF Sound, SoundStore

LEMMA LiveIn ==
    ASSUME NEW s, NEW w \in DOMAIN s.by
    PROVE  IdsIn(s.by[w]) \subseteq LiveIds(s)
BY DEF LiveIds

(* A group put in the place of another, or added, with at most one id that is new. *)
LEMMA Put ==
    ASSUME NEW s, SoundStore(s), NEW w \in Workspaces, NEW g, SoundGroup(g),
           NEW i,
           IdsIn(g) \subseteq (IF w \in DOMAIN s.by THEN IdsIn(s.by[w]) ELSE {}) \cup ({i} \ LiveIds(s))
    PROVE  /\ SoundStore(WithGroup(s, w, g))
           /\ SoundStore(Show(WithGroup(s, w, g), w))
           /\ LiveIds(WithGroup(s, w, g)) \subseteq LiveIds(s) \cup {i}
           /\ LiveIds(Show(WithGroup(s, w, g), w)) \subseteq LiveIds(s) \cup {i}
           /\ WithGroup(s, w, g).shown = s.shown
           /\ Show(WithGroup(s, w, g), w).shown = w
           /\ DOMAIN WithGroup(s, w, g).by = DOMAIN s.by \cup {w}
           /\ WithGroup(s, w, g).by[w] = g
           /\ Show(WithGroup(s, w, g), w).by = WithGroup(s, w, g).by
           /\ (w \in DOMAIN s.by => IdsIn(s.by[w]) \subseteq IdsIn(g))
                => LiveIds(s) \subseteq LiveIds(WithGroup(s, w, g))
<1> DEFINE D == DOMAIN s.by \cup {w}
           B == [v \in D |-> IF v = w THEN g ELSE s.by[v]]
           x == WithGroup(s, w, g)
           y == Show(x, w)
<1>1. x = [shown |-> s.shown, by |-> B] /\ y = [shown |-> w, by |-> B]
  <2>1. PICK a, b : s = [shown |-> a, by |-> b]
    BY DEF SoundStore
  <2>2. x = [s EXCEPT !.by = B]
    BY DEF WithGroup
  <2> HIDE DEF B, x
  <2>3. x = [shown |-> s.shown, by |-> B]
    BY <2>1, <2>2
  <2> QED BY <2>3 DEF Show
<1>2. DOMAIN B = D /\ B[w] = g /\ \A v \in D : v # w => v \in DOMAIN s.by /\ B[v] = s.by[v]
  OBVIOUS
<1>3. \A v \in D : SoundGroup(B[v])
  BY <1>2 DEF SoundStore
<1>4. \A v \in DOMAIN s.by : v # w => IdsIn(s.by[v]) \cap IdsIn(g) = {}
  <2> SUFFICES ASSUME NEW v \in DOMAIN s.by, v # w, NEW a \in IdsIn(s.by[v]), a \in IdsIn(g)
               PROVE  FALSE
    OBVIOUS
  <2>1. a \notin {i} \ LiveIds(s)
    BY LiveIn
  <2> QED BY <2>1 DEF SoundStore
<1>5. \A u, v \in D : u # v => IdsIn(B[u]) \cap IdsIn(B[v]) = {}
  BY <1>2, <1>4 DEF SoundStore
<1>6. \A v \in D : IdsIn(B[v]) \subseteq LiveIds(s) \cup {i}
  BY <1>2, LiveIn
<1> HIDE DEF B, D
<1>7. D \subseteq Workspaces /\ s.shown \in D \cup {None} /\ w \in D
  BY DEF SoundStore, D
<1>8. B = [v \in DOMAIN B |-> B[v]]
  BY DEF B
<1>9. SoundStore(x) /\ SoundStore(y)
  BY <1>1, <1>2, <1>3, <1>5, <1>7, <1>8 DEF SoundStore
<1>10. LiveIds(x) \subseteq LiveIds(s) \cup {i} /\ LiveIds(y) \subseteq LiveIds(s) \cup {i}
  BY <1>1, <1>2, <1>6 DEF LiveIds
<1>11. ASSUME w \in DOMAIN s.by => IdsIn(s.by[w]) \subseteq IdsIn(g)
       PROVE  LiveIds(s) \subseteq LiveIds(x)
  <2>1. \A v \in DOMAIN s.by : v \in D /\ IdsIn(s.by[v]) \subseteq IdsIn(B[v])
    BY <1>2, <1>11 DEF D
  <2> QED BY <1>1, <1>2, <2>1 DEF LiveIds
<1> QED BY <1>1, <1>2, <1>9, <1>10, <1>11 DEF D

LEMMA Shown ==
    ASSUME NEW s, SoundStore(s), NEW w \in DOMAIN s.by
    PROVE  /\ SoundStore(Show(s, w)) /\ LiveIds(Show(s, w)) = LiveIds(s)
           /\ Show(s, w).by = s.by /\ Show(s, w).shown = w /\ w # None
BY NoneAssumption DEF SoundStore, Show, LiveIds

(* What every operation does: a sound store, with at most the new id added; *)
(* and what those do that close nothing.                                     *)
Keeps(s, r, i) == SoundStore(r) /\ LiveIds(r) \subseteq LiveIds(s) \cup {i}

Grows(s, r, i) ==
    /\ Keeps(s, r, i)
    /\ LiveIds(s) \subseteq LiveIds(r)
    /\ DOMAIN s.by \subseteq DOMAIN r.by
    /\ s.shown # None => r.shown # None

LEMMA PutIn ==
    ASSUME NEW s, SoundStore(s), NEW w \in DOMAIN s.by, NEW g, SoundGroup(g),
           NEW i, IdsIn(g) \subseteq IdsIn(s.by[w]) \cup ({i} \ LiveIds(s))
    PROVE  LET r == WithGroup(s, w, g)
           IN /\ Keeps(s, r, i) /\ Keeps(s, Show(r, w), i)
              /\ r.shown = s.shown /\ DOMAIN r.by = DOMAIN s.by /\ r.by[w] = g
              /\ IdsIn(s.by[w]) \subseteq IdsIn(g) => Grows(s, r, i) /\ Grows(s, Show(r, w), i)
<1> DEFINE r == WithGroup(s, w, g)
<1>1. w \in Workspaces /\ w # None
  BY NoneAssumption DEF SoundStore
<1>2. IdsIn(g) \subseteq (IF w \in DOMAIN s.by THEN IdsIn(s.by[w]) ELSE {}) \cup ({i} \ LiveIds(s))
  OBVIOUS
<1>3. /\ SoundStore(r) /\ SoundStore(Show(r, w))
      /\ LiveIds(r) \subseteq LiveIds(s) \cup {i}
      /\ LiveIds(Show(r, w)) \subseteq LiveIds(s) \cup {i}
      /\ r.shown = s.shown /\ Show(r, w).shown = w
      /\ DOMAIN r.by = DOMAIN s.by \cup {w} /\ r.by[w] = g /\ Show(r, w).by = r.by
      /\ IdsIn(s.by[w]) \subseteq IdsIn(g) => LiveIds(s) \subseteq LiveIds(r)
  BY <1>1, <1>2, Put
<1>4. DOMAIN s.by \cup {w} = DOMAIN s.by
  OBVIOUS
<1>5. LiveIds(Show(r, w)) = LiveIds(r)
  BY <1>3 DEF LiveIds
<1> HIDE DEF r
<1>6. Keeps(s, r, i) /\ Keeps(s, Show(r, w), i) /\ DOMAIN r.by = DOMAIN s.by
  BY <1>3, <1>4 DEF Keeps
<1>7. IdsIn(s.by[w]) \subseteq IdsIn(g) => Grows(s, r, i) /\ Grows(s, Show(r, w), i)
  BY <1>1, <1>3, <1>5, <1>6 DEF Grows
<1> QED BY <1>3, <1>6, <1>7 DEF r

LEMMA PutNew ==
    ASSUME NEW s, SoundStore(s), NEW w \in Workspaces, w \notin DOMAIN s.by,
           NEW p \in Location, NEW i \in Nat, i \notin LiveIds(s)
    PROVE  LET r == Show(WithGroup(s, w, [tabs |-> <<makeTab(p, i)>>, active |-> i]), w)
           IN Grows(s, r, i) /\ r.shown = w /\ w \in DOMAIN r.by
<1> DEFINE g == [tabs |-> <<makeTab(p, i)>>, active |-> i]
           r == WithGroup(s, w, g)
<1>1. SoundGroup(g) /\ IdsIn(g) = {i}
  BY Seeded
<1> HIDE DEF g
<1>2. IdsIn(g) \subseteq (IF w \in DOMAIN s.by THEN IdsIn(s.by[w]) ELSE {}) \cup ({i} \ LiveIds(s))
  BY <1>1
<1>3. /\ SoundStore(Show(r, w)) /\ LiveIds(Show(r, w)) \subseteq LiveIds(s) \cup {i}
      /\ Show(r, w).shown = w /\ DOMAIN r.by = DOMAIN s.by \cup {w} /\ Show(r, w).by = r.by
      /\ LiveIds(s) \subseteq LiveIds(r)
  BY <1>1, <1>2, Put
<1>4. LiveIds(Show(r, w)) = LiveIds(r) /\ w # None
  BY <1>3, NoneAssumption DEF LiveIds
<1> HIDE DEF r
<1>5. Grows(s, Show(r, w), i) /\ Show(r, w).shown = w /\ w \in DOMAIN Show(r, w).by
  BY <1>3, <1>4 DEF Grows, Keeps
<1> QED BY <1>5 DEF g, r

LEMMA GroupIn ==
    ASSUME NEW s, SoundStore(s), NEW w \in DOMAIN s.by
    PROVE  /\ SoundGroup(s.by[w]) /\ w \in Workspaces
           /\ s.by[w] = [tabs |-> s.by[w].tabs, active |-> s.by[w].active]
           /\ s.by[w].tabs \in Seq(Tab)
           /\ DOMAIN s.by[w].tabs = 1..Len(s.by[w].tabs) /\ Len(s.by[w].tabs) \in Nat
<1>1. SoundGroup(s.by[w]) /\ w \in Workspaces
  BY DEF SoundStore
<1>2. s.by[w] \in [tabs : Seq(Tab), active : Nat]
  BY <1>1 DEF SoundGroup, Group
<1> QED BY <1>1, <1>2

LEMMA FirstOne ==
    ASSUME NEW K, K \subseteq Nat, K # {}
    PROVE  First(K) \in K
BY Least DEF First

LEMMA HomePath == \A w \in Workspaces : defaultPathFor(w) \in Location
BY HomeAssumption DEF defaultPathFor, Location, Path

----------------------------------------------------------------------------
(* What the operations do to the set of tabs of a group, whatever the order. *)

TabsIn(g) == Range(g.tabs)

LEMMA InRange ==
    ASSUME NEW t, NEW k \in DOMAIN t
    PROVE  t[k] \in Range(t)
BY DEF Range

LEMMA IdsAre == \A g : IdsIn(g) = {x.id : x \in TabsIn(g)}
BY DEF IdsIn, TabsIn, Range

LEMMA RangeAppend ==
    ASSUME NEW t \in Seq(Tab), NEW x \in Tab
    PROVE  Range(Append(t, x)) = Range(t) \cup {x}
<1> DEFINE u == Append(t, x)
           n == Len(t)
<1>1. n \in Nat /\ DOMAIN t = 1..n
  OBVIOUS
<1>2. DOMAIN u = 1..(n + 1) /\ u[n + 1] = x /\ \A k \in 1..n : u[k] = t[k]
  OBVIOUS
<1> HIDE DEF u, n
<1>3. \A k \in 1..(n + 1) : k \in 1..n \/ k = n + 1
  BY <1>1
<1>4. n + 1 \in 1..(n + 1) /\ 1..n \subseteq 1..(n + 1)
  BY <1>1
<1> QED BY <1>1, <1>2, <1>3, <1>4 DEF Range, u

LEMMA RangeWithout ==
    ASSUME NEW t \in Seq(Tab), UniqueIn(t), PinsFirst(t), NEW k \in DOMAIN t
    PROVE  Range(RemoveAt(t, k)) = Range(t) \ {t[k]}
<1>1. /\ \A j \in DOMAIN RemoveAt(t, k) : \E m \in DOMAIN t : m # k /\ RemoveAt(t, k)[j] = t[m]
      /\ \A m \in DOMAIN t : m # k => \E j \in DOMAIN RemoveAt(t, k) : RemoveAt(t, k)[j] = t[m]
  BY Without
<1>2. \A m \in DOMAIN t : m # k => t[m] # t[k]
  BY DEF UniqueIn
<1> QED BY <1>1, <1>2 DEF Range

LEMMA RangeInserted ==
    ASSUME NEW t \in Seq(Tab), NEW d \in 1..(Len(t) + 1), NEW x \in Tab
    PROVE  Range(InsertAt(t, d, x)) = Range(t) \cup {x}
<1> DEFINE q == InsertAt(t, d, x)
           n == Len(t)
<1>1. n \in Nat /\ DOMAIN t = 1..n /\ d \in Nat /\ d >= 1 /\ d <= n + 1
  OBVIOUS
<1>2. /\ DOMAIN q = 1..(n + 1)
      /\ \A j \in 1..(n + 1) : q[j] = IF j < d THEN t[j] ELSE IF j = d THEN x ELSE t[j - 1]
  <2>1. /\ q \in Seq(Tab) /\ Len(q) = Len(t) + 1
        /\ \A j \in 1..(Len(t) + 1) : q[j] = IF j < d THEN t[j] ELSE IF j = d THEN x ELSE t[j - 1]
    BY Inserted
  <2> HIDE DEF q
  <2> QED BY <2>1
<1> HIDE DEF q, n
<1>3. ASSUME NEW j \in 1..(n + 1) PROVE q[j] \in Range(t) \cup {x}
  <2>1. CASE j < d
    <3>1. j \in DOMAIN t /\ q[j] = t[j]
      BY <1>1, <1>2, <2>1
    <3> QED BY <3>1, InRange
  <2>2. CASE j = d
    BY <1>1, <1>2, <2>2
  <2>3. CASE j > d
    <3>1. j - 1 \in DOMAIN t /\ q[j] = t[j - 1]
      BY <1>1, <1>2, <2>3
    <3> QED BY <3>1, InRange
  <2> QED BY <1>1, <2>1, <2>2, <2>3
<1>4. ASSUME NEW m \in DOMAIN t PROVE \E j \in 1..(n + 1) : q[j] = t[m]
  <2>1. CASE m < d
    <3>1. m \in 1..(n + 1) /\ q[m] = t[m]
      BY <1>1, <1>2, <2>1
    <3> QED BY <3>1
  <2>2. CASE ~(m < d)
    <3>1. m + 1 \in 1..(n + 1) /\ q[m + 1] = t[m]
      BY <1>1, <1>2, <2>2
    <3> QED BY <3>1
  <2> QED BY <2>1, <2>2
<1>5. d \in 1..(n + 1) /\ q[d] = x
  BY <1>1, <1>2
<1>6. Range(q) = {q[j] : j \in 1..(n + 1)}
  BY <1>2 DEF Range
<1>7. Range(q) \subseteq Range(t) \cup {x}
  BY <1>3, <1>6
<1>8. Range(t) \subseteq Range(q) /\ x \in Range(q)
  BY <1>4, <1>5, <1>6 DEF Range
<1> QED BY <1>7, <1>8 DEF q

LEMMA RangeChanged ==
    ASSUME NEW t \in Seq(Tab), UniqueIn(t), NEW k \in DOMAIN t, NEW x
    PROVE  Range([t EXCEPT ![k] = x]) = (Range(t) \ {t[k]}) \cup {x}
<1>1. \A m \in DOMAIN t : m # k => t[m] # t[k]
  BY DEF UniqueIn
<1> QED BY <1>1 DEF Range

----------------------------------------------------------------------------
(* The effect of an operation on the store: group w holds the tabs T with a *)
(* in focus, and every other group is as it was.                            *)

Becomes(s, r, w, T, a) ==
    /\ DOMAIN r.by = DOMAIN s.by \cup {w}
    /\ TabsIn(r.by[w]) = T
    /\ r.by[w].active = a
    /\ \A v \in DOMAIN s.by \ {w} : r.by[v] = s.by[v]

LEMMA PutBecomes ==
    ASSUME NEW s, SoundStore(s), NEW w, NEW g
    PROVE  /\ Becomes(s, WithGroup(s, w, g), w, TabsIn(g), g.active)
           /\ Becomes(s, Show(WithGroup(s, w, g), w), w, TabsIn(g), g.active)
           /\ WithGroup(s, w, g).shown = s.shown
           /\ WithGroup(s, w, g).by[w] = g
           /\ Show(WithGroup(s, w, g), w).shown = w
           /\ DOMAIN WithGroup(s, w, g).by = DOMAIN s.by \cup {w}
<1> DEFINE D == DOMAIN s.by \cup {w}
           B == [v \in D |-> IF v = w THEN g ELSE s.by[v]]
           x == WithGroup(s, w, g)
           y == Show(x, w)
<1>1. x = [shown |-> s.shown, by |-> B] /\ y = [shown |-> w, by |-> B]
  <2>1. PICK a, b : s = [shown |-> a, by |-> b]
    BY DEF SoundStore
  <2>2. x = [s EXCEPT !.by = B]
    BY DEF WithGroup
  <2> HIDE DEF B, x
  <2>3. x = [shown |-> s.shown, by |-> B]
    BY <2>1, <2>2
  <2> QED BY <2>3 DEF Show
<1>2. DOMAIN B = D /\ B[w] = g /\ \A v \in D : v # w => v \in DOMAIN s.by /\ B[v] = s.by[v]
  OBVIOUS
<1> HIDE DEF x, B
<1>3. y.by = B /\ x.by = B /\ x.shown = s.shown /\ y.shown = w
  BY <1>1
<1> HIDE DEF y
<1>4. Becomes(s, x, w, TabsIn(g), g.active) /\ Becomes(s, y, w, TabsIn(g), g.active)
  BY <1>2, <1>3 DEF Becomes
<1> QED BY <1>2, <1>3, <1>4 DEF x, y

(* A group that changes its tabs, or its focus, only. *)
LEMMA GroupFields ==
    ASSUME NEW g \in Group, NEW t, NEW a
    PROVE  /\ [g EXCEPT !.tabs = t] = [tabs |-> t, active |-> g.active]
           /\ [g EXCEPT !.active = a] = [tabs |-> g.tabs, active |-> a]
BY DEF Group

LEMMA WithTabsBecomes ==
    ASSUME NEW s, SoundStore(s), NEW w \in DOMAIN s.by, NEW t
    PROVE  /\ Becomes(s, WithTabs(s, w, t), w, Range(t), s.by[w].active)
           /\ WithTabs(s, w, t).shown = s.shown
<1>1. s.by[w] \in Group
  BY GroupIn DEF SoundGroup
<1>2. [s.by[w] EXCEPT !.tabs = t] = [tabs |-> t, active |-> s.by[w].active]
  BY <1>1, GroupFields
<1> QED BY <1>2, PutBecomes DEF WithTabs, TabsIn

LEMMA FocusedBecomes ==
    ASSUME NEW s, SoundStore(s), NEW w \in DOMAIN s.by, NEW a
    PROVE  /\ Becomes(s, Focused(s, w, a), w, TabsIn(s.by[w]), a)
           /\ Becomes(s, Show(Focused(s, w, a), w), w, TabsIn(s.by[w]), a)
           /\ Focused(s, w, a).shown = s.shown
           /\ Show(Focused(s, w, a), w).shown = w
<1>1. s.by[w] \in Group
  BY GroupIn DEF SoundGroup
<1>2. [s.by[w] EXCEPT !.active = a] = [tabs |-> s.by[w].tabs, active |-> a]
  BY <1>1, GroupFields
<1> QED BY <1>2, PutBecomes DEF Focused, TabsIn

----------------------------------------------------------------------------
(* The operations, one by one *)

(* A tab of the group in focus, or a new tab at its end. *)
LEMMA FocusKeeps ==
    ASSUME NEW s, SoundStore(s), NEW w \in DOMAIN s.by, NEW k \in DOMAIN s.by[w].tabs,
           NEW i
    PROVE  LET r == Focused(s, w, s.by[w].tabs[k].id)
           IN /\ Grows(s, r, i) /\ Grows(s, Show(r, w), i)
              /\ r.shown = s.shown /\ DOMAIN r.by = DOMAIN s.by
<1> DEFINE g == s.by[w]
           a == g.tabs[k].id
           h == [g EXCEPT !.active = a]
<1>1. SoundGroup(g)
  BY GroupIn
<1>2. a \in IdsIn(g)
  BY DEF IdsIn
<1>3. SoundGroup(h) /\ IdsIn(h) = IdsIn(g)
  BY <1>1, <1>2, Refocused
<1> HIDE DEF h
<1>4. /\ Grows(s, WithGroup(s, w, h), i) /\ Grows(s, Show(WithGroup(s, w, h), w), i)
      /\ WithGroup(s, w, h).shown = s.shown /\ DOMAIN WithGroup(s, w, h).by = DOMAIN s.by
  BY <1>3, PutIn
<1> QED BY <1>4 DEF Focused, h

LEMMA AppendKeeps ==
    ASSUME NEW s, SoundStore(s), NEW w \in DOMAIN s.by, NEW p \in Location,
           NEW i \in Nat, i \notin LiveIds(s), NEW a, a \in {i, s.by[w].active}
    PROVE  LET g == [tabs |-> Append(s.by[w].tabs, makeTab(p, i)), active |-> a]
               r == WithGroup(s, w, g)
           IN /\ Grows(s, r, i) /\ Grows(s, Show(r, w), i)
              /\ r.shown = s.shown /\ DOMAIN r.by = DOMAIN s.by
              /\ r.by[w] = g /\ IdsIn(g) = IdsIn(s.by[w]) \cup {i} /\ SoundGroup(g)
<1> DEFINE g == [tabs |-> Append(s.by[w].tabs, makeTab(p, i)), active |-> a]
<1>1. SoundGroup(s.by[w]) /\ i \notin IdsIn(s.by[w])
  BY GroupIn, LiveIn
<1>2. a \in IdsIn(s.by[w]) \cup {i}
  BY <1>1 DEF SoundGroup
<1>3. SoundGroup(g) /\ IdsIn(g) = IdsIn(s.by[w]) \cup {i}
  BY <1>1, <1>2, Appended
<1> HIDE DEF g
<1>4. /\ Grows(s, WithGroup(s, w, g), i) /\ Grows(s, Show(WithGroup(s, w, g), w), i)
      /\ WithGroup(s, w, g).shown = s.shown /\ DOMAIN WithGroup(s, w, g).by = DOMAIN s.by
      /\ WithGroup(s, w, g).by[w] = g
  BY <1>3, PutIn
<1> QED BY <1>3, <1>4 DEF g

LEMMA SwitchKeeps ==
    ASSUME NEW s, SoundStore(s), NEW w \in Workspaces, NEW i \in Nat, i \notin LiveIds(s)
    PROVE  LET r == switchWorkspace(s, w, i)
           IN Grows(s, r, i) /\ r.shown = w /\ w \in DOMAIN r.by
<1>1. CASE w \in DOMAIN s.by
  <2>1. switchWorkspace(s, w, i) = Show(s, w)
    BY <1>1 DEF switchWorkspace
  <2>2. Grows(s, Show(s, w), i) /\ Show(s, w).shown = w /\ w \in DOMAIN Show(s, w).by
    BY <1>1, Shown DEF Grows, Keeps
  <2> QED BY <2>1, <2>2
<1>2. CASE w \notin DOMAIN s.by
  <2>1. defaultPathFor(w) \in Location
    BY HomePath
  <2> DEFINE r == Show(WithGroup(s, w, [tabs |-> <<makeTab(defaultPathFor(w), i)>>, active |-> i]), w)
  <2>2. Grows(s, r, i) /\ r.shown = w /\ w \in DOMAIN r.by
    BY <1>2, <2>1, PutNew
  <2> QED BY <1>2, <2>2 DEF switchWorkspace
<1> QED BY <1>1, <1>2

LEMMA SwitchToKeeps ==
    ASSUME NEW s, SoundStore(s), NEW w \in Workspaces, NEW p \in Location,
           NEW i \in Nat, i \notin LiveIds(s)
    PROVE  Grows(s, switchWorkspaceTo(s, w, p, i), i)
<1>1. CASE w \notin DOMAIN s.by
  BY <1>1, PutNew DEF switchWorkspaceTo
<1>2. CASE w \in DOMAIN s.by /\ At(s.by[w], p) # {}
  <2>1. At(s.by[w], p) \subseteq Nat
    <3>1. DOMAIN s.by[w].tabs = 1..Len(s.by[w].tabs)
      BY <1>2, GroupIn
    <3>2. 1..Len(s.by[w].tabs) \subseteq Nat
      OBVIOUS
    <3> QED BY <3>1, <3>2 DEF At
  <2>2. First(At(s.by[w], p)) \in DOMAIN s.by[w].tabs
    BY <1>2, <2>1, FirstOne DEF At
  <2>3. Grows(s, Show(Focused(s, w, s.by[w].tabs[First(At(s.by[w], p))].id), w), i)
    BY <1>2, <2>2, FocusKeeps
  <2> QED BY <1>2, <2>3 DEF switchWorkspaceTo
<1>3. CASE w \in DOMAIN s.by /\ At(s.by[w], p) = {}
  BY <1>3, AppendKeeps DEF switchWorkspaceTo
<1> QED BY <1>1, <1>2, <1>3

LEMMA AddKeeps ==
    ASSUME NEW s, SoundStore(s), s.shown \in DOMAIN s.by, NEW p \in Location,
           NEW i \in Nat, i \notin LiveIds(s)
    PROVE  LET r == addTab(s, p, i)
           IN /\ Grows(s, r, i) /\ Grows(s, Focused(r, s.shown, i), i)
              /\ r.shown = s.shown /\ DOMAIN r.by = DOMAIN s.by
<1> DEFINE w == s.shown
           g == [tabs |-> Append(s.by[w].tabs, makeTab(p, i)), active |-> s.by[w].active]
           r == WithGroup(s, w, g)
           h == [g EXCEPT !.active = i]
<1>1. SoundGroup(s.by[w]) /\ i \notin IdsIn(s.by[w]) /\ s.by[w].active \in IdsIn(s.by[w])
  BY GroupIn, LiveIn DEF SoundGroup
<1>2. /\ Grows(s, r, i) /\ r.shown = w /\ DOMAIN r.by = DOMAIN s.by /\ r.by[w] = g
      /\ IdsIn(g) = IdsIn(s.by[w]) \cup {i} /\ SoundGroup(g)
  <2>1. SoundGroup(g) /\ IdsIn(g) = IdsIn(s.by[w]) \cup {i}
    BY <1>1, Appended
  <2> HIDE DEF g
  <2>2. Grows(s, r, i) /\ r.shown = w /\ DOMAIN r.by = DOMAIN s.by /\ r.by[w] = g
    BY <2>1, PutIn
  <2> QED BY <2>1, <2>2
<1>3. addTab(s, p, i) = r
  <2>1. s.by[w] = [tabs |-> s.by[w].tabs, active |-> s.by[w].active]
    BY GroupIn
  <2>2. [s.by[w] EXCEPT !.tabs = Append(@, makeTab(p, i))] = g
    BY <2>1
  <2> QED BY <2>2 DEF addTab, WithTabs
<1> HIDE DEF g, r
<1>4. SoundGroup(h) /\ IdsIn(h) = IdsIn(g)
  BY <1>2, Refocused
<1> HIDE DEF h
<1>5. SoundStore(r) /\ w \in DOMAIN r.by /\ IdsIn(h) = IdsIn(r.by[w])
  BY <1>2, <1>4 DEF Grows, Keeps
<1>6. Grows(r, WithGroup(r, w, h), i)
  BY <1>4, <1>5, PutIn
<1>7. Focused(r, w, i) = WithGroup(r, w, h)
  BY <1>2 DEF Focused, h
<1>8. Grows(s, Focused(r, w, i), i)
  BY <1>2, <1>6, <1>7 DEF Grows, Keeps
<1> QED BY <1>2, <1>3, <1>8

LEMMA OpenKeeps ==
    ASSUME NEW s, SoundStore(s), s.shown \in DOMAIN s.by, NEW p \in Location,
           NEW i \in Nat, i \notin LiveIds(s)
    PROVE  LET r == openTab(s, p, i)
           IN /\ Grows(s, r, i) /\ Grows(s, Focused(r, s.shown, openedBy(s, p, i)), i)
              /\ r.shown = s.shown
<1> DEFINE w == s.shown
           K == At(s.by[w], p)
<1>1. CASE K # {}
  <2>1. K \subseteq Nat
    <3>1. DOMAIN s.by[w].tabs = 1..Len(s.by[w].tabs)
      BY GroupIn
    <3>2. 1..Len(s.by[w].tabs) \subseteq Nat
      OBVIOUS
    <3> QED BY <3>1, <3>2 DEF At
  <2>2. First(K) \in DOMAIN s.by[w].tabs
    BY <1>1, <2>1, FirstOne DEF At
  <2> DEFINE a == s.by[w].tabs[First(K)].id
             r == Focused(s, w, a)
  <2>3. Grows(s, r, i) /\ r.shown = w
    BY <2>2, FocusKeeps
  <2>4. Focused(r, w, a) = r
    BY DEF Focused, WithGroup
  <2>5. openTab(s, p, i) = r /\ openedBy(s, p, i) = a
    BY <1>1 DEF openTab, openedBy
  <2> QED BY <2>3, <2>4, <2>5
<1>2. CASE K = {}
  <2>1. openTab(s, p, i) = addTab(s, p, i) /\ openedBy(s, p, i) = i
    BY <1>2 DEF openTab, openedBy
  <2> QED BY <2>1, AddKeeps
<1> QED BY <1>1, <1>2

LEMMA CloseKeeps ==
    ASSUME NEW s, SoundStore(s), NEW w \in DOMAIN s.by, NEW k \in DOMAIN s.by[w].tabs,
           NEW i \in Nat, i \notin LiveIds(s)
    PROVE  LET r == closeTab(s, w, k, i)
           IN Keeps(s, r, i) /\ r.shown = s.shown /\ DOMAIN r.by = DOMAIN s.by
<1> DEFINE g == s.by[w]
           t == g.tabs
           rest == RemoveAt(t, k)
           near == IF k <= Len(rest) THEN k ELSE Len(rest)
           a == IF g.active = t[k].id THEN rest[near].id ELSE g.active
<1>1. SoundGroup(g) /\ w \in Workspaces /\ t \in Seq(Tab) /\ DOMAIN t = 1..Len(t) /\ Len(t) \in Nat
  BY GroupIn
<1>2. CASE Len(t) = 1
  <2> DEFINE h == [tabs |-> <<makeTab(defaultPathFor(w), i)>>, active |-> i]
  <2>1. SoundGroup(h) /\ IdsIn(h) = {i}
    BY <1>1, Seeded, HomePath
  <2> HIDE DEF h
  <2> DEFINE q == WithGroup(s, w, h)
  <2>2. Keeps(s, q, i) /\ q.shown = s.shown /\ DOMAIN q.by = DOMAIN s.by
    BY <2>1, PutIn
  <2> QED BY <1>2, <2>2 DEF closeTab, h
<1>3. CASE Len(t) # 1
  <2>1. UniqueIn(t) /\ PinsFirst(t)
    BY <1>1 DEF SoundGroup, PinnedFirst, PinsFirst
  <2>2. /\ rest \in Seq(Tab) /\ Len(rest) = Len(t) - 1
        /\ \A m \in DOMAIN t : m # k => \E j \in DOMAIN rest : rest[j] = t[m]
    BY <1>1, <2>1, Without
  <2> HIDE DEF rest
  <2>3. near \in DOMAIN rest
    <3>1. Len(rest) \in Nat /\ Len(rest) >= 1 /\ k \in Nat /\ k >= 1
      <4>1. k \in 1..Len(t)
        BY <1>1
      <4>2. Len(rest) = Len(t) - 1
        BY <2>2
      <4>3. Len(t) \in Nat
        BY <1>1
      <4> HIDE DEF t
      <4> QED BY <1>3, <4>1, <4>2, <4>3
    <3>2. DOMAIN rest = 1..Len(rest)
      BY <2>2
    <3>3. CASE k <= Len(rest)
      BY <3>1, <3>2, <3>3
    <3>4. CASE ~(k <= Len(rest))
      <4>1. near = Len(rest)
        BY <3>4
      <4>2. Len(rest) \in 1..Len(rest)
        BY <3>1
      <4> QED BY <3>2, <4>1, <4>2
    <3> QED BY <3>3, <3>4
  <2> HIDE DEF near
  <2>4. \E j \in DOMAIN rest : a = rest[j].id
    <3>1. CASE g.active = t[k].id
      BY <2>3, <3>1
    <3>2. CASE g.active # t[k].id
      <4>1. PICK m \in DOMAIN t : g.active = t[m].id
        BY <1>1 DEF SoundGroup, IdsIn
      <4>2. PICK j \in DOMAIN rest : rest[j] = t[m]
        BY <2>2, <3>2, <4>1
      <4> QED BY <3>2, <4>1, <4>2
    <3> QED BY <3>1, <3>2
  <2> USE DEF rest
  <2> HIDE DEF a
  <2> DEFINE h == [tabs |-> rest, active |-> a]
  <2>5. SoundGroup(h) /\ IdsIn(h) = IdsIn(g) \ {t[k].id}
    BY <1>1, <2>4, Closed
  <2> HIDE DEF h
  <2> DEFINE q == WithGroup(s, w, h)
  <2>6. Keeps(s, q, i) /\ q.shown = s.shown /\ DOMAIN q.by = DOMAIN s.by
    BY <2>5, PutIn
  <2> QED BY <1>3, <2>6 DEF closeTab, h, a, near
<1> QED BY <1>2, <1>3

(* updateTab and updateTabHistory: a tab changed in place. *)
LEMMA ChangeKeeps ==
    ASSUME NEW s, SoundStore(s), NEW w \in DOMAIN s.by, NEW k \in DOMAIN s.by[w].tabs, NEW i,
           NEW x \in Tab, x.id = s.by[w].tabs[k].id, x.pinned = s.by[w].tabs[k].pinned
    PROVE  LET r == WithTabs(s, w, [s.by[w].tabs EXCEPT ![k] = x])
           IN /\ Grows(s, r, i) /\ r.shown = s.shown /\ DOMAIN r.by = DOMAIN s.by
              /\ r.by[w].tabs = [s.by[w].tabs EXCEPT ![k] = x]
              /\ LiveIds(r) = LiveIds(s)
<1> DEFINE g == s.by[w]
           h == [g EXCEPT !.tabs = [g.tabs EXCEPT ![k] = x]]
           r == WithGroup(s, w, h)
<1>1. SoundGroup(g) /\ g = [tabs |-> g.tabs, active |-> g.active]
  BY GroupIn
<1>2. SoundGroup(h) /\ IdsIn(h) = IdsIn(g)
  BY <1>1, Changed
<1>3. h.tabs = [g.tabs EXCEPT ![k] = x]
  BY <1>1
<1> HIDE DEF h
<1>4. Grows(s, r, i) /\ r.shown = s.shown /\ DOMAIN r.by = DOMAIN s.by /\ r.by[w] = h
  BY <1>2, PutIn
<1>5. LiveIds(r) = LiveIds(s)
  <2>1. \A v \in DOMAIN s.by : IdsIn(r.by[v]) = IdsIn(s.by[v])
    BY <1>2 DEF WithGroup, SoundStore
  <2> QED BY <1>4, <2>1 DEF LiveIds
<1> QED BY <1>3, <1>4, <1>5 DEF WithTabs, h

(* A group of one tab, made anew. *)
LEMMA NewBecomes ==
    ASSUME NEW s, SoundStore(s), NEW w \in Workspaces, w \notin DOMAIN s.by, NEW p, NEW i
    PROVE  LET r == Show(WithGroup(s, w, [tabs |-> <<makeTab(p, i)>>, active |-> i]), w)
           IN Becomes(s, r, w, {makeTab(p, i)}, i) /\ r.shown = w
<1> DEFINE g == [tabs |-> <<makeTab(p, i)>>, active |-> i]
<1>1. TabsIn(g) = {makeTab(p, i)} /\ g.active = i
  BY DEF TabsIn, Range
<1> HIDE DEF g
<1>2. /\ Becomes(s, Show(WithGroup(s, w, g), w), w, TabsIn(g), g.active)
      /\ Show(WithGroup(s, w, g), w).shown = w
  BY PutBecomes
<1> QED BY <1>1, <1>2 DEF g

(* The position At finds. *)
LEMMA Found ==
    ASSUME NEW s, SoundStore(s), NEW w \in DOMAIN s.by, NEW p, At(s.by[w], p) # {}
    PROVE  LET k == First(At(s.by[w], p))
           IN /\ k \in DOMAIN s.by[w].tabs /\ s.by[w].tabs[k] \in TabsIn(s.by[w])
              /\ s.by[w].tabs[k].path = p
<1> DEFINE K == At(s.by[w], p)
<1>1. K \subseteq Nat
  <2>1. DOMAIN s.by[w].tabs = 1..Len(s.by[w].tabs)
    BY GroupIn
  <2>2. 1..Len(s.by[w].tabs) \subseteq Nat
    OBVIOUS
  <2> QED BY <2>1, <2>2 DEF At
<1>2. First(K) \in K
  BY <1>1, FirstOne
<1> QED BY <1>2 DEF At, TabsIn, Range

LEMMA SwitchBecomes ==
    ASSUME NEW s, SoundStore(s), NEW w \in Workspaces, NEW i
    PROVE  LET r == switchWorkspace(s, w, i)
           IN /\ r.shown = w
              /\ w \in DOMAIN s.by => r.by = s.by
              /\ w \notin DOMAIN s.by =>
                    Becomes(s, r, w, {makeTab(defaultPathFor(w), i)}, i)
<1>1. CASE w \in DOMAIN s.by
  BY <1>1, Shown DEF switchWorkspace
<1>2. CASE w \notin DOMAIN s.by
  BY <1>2, NewBecomes DEF switchWorkspace
<1> QED BY <1>1, <1>2

LEMMA SwitchToBecomes ==
    ASSUME NEW s, SoundStore(s), NEW w \in Workspaces, NEW p \in Location, NEW i \in Nat
    PROVE  LET r == switchWorkspaceTo(s, w, p, i)
           IN /\ r.shown = w
              /\ \/ w \notin DOMAIN s.by /\ Becomes(s, r, w, {makeTab(p, i)}, i)
                 \/ w \in DOMAIN s.by
                    /\ \/ \E x \in TabsIn(s.by[w]) : Becomes(s, r, w, TabsIn(s.by[w]), x.id)
                       \/ Becomes(s, r, w, TabsIn(s.by[w]) \cup {makeTab(p, i)}, i)
<1>1. CASE w \notin DOMAIN s.by
  BY <1>1, NewBecomes DEF switchWorkspaceTo
<1>2. CASE w \in DOMAIN s.by /\ At(s.by[w], p) # {}
  <2> DEFINE x == s.by[w].tabs[First(At(s.by[w], p))]
  <2>1. x \in TabsIn(s.by[w])
    BY <1>2, Found
  <2>2. switchWorkspaceTo(s, w, p, i) = Show(Focused(s, w, x.id), w)
    BY <1>2 DEF switchWorkspaceTo
  <2> HIDE DEF x
  <2>3. Becomes(s, Show(Focused(s, w, x.id), w), w, TabsIn(s.by[w]), x.id)
        /\ Show(Focused(s, w, x.id), w).shown = w
    BY <1>2, FocusedBecomes
  <2> QED BY <1>2, <2>1, <2>2, <2>3
<1>3. CASE w \in DOMAIN s.by /\ At(s.by[w], p) = {}
  <2> DEFINE h == [tabs |-> Append(s.by[w].tabs, makeTab(p, i)), active |-> i]
             q == Show(WithGroup(s, w, h), w)
             T == TabsIn(s.by[w]) \cup {makeTab(p, i)}
  <2>1. switchWorkspaceTo(s, w, p, i) = q
    BY <1>3 DEF switchWorkspaceTo
  <2>2. h = [tabs |-> Append(s.by[w].tabs, makeTab(p, i)), active |-> i] /\ w \in DOMAIN s.by
    BY <1>3
  <2>3. T = TabsIn(s.by[w]) \cup {makeTab(p, i)}
    OBVIOUS
  <2> HIDE DEF h, T
  <2>4. TabsIn(h) = T /\ h.active = i
    BY <2>2, <2>3, GroupIn, MadeTab, RangeAppend DEF TabsIn
  <2>5. Becomes(s, q, w, TabsIn(h), h.active) /\ q.shown = w
    BY PutBecomes
  <2> HIDE DEF q
  <2> QED BY <1>3, <2>1, <2>3, <2>4, <2>5
<1> QED BY <1>1, <1>2, <1>3

LEMMA AddBecomes ==
    ASSUME NEW s, SoundStore(s), s.shown \in DOMAIN s.by, NEW p \in Location,
           NEW i \in Nat, i \notin LiveIds(s)
    PROVE  LET w == s.shown
               r == addTab(s, p, i)
               T == TabsIn(s.by[w]) \cup {makeTab(p, i)}
           IN /\ Becomes(s, r, w, T, s.by[w].active) /\ r.shown = w
              /\ Becomes(s, Focused(r, w, i), w, T, i) /\ Focused(r, w, i).shown = w
<1> DEFINE w == s.shown
           r == addTab(s, p, i)
           T == TabsIn(s.by[w]) \cup {makeTab(p, i)}
<1>1. Range(Append(s.by[w].tabs, makeTab(p, i))) = T
  BY GroupIn, MadeTab, RangeAppend DEF TabsIn
<1>2. Becomes(s, r, w, T, s.by[w].active) /\ r.shown = w
  BY <1>1, WithTabsBecomes DEF addTab
<1>3. SoundStore(r) /\ w \in DOMAIN r.by
  BY AddKeeps DEF Grows, Keeps
<1> HIDE DEF r, T
<1>4. Becomes(r, Focused(r, w, i), w, TabsIn(r.by[w]), i) /\ Focused(r, w, i).shown = r.shown
  BY <1>3, FocusedBecomes
<1>5. Becomes(s, Focused(r, w, i), w, T, i)
  BY <1>2, <1>4 DEF Becomes
<1> QED BY <1>2, <1>4, <1>5 DEF r, T

LEMMA OpenBecomes ==
    ASSUME NEW s, SoundStore(s), s.shown \in DOMAIN s.by, NEW p \in Location,
           NEW i \in Nat, i \notin LiveIds(s)
    PROVE  LET w == s.shown
               r == openTab(s, p, i)
               a == openedBy(s, p, i)
               f == Focused(r, w, a)
               T == TabsIn(s.by[w]) \cup {makeTab(p, i)}
           IN /\ r.shown = w /\ f.shown = w
              /\ \/ \E x \in TabsIn(s.by[w]) :
                       /\ a = x.id
                       /\ Becomes(s, r, w, TabsIn(s.by[w]), a)
                       /\ Becomes(s, f, w, TabsIn(s.by[w]), a)
                 \/ /\ a = i
                    /\ Becomes(s, r, w, T, s.by[w].active)
                    /\ Becomes(s, f, w, T, a)
<1> DEFINE w == s.shown
           K == At(s.by[w], p)
<1>1. CASE K # {}
  <2> DEFINE x == s.by[w].tabs[First(K)]
             r == Focused(s, w, x.id)
  <2>1. x \in TabsIn(s.by[w])
    BY <1>1, Found
  <2>2. Focused(r, w, x.id) = r
    BY DEF Focused, WithGroup
  <2>3. openTab(s, p, i) = r /\ openedBy(s, p, i) = x.id
    BY <1>1 DEF openTab, openedBy
  <2> HIDE DEF x
  <2>4. Becomes(s, r, w, TabsIn(s.by[w]), x.id) /\ r.shown = w
    BY FocusedBecomes
  <2> HIDE DEF r
  <2> QED BY <2>1, <2>2, <2>3, <2>4
<1>2. CASE K = {}
  <2>1. openTab(s, p, i) = addTab(s, p, i) /\ openedBy(s, p, i) = i
    BY <1>2 DEF openTab, openedBy
  <2> QED BY <2>1, AddBecomes
<1> QED BY <1>1, <1>2

LEMMA CloseBecomes ==
    ASSUME NEW s, SoundStore(s), NEW w \in DOMAIN s.by, NEW k \in DOMAIN s.by[w].tabs,
           NEW i \in Nat, i \notin LiveIds(s), Len(s.by[w].tabs) > 1
    PROVE  LET g == s.by[w]
               r == closeTab(s, w, k, i)
           IN /\ r.shown = s.shown
              /\ \E a \in IdsIn(g) \ {g.tabs[k].id} :
                    Becomes(s, r, w, TabsIn(g) \ {g.tabs[k]},
                            IF g.active = g.tabs[k].id THEN a ELSE g.active)
<1> DEFINE g == s.by[w]
           t == g.tabs
           rest == RemoveAt(t, k)
           near == IF k <= Len(rest) THEN k ELSE Len(rest)
           a == IF g.active = t[k].id THEN rest[near].id ELSE g.active
           r == closeTab(s, w, k, i)
           h == [tabs |-> rest, active |-> a]
<1>1. r = WithGroup(s, w, h)
  <2>1. Len(t) \in Nat /\ Len(t) > 1
    BY GroupIn
  <2> HIDE DEF t
  <2>2. Len(t) # 1
    BY <2>1
  <2> USE DEF t
  <2> QED BY <2>2 DEF closeTab
<1>2. SoundGroup(g) /\ t \in Seq(Tab) /\ UniqueIn(t) /\ PinsFirst(t)
  BY GroupIn DEF SoundGroup, PinnedFirst, PinsFirst
<1>3. Range(rest) = Range(t) \ {t[k]}
  BY <1>2, RangeWithout
<1>4. r.by[w] = h /\ SoundStore(r)
  <2>1. SoundStore(r)
    BY CloseKeeps DEF Keeps
  <2>2. WithGroup(s, w, h).by[w] = h
    BY PutBecomes
  <2> QED BY <1>1, <2>1, <2>2
<1>5. a \in IdsIn(h)
  <2>1. w \in DOMAIN r.by
    BY CloseKeeps
  <2>2. SoundGroup(r.by[w])
    BY <1>4, <2>1, GroupIn
  <2>3. h.active = a
    OBVIOUS
  <2> QED BY <1>4, <2>2, <2>3 DEF SoundGroup
<1> HIDE DEF a, rest
<1>6. IdsIn(h) = IdsIn(g) \ {t[k].id}
  <2>1. IdsIn(h) = {x.id : x \in Range(rest)}
    BY IdsAre DEF TabsIn
  <2>2. \A x \in Range(t) : x # t[k] => x.id # t[k].id
    BY <1>2 DEF UniqueIn, Range
  <2> QED BY <1>3, <2>1, <2>2, IdsAre DEF TabsIn
<1>7. /\ Becomes(s, r, w, Range(rest), a) /\ r.shown = s.shown
  BY <1>1, PutBecomes DEF TabsIn
<1> HIDE DEF r
<1>8. a = IF g.active = g.tabs[k].id THEN a ELSE g.active
  BY DEF a
<1> QED BY <1>3, <1>5, <1>6, <1>7, <1>8 DEF TabsIn, r

LEMMA SelectBecomes ==
    ASSUME NEW s, SoundStore(s), NEW w \in DOMAIN s.by, NEW k \in DOMAIN s.by[w].tabs
    PROVE  LET r == setActiveTab(s, w, k)
           IN Becomes(s, r, w, TabsIn(s.by[w]), s.by[w].tabs[k].id) /\ r.shown = w
BY FocusedBecomes DEF setActiveTab

LEMMA ReinsertKeeps ==
    ASSUME NEW s, SoundStore(s), NEW w \in DOMAIN s.by, NEW k \in DOMAIN s.by[w].tabs, NEW i,
           NEW d \in 1..Len(s.by[w].tabs), NEW x \in Tab, x.id = s.by[w].tabs[k].id,
           x.pinned => \A j \in 1..(d - 1) : RemoveAt(s.by[w].tabs, k)[j].pinned,
           ~x.pinned =>
             \A j \in d..(Len(s.by[w].tabs) - 1) : ~RemoveAt(s.by[w].tabs, k)[j].pinned
    PROVE  Grows(s, WithTabs(s, w, InsertAt(RemoveAt(s.by[w].tabs, k), d, x)), i)
<1> DEFINE g == s.by[w]
           h == [g EXCEPT !.tabs = InsertAt(RemoveAt(g.tabs, k), d, x)]
<1>1. SoundGroup(g)
  BY GroupIn
<1>2. SoundGroup(h) /\ IdsIn(h) = IdsIn(g)
  BY <1>1, Reinserted
<1> HIDE DEF h
<1>3. Grows(s, WithGroup(s, w, h), i)
  BY <1>2, PutIn
<1> QED BY <1>3 DEF WithTabs, h

(* A tab taken out and put back, as x. *)
LEMMA ReinsertBecomes ==
    ASSUME NEW s, SoundStore(s), NEW w \in DOMAIN s.by, NEW k \in DOMAIN s.by[w].tabs,
           NEW d \in 1..Len(s.by[w].tabs), NEW x \in Tab
    PROVE  LET t == s.by[w].tabs
               r == WithTabs(s, w, InsertAt(RemoveAt(t, k), d, x))
           IN Becomes(s, r, w, (Range(t) \ {t[k]}) \cup {x}, s.by[w].active) /\ r.shown = s.shown
<1> DEFINE t == s.by[w].tabs
           q == RemoveAt(t, k)
<1>1. t \in Seq(Tab) /\ UniqueIn(t) /\ PinsFirst(t) /\ Len(t) \in Nat
  BY GroupIn DEF SoundGroup, PinnedFirst, PinsFirst
<1>2. q \in Seq(Tab) /\ Len(q) = Len(t) - 1
  BY <1>1, Without
<1>3. Range(q) = Range(t) \ {t[k]}
  BY <1>1, RangeWithout
<1> HIDE DEF q
<1>4. d \in 1..(Len(q) + 1)
  BY <1>1, <1>2
<1>5. Range(InsertAt(q, d, x)) = Range(q) \cup {x}
  BY <1>2, <1>4, RangeInserted
<1>6. /\ Becomes(s, WithTabs(s, w, InsertAt(q, d, x)), w, Range(InsertAt(q, d, x)), s.by[w].active)
      /\ WithTabs(s, w, InsertAt(q, d, x)).shown = s.shown
  BY WithTabsBecomes
<1> QED BY <1>3, <1>5, <1>6 DEF q

LEMMA MoveKeeps ==
    ASSUME NEW s, SoundStore(s), s.shown \in DOMAIN s.by, NEW i,
           NEW from \in DOMAIN s.by[s.shown].tabs, NEW to \in DOMAIN s.by[s.shown].tabs
    PROVE  LET w == s.shown
               r == moveTab(s, from, to)
           IN /\ Grows(s, r, i) /\ r.shown = w
              /\ Becomes(s, r, w, TabsIn(s.by[w]), s.by[w].active)
<1> DEFINE w   == s.shown
           t   == s.by[w].tabs
           n   == Len(t)
           b   == pinnedBoundary(t)
           r   == RemoveAt(t, from)
           lo  == IF t[from].pinned THEN 1 ELSE b + 1
           hi  == IF t[from].pinned THEN b ELSE n
           dst == IF to < lo THEN lo ELSE IF to > hi THEN hi ELSE to
<1>1. t \in Seq(Tab) /\ PinsFirst(t) /\ DOMAIN t = 1..n /\ n \in Nat
  BY GroupIn DEF SoundGroup, PinnedFirst, PinsFirst
<1>2. from \in 1..n /\ to \in 1..n /\ t[from] \in Tab
  BY <1>1
<1>3. b \in 0..n /\ \A k \in 1..n : t[k].pinned <=> k <= b
  BY <1>1, Boundary
<1>4. \A j \in 1..(n - 1) : r[j] = IF j < from THEN t[j] ELSE t[j + 1]
  BY <1>1, <1>2, Removed
<1>5. moveTab(s, from, to) = WithTabs(s, w, InsertAt(r, dst, t[from]))
  BY DEF moveTab
<1> HIDE DEF t, n, b, r
<1>6. /\ t[from].pinned => dst \in 1..b /\ dst \in 1..n
      /\ ~t[from].pinned => dst \in (b + 1)..n /\ dst \in 1..n
  <2>1. CASE t[from].pinned
    <3>1. b \in 1..n
      BY <1>1, <1>2, <1>3, <2>1
    <3>2. lo = 1 /\ hi = b
      BY <2>1
    <3> HIDE DEF lo, hi
    <3>3. dst \in 1..b
      BY <1>2, <3>1, <3>2
    <3> QED BY <1>1, <2>1, <3>1, <3>3
  <2>2. CASE ~t[from].pinned
    <3>1. b + 1 \in 1..n
      BY <1>1, <1>2, <1>3, <2>2
    <3>2. lo = b + 1 /\ hi = n
      BY <2>2
    <3> HIDE DEF lo, hi
    <3>3. dst \in (b + 1)..n
      BY <1>1, <1>2, <3>1, <3>2
    <3> QED BY <1>1, <2>2, <3>1, <3>3
  <2> QED BY <2>1, <2>2
<1>7. t[from].pinned => \A j \in 1..(dst - 1) : r[j].pinned
  <2> SUFFICES ASSUME t[from].pinned, NEW j \in 1..(dst - 1) PROVE r[j].pinned
    OBVIOUS
  <2>1. dst \in 1..b
    BY <1>6
  <2> HIDE DEF dst
  <2>2. j \in 1..(n - 1) /\ j <= b /\ j + 1 <= b /\ j + 1 \in 1..n /\ j \in 1..n
    BY <1>1, <1>3, <2>1
  <2> QED BY <1>3, <1>4, <2>2
<1>8. ~t[from].pinned => \A j \in dst..(n - 1) : ~r[j].pinned
  <2> SUFFICES ASSUME ~t[from].pinned, NEW j \in dst..(n - 1) PROVE ~r[j].pinned
    OBVIOUS
  <2>1. dst \in (b + 1)..n
    BY <1>6
  <2> HIDE DEF dst
  <2>2. j \in 1..(n - 1) /\ j > b /\ j + 1 > b /\ j + 1 \in 1..n /\ j \in 1..n
    BY <1>1, <1>3, <2>1
  <2> QED BY <1>3, <1>4, <2>2
<1>9. dst \in 1..n
  BY <1>1, <1>6
<1> HIDE DEF dst
<1>10. Grows(s, WithTabs(s, w, InsertAt(r, dst, t[from])), i)
  BY <1>2, <1>7, <1>8, <1>9, ReinsertKeeps DEF t, n, r
<1> DEFINE q == WithTabs(s, w, InsertAt(r, dst, t[from]))
<1>11. Becomes(s, q, w, (Range(t) \ {t[from]}) \cup {t[from]}, s.by[w].active) /\ q.shown = w
  BY <1>2, <1>9, ReinsertBecomes DEF t, n, r
<1>12. (Range(t) \ {t[from]}) \cup {t[from]} = TabsIn(s.by[w])
  BY InRange DEF t, TabsIn
<1> HIDE DEF q
<1>13. moveTab(s, from, to) = q /\ Grows(s, q, i)
  BY <1>5, <1>10 DEF q
<1> QED BY <1>11, <1>12, <1>13

LEMMA ToggleKeeps ==
    ASSUME NEW s, SoundStore(s), NEW w \in DOMAIN s.by, NEW k \in DOMAIN s.by[w].tabs, NEW i
    PROVE  LET x == s.by[w].tabs[k]
               y == [x EXCEPT !.pinned = ~@]
               r == togglePin(s, w, k)
           IN /\ Grows(s, r, i) /\ r.shown = s.shown
              /\ Becomes(s, r, w, (TabsIn(s.by[w]) \ {x}) \cup {y}, s.by[w].active)
<1> DEFINE t == s.by[w].tabs
           n == Len(t)
           r == RemoveAt(t, k)
           d == pinnedBoundary(r) + 1
           x == [t[k] EXCEPT !.pinned = ~@]
<1>1. t \in Seq(Tab) /\ UniqueIn(t) /\ PinsFirst(t) /\ DOMAIN t = 1..n /\ n \in Nat
  BY GroupIn DEF SoundGroup, PinnedFirst, PinsFirst
<1>2. r \in Seq(Tab) /\ Len(r) = n - 1 /\ PinsFirst(r)
  BY <1>1, Without
<1>3. x \in Tab /\ x.id = t[k].id
  <2>1. t[k] \in Tab
    BY <1>1
  <2> QED BY <2>1 DEF Tab
<1>4. togglePin(s, w, k) = WithTabs(s, w, InsertAt(r, d, x))
  BY DEF togglePin
<1>5. /\ pinnedBoundary(r) \in 0..(n - 1)
      /\ \A j \in 1..(n - 1) : r[j].pinned <=> j <= pinnedBoundary(r)
  BY <1>2, Boundary
<1>6. d \in 1..n /\ k \in 1..n
  BY <1>1, <1>5
<1> HIDE DEF t, n, r, x
<1>7. \A j \in 1..(d - 1) : r[j].pinned
  BY <1>1, <1>5
<1>8. \A j \in d..(n - 1) : ~r[j].pinned
  BY <1>1, <1>5
<1> HIDE DEF d
<1>9. Grows(s, WithTabs(s, w, InsertAt(r, d, x)), i)
  BY <1>3, <1>6, <1>7, <1>8, ReinsertKeeps DEF t, n, r
<1> DEFINE q == WithTabs(s, w, InsertAt(r, d, x))
<1>10. Becomes(s, q, w, (Range(t) \ {t[k]}) \cup {x}, s.by[w].active) /\ q.shown = s.shown
  BY <1>3, <1>6, ReinsertBecomes DEF t, n, r
<1>11. Range(t) = TabsIn(s.by[w])
  BY DEF t, TabsIn
<1> HIDE DEF q
<1>12. togglePin(s, w, k) = q /\ Grows(s, q, i)
  BY <1>4, <1>9 DEF q
<1> QED BY <1>10, <1>11, <1>12 DEF x, t

LEMMA ResetKeeps == \A s, i : Keeps(s, reset, i)
BY NoneAssumption DEF Keeps, SoundStore, reset, LiveIds

LEMMA ValidateKeeps ==
    ASSUME NEW s, SoundStore(s), NEW L, NEW v \in (DOMAIN s.by \cap L) \cup {None}, NEW i
    PROVE  LET r == validateWorkspaceSlugs(s, L, v)
           IN Keeps(s, r, i) /\ LiveIds(r) \subseteq LiveIds(s)
<1> DEFINE r == validateWorkspaceSlugs(s, L, v)
<1>1. /\ DOMAIN r.by = DOMAIN s.by \cap L
      /\ \A w \in DOMAIN r.by : r.by[w] = s.by[w]
      /\ r.by = [w \in DOMAIN r.by |-> r.by[w]]
      /\ r = [shown |-> r.shown, by |-> r.by]
  BY DEF validateWorkspaceSlugs
<1>2. r.shown \in DOMAIN r.by \cup {None}
  BY DEF validateWorkspaceSlugs, SoundStore
<1> HIDE DEF r
<1>3. DOMAIN r.by \subseteq Workspaces /\ \A w \in DOMAIN r.by : SoundGroup(r.by[w])
  BY <1>1 DEF SoundStore
<1>4. \A u, w \in DOMAIN r.by : u # w => IdsIn(r.by[u]) \cap IdsIn(r.by[w]) = {}
  BY <1>1 DEF SoundStore
<1>5. LiveIds(r) \subseteq LiveIds(s)
  BY <1>1 DEF LiveIds
<1>6. SoundStore(r)
  BY <1>1, <1>2, <1>3, <1>4 DEF SoundStore
<1> QED BY <1>5, <1>6 DEF Keeps, r

----------------------------------------------------------------------------
(* A restart. The positions that are kept have a stable order: the one that *)
(* counts, for each, the positions that do not come after it.               *)

LEMMA BeforeOrder ==
    ASSUME NEW t \in Seq(Tab)
    PROVE  /\ \A j \in 1..Len(t) : ~Before(t, j, j)
           /\ \A j, k \in 1..Len(t) : j # k => Before(t, j, k) \/ Before(t, k, j)
           /\ \A j, k, m \in 1..Len(t) : Before(t, j, k) /\ Before(t, k, m) => Before(t, j, m)
<1>1. \A j \in 1..Len(t) : j \in Nat /\ t[j].pinned \in BOOLEAN
  <2>1. \A j \in 1..Len(t) : j \in Nat /\ t[j] \in Tab
    OBVIOUS
  <2> QED BY <2>1 DEF Tab
<1>2. \A j \in 1..Len(t) : ~Before(t, j, j)
  BY <1>1 DEF Before
<1>3. \A j, k \in 1..Len(t) : j # k => Before(t, j, k) \/ Before(t, k, j)
  <2> SUFFICES ASSUME NEW j \in 1..Len(t), NEW k \in 1..Len(t), j # k
               PROVE  Before(t, j, k) \/ Before(t, k, j)
    OBVIOUS
  <2>1. CASE t[j].pinned = t[k].pinned
    BY <1>1, <2>1 DEF Before
  <2>2. CASE t[j].pinned # t[k].pinned
    BY <1>1, <2>2 DEF Before
  <2> QED BY <2>1, <2>2
<1>4. ASSUME NEW j \in 1..Len(t), NEW k \in 1..Len(t), NEW m \in 1..Len(t),
             Before(t, j, k), Before(t, k, m)
      PROVE  Before(t, j, m)
  <2>1. CASE t[j].pinned = t[k].pinned /\ t[k].pinned = t[m].pinned
    BY <1>1, <1>4, <2>1 DEF Before
  <2>2. CASE t[j].pinned = t[k].pinned /\ t[k].pinned # t[m].pinned
    BY <1>1, <1>4, <2>2 DEF Before
  <2>3. CASE t[j].pinned # t[k].pinned /\ t[k].pinned = t[m].pinned
    BY <1>1, <1>4, <2>3 DEF Before
  <2>4. CASE t[j].pinned # t[k].pinned /\ t[k].pinned # t[m].pinned
    BY <1>1, <1>4, <2>4 DEF Before
  <2> QED BY <2>1, <2>2, <2>3, <2>4
<1> QED BY <1>2, <1>3, <1>4

LEMMA Ordered ==
    ASSUME NEW t \in Seq(Tab), NEW K, K \subseteq 1..Len(t)
    PROVE  LET n == Cardinality(K)
               f == Order(t, K)
           IN /\ IsFiniteSet(K) /\ n \in Nat /\ f \in [1..n -> K]
              /\ \A j, k \in 1..n : j < k => Before(t, f[j], f[k])
<1> DEFINE n == Cardinality(K)
           Upto(k) == {j \in K : j = k \/ Before(t, j, k)}
           rank == [k \in K |-> Cardinality(Upto(k))]
<1>1. IsFiniteSet(K) /\ n \in Nat
  <2>1. IsFiniteSet(1..Len(t))
    BY FS_Interval
  <2>2. K \in SUBSET (1..Len(t))
    OBVIOUS
  <2>3. IsFiniteSet(K)
    BY <2>1, <2>2, FS_Subset
  <2> QED BY <2>3, FS_CardinalityType
<1>2. \A k \in K : IsFiniteSet(Upto(k)) /\ rank[k] \in Nat /\ rank[k] \in 1..n
  <2> SUFFICES ASSUME NEW k \in K
               PROVE  IsFiniteSet(Upto(k)) /\ rank[k] \in Nat /\ rank[k] \in 1..n
    OBVIOUS
  <2>1. Upto(k) \in SUBSET K /\ Upto(k) # {}
    OBVIOUS
  <2> HIDE DEF Upto
  <2>2. IsFiniteSet(Upto(k)) /\ Cardinality(Upto(k)) <= n
    BY <1>1, <2>1, FS_Subset
  <2>3. Cardinality(Upto(k)) \in Nat /\ Cardinality(Upto(k)) # 0
    BY <2>1, <2>2, FS_CardinalityType, FS_EmptySet
  <2> QED BY <1>1, <2>2, <2>3
<1>3. \A j, k \in K : Before(t, j, k) => rank[j] < rank[k]
  <2> SUFFICES ASSUME NEW j \in K, NEW k \in K, Before(t, j, k) PROVE rank[j] < rank[k]
    OBVIOUS
  <2>1. Upto(j) \subseteq Upto(k)
    BY BeforeOrder
  <2>2. k \in Upto(k) /\ k \notin Upto(j)
    BY BeforeOrder
  <2>3. IsFiniteSet(Upto(j)) /\ IsFiniteSet(Upto(k))
        /\ rank[j] = Cardinality(Upto(j)) /\ rank[k] = Cardinality(Upto(k))
        /\ rank[j] \in Nat /\ rank[k] \in Nat
    BY <1>2
  <2> HIDE DEF Upto, rank
  <2>4. Upto(j) \in SUBSET Upto(k) /\ Upto(j) # Upto(k)
    BY <2>1, <2>2
  <2>5. Cardinality(Upto(j)) <= Cardinality(Upto(k)) /\ Cardinality(Upto(j)) # Cardinality(Upto(k))
    BY <2>3, <2>4, FS_Subset
  <2> QED BY <2>3, <2>5
<1> HIDE DEF rank
<1>4. rank \in Injection(K, 1..n)
  <2>1. rank \in [K -> 1..n]
    BY <1>2 DEF rank
  <2>2. \A j, k \in K : rank[j] = rank[k] => j = k
    <3> SUFFICES ASSUME NEW j \in K, NEW k \in K, rank[j] = rank[k], j # k PROVE FALSE
      OBVIOUS
    <3>1. Before(t, j, k) \/ Before(t, k, j)
      BY BeforeOrder
    <3>2. rank[j] < rank[k] \/ rank[k] < rank[j]
      BY <1>3, <3>1
    <3>3. rank[j] \in Nat /\ rank[k] \in Nat
      BY <1>2
    <3> QED BY <3>2, <3>3
  <2> QED BY <2>1, <2>2, Fun_IsInj
<1>5. \A m \in 1..n : \E k \in K : rank[k] = m
  <2>1. IsFiniteSet(1..n) /\ Cardinality(1..n) = n
    BY <1>1, FS_Interval
  <2>2. rank \in Surjection(K, 1..n)
    BY <1>4, <2>1, FS_Injection
  <2> QED BY <2>2, Fun_SurjectionProperties
<1> DEFINE f == [m \in 1..n |-> CHOOSE k \in K : rank[k] = m]
<1>6. \A m \in 1..n : f[m] \in K /\ rank[f[m]] = m
  BY <1>5
<1>7. f \in [1..n -> K]
  BY <1>6
<1> HIDE DEF f
<1>8. \A j, k \in 1..n : j < k => Before(t, f[j], f[k])
  <2> SUFFICES ASSUME NEW j \in 1..n, NEW k \in 1..n, j < k, ~Before(t, f[j], f[k]) PROVE FALSE
    OBVIOUS
  <2>1. f[j] \in K /\ f[k] \in K /\ rank[f[j]] = j /\ rank[f[k]] = k
    BY <1>6
  <2>2. f[j] # f[k]
    BY <2>1
  <2>3. Before(t, f[k], f[j])
    BY <2>1, <2>2, BeforeOrder
  <2>4. k < j
    BY <1>3, <2>1, <2>3
  <2> QED BY <2>4
<1> QED BY <1>1, <1>7, <1>8 DEF Order

LEMMA Rewound ==
    ASSUME NEW x \in Tab
    PROVE  LET y == [x EXCEPT !.at = 0, !.len = 1]
           IN y \in Tab /\ y.id = x.id /\ y.pinned = x.pinned
BY DEF Tab

LEMMA Merged ==
    ASSUME NEW g, SoundGroup(g), NEW w, keptAt(g, w) # {}
    PROVE  SoundGroup(mergeGroup(g, w)) /\ IdsIn(mergeGroup(g, w)) \subseteq IdsIn(g)
<1> DEFINE K == keptAt(g, w)
           n == Cardinality(K)
           f == Order(g.tabs, K)
           t == [k \in DOMAIN f |-> [g.tabs[f[k]] EXCEPT !.at = 0, !.len = 1]]
           h == mergeGroup(g, w)
<1>1. g.tabs \in Seq(Tab) /\ DOMAIN g.tabs = 1..Len(g.tabs) /\ K \subseteq 1..Len(g.tabs)
      /\ g.active \in Nat
  BY DEF keptAt, SoundGroup, Group
<1>2. /\ IsFiniteSet(K) /\ n \in Nat /\ f \in [1..n -> K]
      /\ \A j, k \in 1..n : j < k => Before(g.tabs, f[j], f[k])
  BY <1>1, Ordered
<1>3. h = [tabs |-> t, active |-> IF \E k \in DOMAIN t : t[k].id = g.active
                                  THEN g.active ELSE t[1].id]
  BY DEF mergeGroup
<1>4. n >= 1
  <2>1. n # 0
    BY <1>2, FS_EmptySet
  <2> QED BY <1>2, <2>1
<1> HIDE DEF K, n, f
<1>5. DOMAIN t = 1..n
      /\ \A k \in 1..n : /\ f[k] \in DOMAIN g.tabs /\ t[k] \in Tab
                         /\ t[k].id = g.tabs[f[k]].id /\ t[k].pinned = g.tabs[f[k]].pinned
  <2>1. DOMAIN t = 1..n
    BY <1>2
  <2>2. ASSUME NEW k \in 1..n
        PROVE  /\ f[k] \in DOMAIN g.tabs /\ t[k] \in Tab
               /\ t[k].id = g.tabs[f[k]].id /\ t[k].pinned = g.tabs[f[k]].pinned
    <3>1. f[k] \in DOMAIN g.tabs /\ g.tabs[f[k]] \in Tab
      <4>1. f[k] \in K
        BY <1>2
      <4>2. f[k] \in 1..Len(g.tabs)
        BY <1>1, <4>1
      <4> QED BY <1>1, <4>2
    <3>2. t[k] = [g.tabs[f[k]] EXCEPT !.at = 0, !.len = 1]
      <4>1. k \in DOMAIN f
        BY <1>2
      <4> QED BY <4>1
    <3> QED BY <3>1, <3>2, Rewound
  <2> QED BY <2>1, <2>2
<1>6. t \in Seq(Tab)
  <2>1. t \in [1..n -> Tab]
    <3>1. t = [k \in DOMAIN t |-> t[k]]
      OBVIOUS
    <3> HIDE DEF t
    <3> QED BY <1>5, <3>1
  <2> HIDE DEF t
  <2> QED BY <1>2, <2>1
<1> HIDE DEF t
<1>7. \A j, k \in 1..n : j # k => f[j] # f[k]
  BY <1>1, <1>2, <1>5, BeforeOrder
<1>8. UniqueIn(t)
  BY <1>5, <1>7 DEF UniqueIn, SoundGroup
<1>9. h.tabs = t /\ h.active \in IdsIn(h) /\ h \in Group
  <2>1. h.tabs = t /\ h.active = IF \E k \in DOMAIN t : t[k].id = g.active THEN g.active ELSE t[1].id
    BY <1>3
  <2> HIDE DEF h
  <2>2. \E k \in DOMAIN t : t[k].id = h.active
    <3>1. 1 \in 1..n
      BY <1>2, <1>4
    <3> QED BY <1>5, <2>1, <3>1
  <2>3. h.active \in IdsIn(h)
    BY <2>1, <2>2 DEF IdsIn
  <2>4. h.active \in Nat
    BY <1>5, <2>2 DEF Tab
  <2>5. h = [tabs |-> t, active |-> h.active]
    BY <1>3 DEF h
  <2>6. h \in Group
    BY <1>6, <2>4, <2>5 DEF Group
  <2> QED BY <2>1, <2>3, <2>6
<1> HIDE DEF h
<1>10. PinnedFirst(h)
  <2> SUFFICES ASSUME NEW j \in 1..n, NEW k \in 1..n, j < k, t[k].pinned PROVE t[j].pinned
    BY <1>5, <1>9 DEF PinnedFirst
  <2>1. Before(g.tabs, f[j], f[k]) /\ g.tabs[f[k]].pinned
    BY <1>2, <1>5
  <2>2. g.tabs[f[j]].pinned
    BY <2>1 DEF Before
  <2> QED BY <1>5, <2>2
<1>11. IdsIn(h) \subseteq IdsIn(g)
  BY <1>5, <1>9 DEF IdsIn
<1> QED BY <1>8, <1>9, <1>10, <1>11 DEF SoundGroup, h

LEMMA MergeKeeps ==
    ASSUME NEW s, SoundStore(s), NEW v \in mergedSlugs(s) \cup {None}, NEW i
    PROVE  Keeps(s, merge(s, v), i) /\ LiveIds(merge(s, v)) \subseteq LiveIds(s)
<1> DEFINE r == merge(s, v)
<1>1. /\ DOMAIN r.by = mergedSlugs(s)
      /\ \A w \in DOMAIN r.by : r.by[w] = mergeGroup(s.by[w], w)
      /\ r.by = [w \in DOMAIN r.by |-> r.by[w]]
      /\ r = [shown |-> r.shown, by |-> r.by]
      /\ r.shown \in DOMAIN r.by \cup {None}
  BY DEF merge
<1> HIDE DEF r
<1>2. \A w \in DOMAIN r.by : /\ w \in DOMAIN s.by /\ SoundGroup(r.by[w])
                             /\ IdsIn(r.by[w]) \subseteq IdsIn(s.by[w])
  <2> SUFFICES ASSUME NEW w \in mergedSlugs(s)
               PROVE  /\ w \in DOMAIN s.by /\ SoundGroup(r.by[w])
                      /\ IdsIn(r.by[w]) \subseteq IdsIn(s.by[w])
    BY <1>1
  <2>1. w \in DOMAIN s.by /\ keptAt(s.by[w], w) # {}
    BY DEF mergedSlugs
  <2>2. SoundGroup(s.by[w])
    BY <2>1, GroupIn
  <2> QED BY <1>1, <2>1, <2>2, Merged
<1>3. \A u, w \in DOMAIN r.by : u # w => IdsIn(r.by[u]) \cap IdsIn(r.by[w]) = {}
  BY <1>2 DEF SoundStore
<1>4. LiveIds(r) \subseteq LiveIds(s)
  BY <1>2 DEF LiveIds
<1>5. SoundStore(r)
  BY <1>1, <1>2, <1>3 DEF SoundStore
<1> QED BY <1>4, <1>5 DEF Keeps, r

----------------------------------------------------------------------------
(* What is left after the list changed, and after a restart. *)

LEMMA UpdateBecomes ==
    ASSUME NEW s, SoundStore(s), NEW w \in DOMAIN s.by, NEW k \in DOMAIN s.by[w].tabs, NEW x
    PROVE  LET r == WithTabs(s, w, [s.by[w].tabs EXCEPT ![k] = x])
           IN /\ Becomes(s, r, w, (TabsIn(s.by[w]) \ {s.by[w].tabs[k]}) \cup {x}, s.by[w].active)
              /\ r.shown = s.shown
<1>1. s.by[w].tabs \in Seq(Tab) /\ UniqueIn(s.by[w].tabs)
  BY GroupIn DEF SoundGroup
<1>2. Range([s.by[w].tabs EXCEPT ![k] = x]) = (Range(s.by[w].tabs) \ {s.by[w].tabs[k]}) \cup {x}
  BY <1>1, RangeChanged
<1> QED BY <1>2, WithTabsBecomes DEF TabsIn

LEMMA ValidateBecomes ==
    ASSUME NEW s, NEW L, NEW v
    PROVE  LET r == validateWorkspaceSlugs(s, L, v)
           IN /\ DOMAIN r.by = DOMAIN s.by \cap L
              /\ \A w \in DOMAIN r.by : r.by[w] = s.by[w]
              /\ r.shown = IF s.shown \in L \cup {None} THEN s.shown ELSE v
BY DEF validateWorkspaceSlugs

(* A tab that comes back is one that was there, at the start of its history. *)
Comes(x, y, w) == x = [y EXCEPT !.at = 0, !.len = 1] /\ y.path.ws = w

LEMMA MergedTabs ==
    ASSUME NEW g, SoundGroup(g), NEW w
    PROVE  LET h == mergeGroup(g, w)
           IN /\ \A x \in TabsIn(h) : \E y \in TabsIn(g) : Comes(x, y, w)
              /\ g.active \in IdsIn(h) => h.active = g.active
<1> DEFINE K == keptAt(g, w)
           f == Order(g.tabs, K)
           t == [k \in DOMAIN f |-> [g.tabs[f[k]] EXCEPT !.at = 0, !.len = 1]]
           h == mergeGroup(g, w)
<1>1. h = [tabs |-> t, active |-> IF \E k \in DOMAIN t : t[k].id = g.active
                                  THEN g.active ELSE t[1].id]
  BY DEF mergeGroup
<1>2. g.tabs \in Seq(Tab) /\ K \subseteq 1..Len(g.tabs)
  BY DEF keptAt, SoundGroup, Group
<1>3. f \in [1..Cardinality(K) -> K]
  BY <1>2, Ordered
<1> HIDE DEF f
<1>4. ASSUME NEW k \in DOMAIN t
      PROVE  \E y \in TabsIn(g) : Comes(t[k], y, w)
  <2>1. f[k] \in K
    BY <1>3
  <2>2. f[k] \in DOMAIN g.tabs /\ g.tabs[f[k]].path.ws = w
    BY <2>1 DEF keptAt
  <2>3. g.tabs[f[k]] \in TabsIn(g)
    BY <2>2 DEF TabsIn, Range
  <2>4. Comes(t[k], g.tabs[f[k]], w)
    BY <2>2 DEF Comes
  <2> QED BY <2>3, <2>4
<1> HIDE DEF t, h
<1>5. TabsIn(h) = {t[k] : k \in DOMAIN t} /\ IdsIn(h) = {t[k].id : k \in DOMAIN t}
  BY <1>1 DEF TabsIn, Range, IdsIn
<1>6. g.active \in IdsIn(h) => h.active = g.active
  BY <1>1, <1>5
<1> QED BY <1>4, <1>5, <1>6 DEF h

LEMMA MergeBecomes ==
    ASSUME NEW s, SoundStore(s), NEW v
    PROVE  LET r == merge(s, v)
           IN /\ DOMAIN r.by = mergedSlugs(s) /\ mergedSlugs(s) \subseteq DOMAIN s.by
              /\ \A w \in DOMAIN r.by :
                   /\ \A x \in TabsIn(r.by[w]) : \E y \in TabsIn(s.by[w]) : Comes(x, y, w)
                   /\ s.by[w].active \in IdsIn(r.by[w]) => r.by[w].active = s.by[w].active
              /\ r.shown = IF s.shown \in mergedSlugs(s) THEN s.shown ELSE v
<1>1. /\ DOMAIN merge(s, v).by = mergedSlugs(s)
      /\ \A w \in mergedSlugs(s) : merge(s, v).by[w] = mergeGroup(s.by[w], w)
      /\ merge(s, v).shown = IF s.shown \in mergedSlugs(s) THEN s.shown ELSE v
  BY DEF merge
<1>2. mergedSlugs(s) \subseteq DOMAIN s.by
  BY DEF mergedSlugs
<1>3. \A w \in mergedSlugs(s) : SoundGroup(s.by[w])
  BY <1>2, GroupIn
<1>4. \A w \in mergedSlugs(s) :
        LET h == mergeGroup(s.by[w], w)
        IN /\ \A x \in TabsIn(h) : \E y \in TabsIn(s.by[w]) : Comes(x, y, w)
           /\ s.by[w].active \in IdsIn(h) => h.active = s.by[w].active
  BY <1>3, MergedTabs
<1> QED BY <1>1, <1>2, <1>4
=============================================================================
