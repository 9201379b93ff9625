--------------------------- MODULE EmptyClaimProofs ---------------------------
(* NeverHidden for any number of tasks, runtimes, claims and faults. *)
EXTENDS EmptyClaim, TLAPS

(* On an undisturbed runtime no verdict, and no tag a claim holds, is ahead of
   the counter; one that could hide an announced row is behind it. *)
Tagged(r) ==
    verdict[r] # NoVerdict =>
       /\ verdict[r] <= version[r]
       /\ Announced(r) # {} => verdict[r] < version[r]

Sampled(c) ==
    claim[c].pc \in {"sampled", "empty"} => claim[c].version <= version[claim[c].runtime]

Behind(c) ==
    (claim[c].pc = "empty" /\ Announced(claim[c].runtime) # {})
       => claim[c].version < version[claim[c].runtime]

Typed ==
    /\ TypeOK
    /\ \A c \in Claims : claim[c].pc # "idle" => claim[c].runtime \in Runtimes

Tags ==
    /\ \A r \in Runtimes \ disturbed : Tagged(r)
    /\ \A c \in Claims : claim[c].runtime \in Runtimes \ disturbed => Sampled(c) /\ Behind(c)

IInv == Typed /\ Tags

LEMMA InitInv == Init => IInv
  BY BoundsAssumption DEF Init, IInv, Tags, Typed, TypeOK, Tagged, Sampled, Behind, ClaimPC, Idle

LEMMA TypeStep == Typed /\ [Next]_vars => Typed'
  <1> SUFFICES ASSUME Typed, [Next]_vars
               PROVE  Typed'
    OBVIOUS
  <1> DEFINE C == [pc : ClaimPC, runtime : Runtimes \cup {"none"}, version : Nat]
  <1> USE DEF Typed, TypeOK
  <1>1. ASSUME NEW t \in Tasks, NEW r \in Runtimes, Insert(t, r)
        PROVE  Typed'
    BY <1>1 DEF Insert
  <1>2. ASSUME NEW e \in unannounced, Bump(e) \/ BumpFails(e)
        PROVE  Typed'
    <2>1. e.runtime \in Runtimes
      OBVIOUS
    <2>2. CASE Bump(e)
      BY <2>1, <2>2 DEF Bump
    <2>3. CASE BumpFails(e)
      BY <2>1, <2>3 DEF BumpFails, Fault
    <2> QED
      BY <1>2, <2>2, <2>3
  <1>3. ASSUME NEW c \in Claims, NEW r \in Runtimes, Miss(c, r) \/ LookupFails(c, r)
        PROVE  Typed'
    <2>1. claim' = [claim EXCEPT ![c] = [pc |-> "missed", runtime |-> r, version |-> 0]]
      BY <1>3 DEF Miss, LookupFails, Idle
    <2> QED
      BY <1>3, <2>1 DEF Miss, LookupFails, ClaimPC
  <1>4. ASSUME NEW c \in Claims, Sample(c)
        PROVE  Typed'
    <2>1. PICK v \in {version[claim[c].runtime], 0} :
             claim' = [claim EXCEPT ![c] = [@ EXCEPT !.pc = "sampled", !.version = v]]
      BY <1>4 DEF Sample
    <2>2. v \in Nat /\ claim[c] \in C /\ claim[c].runtime \in Runtimes
      BY <1>4, <2>1 DEF Sample
    <2>3. [claim[c] EXCEPT !.pc = "sampled", !.version = v] \in C
      BY <2>2 DEF ClaimPC
    <2>4. claim' \in [Claims -> C]
      BY <2>1, <2>3
    <2>5. \A d \in Claims : claim'[d].pc # "idle" => claim'[d].runtime \in Runtimes
      BY <2>1, <2>2
    <2> QED
      BY <1>4, <2>4, <2>5 DEF Sample
  <1>5. ASSUME NEW c \in Claims, Select(c)
        PROVE  Typed'
    <2>1. PICK d \in {Idle, [claim[c] EXCEPT !.pc = "empty"]} : claim' = [claim EXCEPT ![c] = d]
      BY <1>5 DEF Select
    <2>2. claim[c] \in C /\ claim[c].runtime \in Runtimes
      BY <1>5 DEF Select
    <2>3. d \in C /\ (d.pc # "idle" => d.runtime \in Runtimes)
      BY <2>1, <2>2 DEF Idle, ClaimPC
    <2>4. claim' \in [Claims -> C]
      BY <2>1, <2>3
    <2>5. \A b \in Claims : claim'[b].pc # "idle" => claim'[b].runtime \in Runtimes
      BY <2>1, <2>3
    <2> QED
      BY <1>5, <2>2, <2>4, <2>5 DEF Select
  <1>6. ASSUME NEW c \in Claims, MarkEmpty(c)
        PROVE  Typed'
    <2>1. claim[c] \in C /\ claim[c].runtime \in Runtimes
      BY <1>6 DEF MarkEmpty
    <2>2. verdict' \in [Runtimes -> Nat \cup {NoVerdict}]
      BY <1>6, <2>1 DEF MarkEmpty, Tag
    <2>3. claim' = [claim EXCEPT ![c] = Idle] /\ Idle \in C
      BY <1>6 DEF MarkEmpty, Idle, ClaimPC
    <2> QED
      BY <1>6, <2>2, <2>3 DEF MarkEmpty, Idle
  <1>7. ASSUME NEW r \in Runtimes,
               \/ VerdictExpires(r) \/ VersionExpires(r)
               \/ \E t \in Tasks : Leave(t, r)
               \/ \E new \in Runtimes : Merge(r, new)
        PROVE  Typed'
    BY <1>7 DEF VerdictExpires, VersionExpires, Leave, Merge
  <1>8. ASSUME KeysLost
        PROVE  Typed'
    BY <1>8 DEF KeysLost, Fault
  <1>9. ASSUME NEW D \in SUBSET Claims, NEW A \in SUBSET unannounced, Crash(D, A)
        PROVE  Typed'
    <2>1. Idle \in C
      BY DEF Idle, ClaimPC
    <2>2. disturbed' \subseteq Runtimes /\ faults' \in Nat
      BY <1>9 DEF Crash, Fault
    <2> QED
      BY <1>9, <2>1, <2>2 DEF Crash, Idle
  <1> QED
    BY <1>1, <1>2, <1>3, <1>4, <1>5, <1>6, <1>7, <1>8, <1>9
       DEF Next, Enqueue, Claim, Environment, vars

-----------------------------------------------------------------------------
(* Steps that touch neither claims nor, on runtimes that stay undisturbed,
   the counter and the verdict, and announce nothing there. *)
LEMMA QuietStep ==
    ASSUME Typed, Tags, UNCHANGED claim, disturbed \subseteq disturbed',
           \A r \in Runtimes \ disturbed' :
              /\ version'[r] = version[r] /\ verdict'[r] \in {verdict[r], NoVerdict}
              /\ Announced(r)' \subseteq Announced(r)
    PROVE  Tags'
  <1>1. \A r \in Runtimes \ disturbed' : Tagged(r)'
    BY DEF Tags, Tagged
  <1>2. ASSUME NEW c \in Claims, claim[c].runtime \in Runtimes \ disturbed'
        PROVE  Sampled(c)' /\ Behind(c)'
    BY <1>2 DEF Tags, Sampled, Behind
  <1> QED
    BY <1>1, <1>2 DEF Tags

(* Steps of one claim that write no verdict. *)
LEMMA ClaimStep ==
    ASSUME Typed, Tags, NEW c \in Claims, UNCHANGED <<queued, unannounced, version, verdict, disturbed>>,
           \A d \in Claims \ {c} : claim'[d] = claim[d],
           claim'[c].runtime \in Runtimes \ disturbed => Sampled(c)' /\ Behind(c)'
    PROVE  Tags'
  <1>1. \A r : Announced(r)' = Announced(r)
    BY DEF Announced
  <1>2. \A r \in Runtimes \ disturbed' : Tagged(r)'
    BY <1>1 DEF Tags, Tagged
  <1>3. ASSUME NEW d \in Claims \ {c}, claim'[d].runtime \in Runtimes \ disturbed
        PROVE  Sampled(d)' /\ Behind(d)'
    BY <1>1, <1>3 DEF Tags, Sampled, Behind
  <1> QED
    BY <1>2, <1>3 DEF Tags

LEMMA TagStep == IInv /\ [Next]_vars => Tags'
  <1> SUFFICES ASSUME Typed, Tags, [Next]_vars
               PROVE  Tags'
    BY DEF IInv
  <1>1. ASSUME NEW t \in Tasks, NEW r \in Runtimes, Insert(t, r)
        PROVE  Tags'
    <2>1. \A s \in Runtimes : Announced(s)' \subseteq Announced(s)
      BY <1>1 DEF Insert, Announced, Typed, TypeOK
    <2> QED
      BY <1>1, <2>1, QuietStep DEF Insert
  <1>2. ASSUME NEW e \in unannounced, Bump(e)
        PROVE  Tags'
    <2> DEFINE r == e.runtime
    <2>1. e \in [task : Tasks, runtime : Runtimes]
      BY DEF Typed, TypeOK
    <2>2. /\ version'[r] = version[r] + 1 /\ version[r] \in Nat
          /\ \A s \in Runtimes \ {r} : version'[s] = version[s]
      BY <1>2, <2>1 DEF Bump, Typed, TypeOK
    <2>3. \A s \in Runtimes \ {r} : Announced(s)' \subseteq Announced(s)
      BY <1>2, <2>1 DEF Bump, Announced
    <2>4. /\ \A s \in Runtimes : verdict[s] \in Nat \cup {NoVerdict}
          /\ \A c \in Claims : claim[c].version \in Nat
      BY DEF Typed, TypeOK
    <2> HIDE DEF r
    <2>5. \A s \in Runtimes \ disturbed' : Tagged(s)'
      BY <1>2, <2>2, <2>3, <2>4 DEF Bump, Tags, Tagged
    <2>6. ASSUME NEW c \in Claims, claim[c].runtime \in Runtimes \ disturbed
          PROVE  Sampled(c)' /\ Behind(c)'
      <3>1. Sampled(c) /\ Behind(c) /\ claim[c].version \in Nat
        BY <2>4, <2>6 DEF Tags
      <3>2. claim'[c] = claim[c]
        BY <1>2 DEF Bump
      <3>3. CASE claim[c].runtime = r
        BY <2>2, <3>1, <3>2, <3>3 DEF Sampled, Behind
      <3>4. CASE claim[c].runtime # r
        BY <2>2, <2>3, <2>6, <3>1, <3>2, <3>4 DEF Sampled, Behind
      <3> QED
        BY <3>3, <3>4
    <2> QED
      BY <1>2, <2>5, <2>6 DEF Bump, Tags
  <1>3. ASSUME NEW e \in unannounced, BumpFails(e)
        PROVE  Tags'
    <2>1. \A s \in Runtimes \ disturbed' : Announced(s)' \subseteq Announced(s)
      BY <1>3 DEF BumpFails, Fault, Announced, Typed, TypeOK
    <2> QED
      BY <1>3, <2>1, QuietStep DEF BumpFails, Fault
  <1>4. ASSUME NEW c \in Claims, NEW r \in Runtimes, Miss(c, r) \/ LookupFails(c, r)
        PROVE  Tags'
    <2>1. /\ UNCHANGED <<queued, unannounced, version, verdict, disturbed>>
          /\ \A d \in Claims \ {c} : claim'[d] = claim[d]
          /\ claim'[c].pc = "missed"
      BY <1>4 DEF Miss, LookupFails, Typed, TypeOK, Idle
    <2> QED
      BY <2>1, ClaimStep DEF Sampled, Behind
  <1>5. ASSUME NEW c \in Claims, Sample(c)
        PROVE  Tags'
    <2>1. PICK v \in {version[claim[c].runtime], 0} :
             claim' = [claim EXCEPT ![c] = [@ EXCEPT !.pc = "sampled", !.version = v]]
      BY <1>5 DEF Sample
    <2>2. claim[c].runtime \in Runtimes /\ version[claim[c].runtime] \in Nat
      BY <1>5 DEF Sample, Typed, TypeOK
    <2>3. /\ claim'[c].pc = "sampled" /\ claim'[c].version = v
          /\ claim'[c].runtime = claim[c].runtime
      BY <2>1 DEF Typed, TypeOK
    <2>4. /\ UNCHANGED <<queued, unannounced, version, verdict, disturbed>>
          /\ \A d \in Claims \ {c} : claim'[d] = claim[d]
      BY <1>5, <2>1 DEF Sample, Typed, TypeOK
    <2>5. Sampled(c)' /\ Behind(c)'
      BY <2>1, <2>2, <2>3, <2>4 DEF Sampled, Behind
    <2> QED
      BY <2>4, <2>5, ClaimStep
  <1>6. ASSUME NEW c \in Claims, Select(c)
        PROVE  Tags'
    <2>1. /\ UNCHANGED <<queued, unannounced, version, verdict, disturbed>>
          /\ \A d \in Claims \ {c} : claim'[d] = claim[d]
      BY <1>6 DEF Select
    <2>2. CASE queued[claim[c].runtime] = {}
      <3>1. /\ claim'[c].pc = "empty" /\ claim'[c].version = claim[c].version
            /\ claim'[c].runtime = claim[c].runtime /\ claim[c].pc = "sampled"
        BY <1>6, <2>2 DEF Select, Typed, TypeOK
      <3>2. Announced(claim[c].runtime) = {} /\ \A s : Announced(s)' = Announced(s)
        BY <2>1, <2>2 DEF Announced
      <3>3. claim'[c].runtime \in Runtimes \ disturbed => Sampled(c)' /\ Behind(c)'
        BY <2>1, <3>1, <3>2 DEF Tags, Sampled, Behind
      <3> QED
        BY <2>1, <3>3, ClaimStep
    <2>3. CASE queued[claim[c].runtime] # {}
      <3>1. claim'[c].pc = "idle"
        BY <1>6, <2>3 DEF Select, Typed, TypeOK, Idle
      <3> QED
        BY <2>1, <3>1, ClaimStep DEF Sampled, Behind
    <2> QED
      BY <2>2, <2>3
  <1>7. ASSUME NEW c \in Claims, MarkEmpty(c)
        PROVE  Tags'
    <2> PICK r \in Runtimes : r = claim[c].runtime
      BY <1>7 DEF MarkEmpty, Typed
    <2>1. /\ UNCHANGED <<queued, unannounced, version, disturbed>>
          /\ \A d \in Claims \ {c} : claim'[d] = claim[d]
          /\ claim'[c].pc = "idle" /\ claim[c].pc = "empty"
          /\ \A s \in Runtimes \ {r} : verdict'[s] = verdict[s]
          /\ verdict'[r] \in {verdict[r], claim[c].version}
      BY <1>7 DEF MarkEmpty, Tag, Typed, TypeOK, Idle
    <2>2. r \notin disturbed => Tagged(r) /\ Sampled(c) /\ Behind(c)
      BY <2>1 DEF Tags
    <2>3. \A s : Announced(s)' = Announced(s)
      BY <2>1 DEF Announced
    <2>4. r \notin disturbed => Tagged(r)'
      BY <2>1, <2>2, <2>3 DEF Tagged, Sampled, Behind, Typed, TypeOK
    <2>5. \A s \in Runtimes \ disturbed' : Tagged(s)'
      <3>1. ASSUME NEW s \in Runtimes \ disturbed, s # r
            PROVE  Tagged(s)'
        BY <2>1, <2>3, <3>1 DEF Tags, Tagged
      <3> QED
        BY <2>1, <2>4, <3>1
    <2>6. \A d \in Claims : claim'[d].runtime \in Runtimes \ disturbed' => Sampled(d)' /\ Behind(d)'
      <3>1. ASSUME NEW d \in Claims, claim'[d].runtime \in Runtimes \ disturbed, d # c
            PROVE  Sampled(d)' /\ Behind(d)'
        BY <2>1, <2>3, <3>1 DEF Tags, Sampled, Behind
      <3>2. Sampled(c)' /\ Behind(c)'
        BY <2>1 DEF Sampled, Behind
      <3> QED
        BY <2>1, <3>1, <3>2
    <2> QED
      BY <2>5, <2>6 DEF Tags
  <1>8. ASSUME NEW r \in Runtimes, VerdictExpires(r)
        PROVE  Tags'
    <2>1. /\ UNCHANGED <<claim, disturbed, version>>
          /\ \A s \in Runtimes : /\ verdict'[s] \in {verdict[s], NoVerdict}
                                /\ Announced(s)' \subseteq Announced(s)
      BY <1>8 DEF VerdictExpires, Announced, Typed, TypeOK
    <2> QED
      BY <2>1, QuietStep
  <1>9. ASSUME NEW r \in Runtimes, VersionExpires(r)
        PROVE  Tags'
    <2>1. /\ UNCHANGED <<queued, unannounced, verdict, claim, disturbed>>
          /\ verdict[r] = NoVerdict /\ \A c \in Claims : claim[c].runtime # r
          /\ \A s \in Runtimes \ {r} : version'[s] = version[s]
      BY <1>9 DEF VersionExpires, Typed, TypeOK
    <2>2. \A s : Announced(s)' = Announced(s)
      BY <2>1 DEF Announced
    <2>3. \A s \in Runtimes \ disturbed' : Tagged(s)'
      BY <2>1, <2>2 DEF Tags, Tagged
    <2>4. ASSUME NEW c \in Claims, claim[c].runtime \in Runtimes \ disturbed
          PROVE  Sampled(c)' /\ Behind(c)'
      BY <2>1, <2>2, <2>4 DEF Tags, Sampled, Behind
    <2> QED
      BY <2>1, <2>3, <2>4 DEF Tags
  <1>10. ASSUME NEW t \in Tasks, NEW r \in Runtimes, Leave(t, r)
         PROVE  Tags'
    <2>1. /\ UNCHANGED <<claim, disturbed, version, verdict>>
          /\ \A s \in Runtimes : Announced(s)' \subseteq Announced(s)
      BY <1>10 DEF Leave, Announced, Typed, TypeOK
    <2> QED
      BY <2>1, QuietStep
  <1>11. ASSUME NEW old \in Runtimes, NEW new \in Runtimes, Merge(old, new)
         PROVE  Tags'
    <2>1. /\ UNCHANGED <<claim, version, verdict>>
          /\ disturbed' = disturbed \cup {new}
          /\ \A s \in Runtimes \ {new} : Announced(s)' \subseteq Announced(s)
      BY <1>11 DEF Merge, Announced, Typed, TypeOK
    <2> QED
      BY <2>1, QuietStep
  <1>12. ASSUME KeysLost
         PROVE  Tags'
    <2>1. claim' = claim /\ disturbed' = disturbed \cup Runtimes
      BY <1>12 DEF KeysLost, Fault
    <2> QED
      BY <2>1, QuietStep
  <1>13. ASSUME NEW D \in SUBSET Claims, NEW A \in SUBSET unannounced, Crash(D, A)
         PROVE  Tags'
    <2>1. /\ UNCHANGED <<queued, version, verdict>>
          /\ disturbed \subseteq disturbed' /\ \A e \in A : e.runtime \in disturbed'
          /\ unannounced' = unannounced \ A
          /\ \A c \in Claims : claim'[c] = claim[c] \/ claim'[c].pc = "idle"
      BY <1>13 DEF Crash, Fault, Idle
    <2>2. \A s \in Runtimes \ disturbed' : Announced(s)' = Announced(s)
      BY <2>1 DEF Announced
    <2>3. \A s \in Runtimes \ disturbed' : Tagged(s)'
      BY <2>1, <2>2 DEF Tags, Tagged
    <2>4. ASSUME NEW c \in Claims, claim'[c].runtime \in Runtimes \ disturbed'
          PROVE  Sampled(c)' /\ Behind(c)'
      <3>1. CASE claim'[c] = claim[c]
        BY <2>1, <2>2, <2>4, <3>1 DEF Tags, Sampled, Behind
      <3>2. CASE claim'[c].pc = "idle"
        BY <3>2 DEF Sampled, Behind
      <3> QED
        BY <2>1, <3>1, <3>2
    <2> QED
      BY <2>3, <2>4 DEF Tags
  <1>14. CASE UNCHANGED vars
    BY <1>14, QuietStep DEF vars, Announced
  <1> QED
    BY <1>1, <1>2, <1>3, <1>4, <1>5, <1>6, <1>7, <1>8, <1>9, <1>10, <1>11, <1>12, <1>13, <1>14
       DEF Next, Enqueue, Claim, Environment

THEOREM Inductive == Spec => []IInv
  <1>1. IInv /\ [Next]_vars => IInv'
    BY TypeStep, TagStep DEF IInv
  <1> QED
    BY <1>1, InitInv, PTL DEF Spec

(* Every variable keeps its type. *)
THEOREM TypeCorrect == Spec => []TypeOK
  <1>1. IInv => TypeOK
    BY DEF IInv, Typed
  <1> QED
    BY <1>1, Inductive, PTL

(* As long as no increment is lost and no registration merges rows into it, a
   runtime's announced rows are never hidden by the cache, however many claims
   and enqueues run at once and whichever reads and writes of Redis fail. *)
THEOREM Visible == Spec => []NeverHidden
  <1>1. IInv => NeverHidden
    <2> SUFFICES ASSUME IInv, NEW r \in Runtimes \ disturbed, Announced(r) # {}, IsEmpty(r)
                 PROVE  FALSE
      BY DEF NeverHidden
    <2>1. verdict[r] < version[r] /\ verdict[r] = version[r] /\ version[r] \in Nat
      BY DEF IInv, Typed, TypeOK, Tags, Tagged, IsEmpty
    <2> QED
      BY <2>1
  <1> QED
    BY <1>1, Inductive, PTL
=============================================================================
