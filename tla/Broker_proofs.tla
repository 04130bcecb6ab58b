---------------------------- MODULE Broker_proofs -----------------------------
(***************************************************************************)
(* What the clients of the broker rely on.  A search that runs beside      *)
(* writers is what it says it is; a briefing is whole, or says that it was *)
(* cut; and extraction, which reads the log of a handoff back into claims, *)
(* reports what the view shows, removes nothing without a reason in the    *)
(* log and, run twice, adds nothing.                                       *)
(***************************************************************************)
EXTENDS Handoff, Search, Briefing, Claims_proofs, Sieve_proofs, FiniteSetTheorems

-----------------------------------------------------------------------------
(* Sequences of rows.                                                      *)

AllDiffer(s) == \A j, k \in 1..Len(s) : s[j] = s[k] => j = k

LEMMA OrderIs ==
  ASSUME NEW R, IsFiniteSet(R), NEW s \in Orders(R)
  PROVE  /\ s \in Seq(R) /\ AllDiffer(s) /\ Len(s) = Cardinality(R)
         /\ \A e \in R : \E k \in 1..Len(s) : s[k] = e
<1>1. Cardinality(R) \in Nat
  BY FS_CardinalityType
<1>2. /\ s \in [1..Cardinality(R) -> R] /\ IsInjective(s)
      /\ \A e \in R : \E k \in 1..Cardinality(R) : s[k] = e
  BY DEF Orders, Bijection, Injection, Surjection
<1>3. s \in Seq(R) /\ Len(s) = Cardinality(R)
  BY <1>1, <1>2
<1> QED BY <1>2, <1>3 DEF AllDiffer, IsInjective

LEMMA FirstIs ==
  ASSUME NEW S, NEW s \in Seq(S), NEW k \in Nat
  PROVE  /\ FirstOf(s, k) \in Seq(S)
         /\ Len(FirstOf(s, k)) = IF k < Len(s) THEN k ELSE Len(s)
         /\ \A i \in 1..Len(FirstOf(s, k)) : FirstOf(s, k)[i] = s[i]
<1> DEFINE n == IF k < Len(s) THEN k ELSE Len(s)
<1>1. n \in Nat /\ n <= Len(s) /\ Len(s) \in Nat
  OBVIOUS
<1>2. SubSeq(s, 1, n) = [i \in 1..n |-> s[i]]
  BY <1>1
<1>3. FirstOf(s, k) = [i \in 1..n |-> s[i]]
  BY <1>2 DEF FirstOf
<1> HIDE DEF n
<1>4. \A i \in 1..n : s[i] \in S
  BY <1>1
<1>5. [i \in 1..n |-> s[i]] \in Seq(S) /\ Len([i \in 1..n |-> s[i]]) = n
  BY <1>1, <1>4
<1> QED BY <1>3, <1>5 DEF n

(* Different elements that are all found at n places are no more than n.   *)
LEMMA NoMore ==
  ASSUME NEW S, NEW s \in Seq(S), AllDiffer(s), NEW n \in Nat, NEW v,
         \A i \in 1..Len(s) : \E j \in 1..n : v[j] = s[i]
  PROVE  Len(s) <= n
<1> DEFINE g == [i \in 1..Len(s) |-> CHOOSE j \in 1..n : v[j] = s[i]]
<1>1. Len(s) \in Nat
  OBVIOUS
<1>2. \A i \in 1..Len(s) : g[i] \in 1..n /\ v[g[i]] = s[i]
  OBVIOUS
<1>3. g \in Injection(1..Len(s), 1..n)
  <2>1. g \in [1..Len(s) -> 1..n]
    BY <1>2
  <2>2. \A i, j \in 1..Len(s) : g[i] = g[j] => i = j
    BY <1>2 DEF AllDiffer
  <2> HIDE DEF g
  <2> QED BY <2>1, <2>2 DEF Injection, IsInjective
<1> HIDE DEF g
<1>4. \A m \in Nat : IsFiniteSet(1..m) /\ Cardinality(1..m) = m
  <2>1. ASSUME NEW m \in Nat, NEW a \in Int, a = 1
        PROVE  IsFiniteSet(a..m) /\ Cardinality(a..m) = m
    <3>1. m \in Int
      OBVIOUS
    <3>2. IsFiniteSet(a..m) /\ Cardinality(a..m) = IF a > m THEN 0 ELSE m - a + 1
      BY <3>1, FS_Interval
    <3> QED BY <2>1, <3>2
  <2> QED BY <2>1
<1>5. Cardinality(1..Len(s)) <= Cardinality(1..n)
  BY <1>3, <1>4, FS_Injection
<1> QED BY <1>1, <1>4, <1>5

-----------------------------------------------------------------------------
(* The answer of a search.                                                 *)

Hit == [id : Event, by : {"semantic", "text", "both"}]

Ids(h) == {h[k].id : k \in 1..Len(h)}

IdsDiffer(h) == \A j, k \in 1..Len(h) : h[j].id = h[k].id => j = k

(* While neighbours are fetched, those that wait are others than those     *)
(* found; until the last statement, no row of the stable ones has lost the *)
(* query.                                                                  *)
SearchInv ==
  /\ stored \subseteq Event /\ literal \subseteq Event /\ vectors \subseteq Event
  /\ limit \in Nat \ {0}
  /\ near \in Seq(Event) /\ hits \in Seq(Hit)
  /\ asking \in {"idle", "embed", "near"} => hits = <<>>
  /\ asking \in {"near", "fetch"} => semantic
  /\ asking = "fetch" => /\ AllDiffer(near) /\ Len(near) + Len(hits) <= limit
                         /\ \A k \in 1..Len(near) : near[k] \notin Ids(hits)
  /\ asking \notin {"idle", "found"} => stable \subseteq literal
  /\ Len(hits) <= limit /\ IdsDiffer(hits)
  /\ SearchIsHonest

LEMMA SearchStarts == SearchInit => SearchInv
BY SearchAssumption DEF SearchInit, SearchInv, SearchIsHonest, IdsDiffer

Marked(nearest, textual) ==
  [k \in DOMAIN nearest |-> [nearest[k] EXCEPT !.by =
     IF nearest[k].id \in ToSet(textual) THEN "both" ELSE @]]

Listed(new) == [k \in DOMAIN new |-> [id |-> new[k], by |-> "text"]]

LEMMA SiftedDiffer ==
  ASSUME NEW S, NEW s \in Seq(S), NEW keep, AllDiffer(s)
  PROVE  AllDiffer(Sifted(s, keep))
<1>1. PICK from : Leave(s, Len(s), keep, Sifted(s, keep), from)
  BY SiftedLeaves
<1> DEFINE t == Sifted(s, keep)
<1>2. t \in Seq(S)
  BY SiftedLeaves
<1> HIDE DEF t
<1>3. /\ from \in [1..Len(t) -> 1..Len(s)]
      /\ \A k \in 1..Len(t) : t[k] = s[from[k]]
      /\ \A j, k \in 1..Len(t) : j < k => from[j] < from[k]
  BY <1>1 DEF Leave, t
<1>4. ASSUME NEW j \in 1..Len(t), NEW k \in 1..Len(t), t[j] = t[k] PROVE j = k
  <2>1. from[j] \in 1..Len(s) /\ from[k] \in 1..Len(s) /\ s[from[j]] = s[from[k]]
    BY <1>3, <1>4
  <2>2. from[j] = from[k]
    BY <2>1 DEF AllDiffer
  <2>3. from[j] \in Nat /\ j \in Nat /\ k \in Nat
    BY <1>2, <2>1
  <2>4. ~(j < k) /\ ~(k < j)
    BY <1>3, <2>2, <2>3
  <2> QED BY <2>3, <2>4
<1> QED BY <1>4 DEF AllDiffer, t

(* Two lists that share no event, one after the other.                     *)
LEMMA OneAfterOther ==
  ASSUME NEW a \in Seq(Hit), NEW b \in Seq(Hit), IdsDiffer(a), IdsDiffer(b),
         \A e \in Ids(b) : e \notin Ids(a), NEW u, u = a \o b
  PROVE  /\ u \in Seq(Hit) /\ Len(u) = Len(a) + Len(b) /\ IdsDiffer(u)
         /\ Ids(a) \cup Ids(b) \subseteq Ids(u)
<1>1. /\ u \in Seq(Hit) /\ Len(u) = Len(a) + Len(b) /\ Len(a) \in Nat /\ Len(b) \in Nat
      /\ \A i \in 1..Len(a) : u[i] = a[i]
      /\ \A i \in 1..Len(b) : u[Len(a) + i] = b[i]
  BY ConcatParts
<1>2. \A i \in 1..Len(u) : \/ i \in 1..Len(a) /\ u[i] = a[i]
                           \/ i - Len(a) \in 1..Len(b) /\ u[i] = b[i - Len(a)]
  <2> TAKE i \in 1..Len(u)
  <2>1. CASE i <= Len(a)
    BY <1>1, <2>1
  <2>2. CASE ~(i <= Len(a))
    <3>1. i - Len(a) \in 1..Len(b) /\ Len(a) + (i - Len(a)) = i
      BY <1>1, <2>2
    <3> QED BY <1>1, <3>1
  <2> QED BY <2>1, <2>2
<1>3. ASSUME NEW i \in 1..Len(u), NEW j \in 1..Len(u), u[i].id = u[j].id PROVE i = j
  <2>1. i \in Nat /\ j \in Nat
    BY <1>1
  <2>2. CASE i \in 1..Len(a) /\ u[i] = a[i] /\ j \in 1..Len(a) /\ u[j] = a[j]
    BY <1>3, <2>2 DEF IdsDiffer
  <2>3. CASE /\ i - Len(a) \in 1..Len(b) /\ u[i] = b[i - Len(a)]
             /\ j - Len(a) \in 1..Len(b) /\ u[j] = b[j - Len(a)]
    <3>1. i - Len(a) = j - Len(a)
      BY <1>3, <2>3 DEF IdsDiffer
    <3> QED BY <1>1, <2>1, <3>1
  <2>4. ASSUME NEW k \in 1..Len(a), NEW l \in 1..Len(b), a[k].id = b[l].id PROVE FALSE
    BY <2>4 DEF Ids
  <2>5. CASE i \in 1..Len(a) /\ u[i] = a[i] /\ j - Len(a) \in 1..Len(b) /\ u[j] = b[j - Len(a)]
    BY <1>3, <2>4, <2>5
  <2>6. CASE j \in 1..Len(a) /\ u[j] = a[j] /\ i - Len(a) \in 1..Len(b) /\ u[i] = b[i - Len(a)]
    BY <1>3, <2>4, <2>6
  <2> QED BY <1>2, <2>2, <2>3, <2>5, <2>6
<1>4. ASSUME NEW e \in Ids(a) PROVE e \in Ids(u)
  <2>1. PICK k \in 1..Len(a) : a[k].id = e
    BY DEF Ids
  <2>2. k \in 1..Len(u)
    BY <1>1
  <2> QED BY <1>1, <2>1, <2>2 DEF Ids
<1>5. ASSUME NEW e \in Ids(b) PROVE e \in Ids(u)
  <2>1. PICK k \in 1..Len(b) : b[k].id = e
    BY DEF Ids
  <2>2. Len(a) + k \in 1..Len(u)
    BY <1>1
  <2> QED BY <1>1, <2>1, <2>2 DEF Ids
<1>6. IdsDiffer(u)
  BY <1>3 DEF IdsDiffer
<1> QED BY <1>1, <1>4, <1>5, <1>6

(* What merge makes of the two lists.                                      *)
LEMMA ListsAre ==
  ASSUME NEW h \in Seq(Hit), NEW t \in Seq(Event), AllDiffer(t), IdsDiffer(h)
  PROVE  LET new == Sifted(t, Event \ {h[k].id : k \in DOMAIN h})
             a   == Marked(h, t)
             b   == Listed(new)
         IN  /\ a \in Seq(Hit) /\ IdsDiffer(a) /\ Ids(a) = Ids(h)
             /\ b \in Seq(Hit) /\ IdsDiffer(b) /\ \A e \in Ids(b) : e \notin Ids(a)
             /\ \A i \in 1..Len(t) : t[i] \in Ids(a) \cup Ids(b)
<1> DEFINE keep == Event \ {h[k].id : k \in DOMAIN h}
           new == Sifted(t, keep)
           a == Marked(h, t)
           b == Listed(new)
<1>1. DOMAIN h = 1..Len(h) /\ Len(h) \in Nat /\ \A k \in 1..Len(h) : h[k] \in Hit
  OBVIOUS
<1>2. \A e \in Event : e \in keep <=> e \notin Ids(h)
  BY <1>1 DEF Ids
<1>3. keep \subseteq Event
  OBVIOUS
<1> HIDE DEF keep
<1>4. new \in Seq(Event) /\ AllDiffer(new)
  BY SiftedLeaves, SiftedDiffer
<1>5. /\ \A k \in 1..Len(new) : new[k] \in keep
      /\ \A i \in 1..Len(t) : t[i] \in keep => \E k \in 1..Len(new) : new[k] = t[i]
  BY SiftedElements
<1> HIDE DEF new
<1>6. /\ a \in Seq(Hit) /\ Len(a) = Len(h)
      /\ \A k \in 1..Len(h) : a[k].id = h[k].id
  <2>1. ASSUME NEW k \in 1..Len(h)
        PROVE  /\ [h[k] EXCEPT !.by = IF h[k].id \in ToSet(t) THEN "both" ELSE @] \in Hit
               /\ [h[k] EXCEPT !.by = IF h[k].id \in ToSet(t) THEN "both" ELSE @].id = h[k].id
    BY <1>1 DEF Hit
  <2>2. a = [k \in 1..Len(h) |-> [h[k] EXCEPT !.by = IF h[k].id \in ToSet(t) THEN "both" ELSE @]]
    BY <1>1 DEF Marked
  <2> HIDE DEF a
  <2>3. a \in [1..Len(h) -> Hit] /\ \A k \in 1..Len(h) : a[k].id = h[k].id
    BY <2>1, <2>2
  <2> QED BY <1>1, <2>3
<1>7. /\ b \in Seq(Hit) /\ Len(b) = Len(new) /\ Len(new) \in Nat
      /\ \A k \in 1..Len(new) : b[k].id = new[k]
  <2>1. DOMAIN new = 1..Len(new) /\ Len(new) \in Nat /\ \A k \in 1..Len(new) : new[k] \in Event
    BY <1>4
  <2>2. b = [k \in 1..Len(new) |-> [id |-> new[k], by |-> "text"]]
    BY <2>1 DEF Listed
  <2> HIDE DEF b
  <2>3. b \in [1..Len(new) -> Hit] /\ \A k \in 1..Len(new) : b[k].id = new[k]
    BY <2>1, <2>2 DEF Hit
  <2> QED BY <2>1, <2>3
<1> HIDE DEF a, b
<1>8. Ids(a) = Ids(h) /\ IdsDiffer(a)
  <2>1. Ids(a) = Ids(h)
    BY <1>6 DEF Ids
  <2>2. IdsDiffer(h) => IdsDiffer(a)
    BY <1>6 DEF IdsDiffer
  <2> QED BY <2>1, <2>2
<1>9. IdsDiffer(b) /\ \A e \in Ids(b) : \E k \in 1..Len(new) : e = new[k]
  <2>1. ASSUME NEW j \in 1..Len(new), NEW k \in 1..Len(new), b[j].id = b[k].id
        PROVE  j = k
    <3>1. new[j] = new[k]
      BY <1>7, <2>1
    <3> QED BY <1>4, <3>1 DEF AllDiffer
  <2>2. Len(b) = Len(new) /\ \A k \in 1..Len(new) : b[k].id = new[k]
    BY <1>7
  <2>3. IdsDiffer(b)
    BY <2>1, <2>2, Zenon DEF IdsDiffer
  <2>4. \A e \in Ids(b) : \E k \in 1..Len(new) : e = new[k]
    BY <2>2, Zenon DEF Ids
  <2> QED BY <2>3, <2>4
<1>10. \A e \in Ids(b) : e \notin Ids(a)
  BY <1>2, <1>3, <1>5, <1>8, <1>9
<1>11. ASSUME NEW i \in 1..Len(t) PROVE t[i] \in Ids(a) \cup Ids(b)
  <2>1. t[i] \in Event
    OBVIOUS
  <2>2. CASE t[i] \in keep
    <3>1. PICK k \in 1..Len(new) : new[k] = t[i]
      BY <1>5, <2>2
    <3> QED BY <1>7, <3>1 DEF Ids
  <2>3. CASE t[i] \notin keep
    BY <1>2, <1>8, <2>1, <2>3
  <2> QED BY <2>2, <2>3
<1> QED BY <1>6, <1>7, <1>8, <1>9, <1>10, <1>11 DEF a, b, new, keep

(* Merging what two statements found lists no event twice, and an answer   *)
(* that is not full has all that either found.                             *)
LEMMA MergeIs ==
  ASSUME NEW l \in Nat, l = limit, NEW h \in Seq(Hit), IdsDiffer(h),
         NEW R, R \subseteq Event, NEW newest \in Seq(R), AllDiffer(newest),
         \A e \in R : \E k \in 1..Len(newest) : newest[k] = e,
         NEW m, m = Merge(h, FirstOf(newest, limit))
  PROVE  /\ m \in Seq(Hit) /\ Len(m) <= l /\ IdsDiffer(m)
         /\ Len(m) < l => R \subseteq Ids(m)
<1> DEFINE t == FirstOf(newest, l)
           a == Marked(h, t)
           b == Listed(Sifted(t, Event \ {h[k].id : k \in DOMAIN h}))
           u == a \o b
<1>1. m = FirstOf(u, l)
  BY DEF Merge, Marked, Listed
<1>2. /\ t \in Seq(R) /\ Len(t) = (IF l < Len(newest) THEN l ELSE Len(newest))
      /\ \A i \in 1..Len(t) : t[i] = newest[i]
  BY FirstIs
<1>3. t \in Seq(Event) /\ Len(newest) \in Nat
  BY <1>2
<1>4. AllDiffer(t)
  <2> HIDE DEF t
  <2>1. \A i \in 1..Len(t) : i \in 1..Len(newest)
    BY <1>2, <1>3
  <2> QED BY <1>2, <2>1 DEF AllDiffer
<1> HIDE DEF t
<1>5. /\ a \in Seq(Hit) /\ IdsDiffer(a) /\ Ids(a) = Ids(h)
      /\ b \in Seq(Hit) /\ IdsDiffer(b) /\ \A e \in Ids(b) : e \notin Ids(a)
      /\ \A i \in 1..Len(t) : t[i] \in Ids(a) \cup Ids(b)
  BY <1>3, <1>4, ListsAre
<1> HIDE DEF a, b
<1>6. /\ u \in Seq(Hit) /\ Len(u) = Len(a) + Len(b) /\ IdsDiffer(u)
      /\ Ids(a) \cup Ids(b) \subseteq Ids(u)
  BY <1>5, OneAfterOther
<1> HIDE DEF u
<1>7. /\ m \in Seq(Hit) /\ Len(m) = (IF l < Len(u) THEN l ELSE Len(u))
      /\ \A i \in 1..Len(m) : m[i] = u[i]
  BY <1>1, <1>6, FirstIs
<1>8. Len(u) \in Nat
  BY <1>6
<1>9. Len(m) <= l /\ (Len(m) < l => Len(u) < l /\ Len(m) = Len(u))
  BY <1>7, <1>8
<1>10. IdsDiffer(m)
  <2>1. \A i \in 1..Len(m) : i \in 1..Len(u)
    BY <1>7, <1>8
  <2> QED BY <1>6, <1>7, <2>1 DEF IdsDiffer
<1>11. ASSUME Len(m) < l PROVE R \subseteq Ids(m)
  <2>1. \A i \in 1..Len(t) : \E k \in 1..Len(u) : u[k].id = t[i]
    <3>1. \A i \in 1..Len(t) : t[i] \in Ids(u)
      BY <1>5, <1>6
    <3> QED BY <3>1 DEF Ids
  <2>2. Len(t) <= Len(u)
    <3> DEFINE v == [k \in 1..Len(u) |-> u[k].id]
    <3>1. \A i \in 1..Len(t) : \E k \in 1..Len(u) : v[k] = t[i]
      BY <2>1
    <3> HIDE DEF v
    <3> QED BY <1>3, <1>4, <1>8, <3>1, NoMore
  <2>3. Len(t) < l /\ Len(t) \in Nat
    BY <1>3, <1>8, <1>9, <1>11, <2>2
  <2>4. Len(t) = Len(newest)
    BY <1>2, <1>3, <2>3
  <2>5. ASSUME NEW e \in R PROVE e \in Ids(m)
    <3>1. PICK i \in 1..Len(newest) : newest[i] = e
      OBVIOUS
    <3>2. t[i] = e /\ i \in 1..Len(t)
      BY <1>2, <2>4, <3>1
    <3>3. PICK k \in 1..Len(u) : u[k].id = e
      BY <2>1, <3>2
    <3>4. k \in 1..Len(m) /\ m[k] = u[k]
      BY <1>7, <1>9, <1>11
    <3> QED BY <3>3, <3>4 DEF Ids
  <2> QED BY <2>5
<1> QED BY <1>7, <1>9, <1>10, <1>11

-----------------------------------------------------------------------------
(* SearchInv is inductive.                                                 *)

(* What changes beside a search leaves it.                                 *)
LEMMA ChangeKeeps ==
  ASSUME SearchInv, Change, stored' \subseteq Event, literal' \subseteq Event, vectors' \subseteq Event
  PROVE  SearchInv'
<1>1. /\ asking' = asking /\ limit' = limit /\ near' = near /\ hits' = hits /\ mixed' = mixed
      /\ semantic' = semantic /\ complete' = complete
  BY DEF Change
<1>2. stable' = IF asking \in {"idle", "found"} THEN stable ELSE stable \cap literal'
  BY DEF Change
<1>3. SearchIsHonest'
  BY <1>1, <1>2 DEF SearchInv, SearchIsHonest
<1>4. asking' \notin {"idle", "found"} => stable' \subseteq literal'
  BY <1>1, <1>2
<1> QED BY <1>1, <1>3, <1>4 DEF SearchInv, Ids, AllDiffer, IdsDiffer

LEMMA WritersKeep ==
  ASSUME SearchInv, NEW e \in Event,
         \/ InsertRow(e) \/ InsertEmbedding(e) \/ RewritePayload(e)
         \/ DeleteEvent(e) \/ DeleteEmbedding(e)
  PROVE  SearchInv'
<1>1. stored \subseteq Event /\ literal \subseteq Event /\ vectors \subseteq Event
  BY DEF SearchInv
<1>2. Change /\ stored' \subseteq Event /\ literal' \subseteq Event /\ vectors' \subseteq Event
  BY <1>1 DEF InsertRow, InsertEmbedding, RewritePayload, DeleteEvent, DeleteEmbedding
<1> QED BY <1>2, ChangeKeeps

(* An answer that promises nothing about what it missed.                   *)
LEMMA NotFound ==
  ASSUME asking # "found" \/ /\ Len(hits) <= limit /\ IdsDiffer(hits) /\ hits \in Seq(Hit)
                             /\ Len(hits) < limit /\ complete /\ (mixed \/ ~semantic)
                                  => stable \subseteq Ids(hits)
  PROVE  SearchIsHonest
BY DEF SearchIsHonest, IdsDiffer, Ids

LEMMA QueryKeeps ==
  ASSUME SearchInv, NEW isSearch \in BOOLEAN, NEW l \in Limit, Query(isSearch, l)
  PROVE  SearchInv'
<1>1. l \in Nat \ {0}
  BY SearchAssumption
<1>2. /\ asking = "idle" /\ asking' = "embed" /\ limit' = l /\ stable' = literal
      /\ UNCHANGED <<stored, literal, vectors, near, hits, semantic>>
  BY DEF Query
<1>3. hits = <<>>
  BY <1>2 DEF SearchInv
<1> QED BY <1>1, <1>2, <1>3 DEF SearchInv, SearchIsHonest, IdsDiffer

LEMMA EmbedKeeps == SearchInv /\ EmbedQuery => SearchInv'
BY DEF SearchInv, EmbedQuery, SearchIsHonest, IdsDiffer

LEMMA SimilarKeeps == SearchInv /\ SearchSimilar => SearchInv'
<1> SUFFICES ASSUME SearchInv, SearchSimilar PROVE SearchInv'
  OBVIOUS
<1>1. /\ asking = "near" /\ asking' = "fetch"
      /\ UNCHANGED <<stored, literal, vectors, limit, semantic, hits, stable>>
  BY DEF SearchSimilar
<1>2. /\ hits = <<>> /\ semantic /\ vectors \subseteq Event /\ limit \in Nat /\ stable \subseteq literal
      /\ IsFiniteSet(vectors)
  BY <1>1, SearchAssumption, FS_Subset DEF SearchInv
<1>3. near' \in Seq(Event) /\ AllDiffer(near') /\ Len(near') <= limit
  <2>1. CASE near' = <<>>
    BY <1>2, <2>1 DEF AllDiffer
  <2>2. ASSUME NEW ranked \in Orders(vectors), near' = FirstOf(ranked, limit)
        PROVE  near' \in Seq(Event) /\ AllDiffer(near') /\ Len(near') <= limit
    <3>1. ranked \in Seq(vectors) /\ AllDiffer(ranked)
      BY <1>2, <2>2, OrderIs
    <3>2. ranked \in Seq(Event) /\ Len(ranked) \in Nat
      BY <1>2, <3>1
    <3>3. /\ near' \in Seq(Event)
          /\ Len(near') = IF limit < Len(ranked) THEN limit ELSE Len(ranked)
          /\ \A i \in 1..Len(near') : near'[i] = ranked[i]
      BY <1>2, <2>2, <3>2, FirstIs
    <3>4. \A i \in 1..Len(near') : i \in 1..Len(ranked)
      BY <1>2, <3>2, <3>3
    <3> QED BY <1>2, <3>1, <3>2, <3>3, <3>4 DEF AllDiffer
  <2> QED BY <2>1, <2>2 DEF SearchSimilar
<1> QED BY <1>1, <1>2, <1>3 DEF SearchInv, SearchIsHonest, IdsDiffer, Ids

LEMMA FetchKeeps == SearchInv /\ GetEventById => SearchInv'
<1> SUFFICES ASSUME SearchInv, GetEventById PROVE SearchInv'
  OBVIOUS
<1>1. /\ asking = "fetch" /\ near # <<>> /\ near' = Tail(near)
      /\ UNCHANGED <<stored, literal, vectors, limit, semantic, stable, asking>>
      /\ hits' = IF Head(near) \in stored THEN Append(hits, [id |-> Head(near), by |-> "semantic"])
                                          ELSE hits
  BY DEF GetEventById
<1>2. /\ near \in Seq(Event) /\ hits \in Seq(Hit) /\ AllDiffer(near) /\ IdsDiffer(hits)
      /\ Len(near) + Len(hits) <= limit /\ limit \in Nat
      /\ \A k \in 1..Len(near) : near[k] \notin Ids(hits)
  BY <1>1 DEF SearchInv
<1>3. /\ near' \in Seq(Event) /\ Len(near') = Len(near) - 1 /\ Len(near) \in Nat /\ Len(near) > 0
      /\ \A k \in 1..Len(near') : near'[k] = near[k + 1] /\ k + 1 \in 1..Len(near)
      /\ Head(near) = near[1] /\ near[1] \in Event /\ Len(hits) \in Nat
  <2>1. Len(near) \in Nat /\ Len(near) > 0 /\ Len(hits) \in Nat
    BY <1>1, <1>2
  <2>2. Tail(near) \in Seq(Event) /\ Len(Tail(near)) = Len(near) - 1
    BY <1>1, <1>2
  <2>3. \A k \in 1..Len(Tail(near)) : Tail(near)[k] = near[k + 1] /\ k + 1 \in 1..Len(near)
    BY <1>2, <2>1, <2>2
  <2>4. Head(near) = near[1] /\ near[1] \in Event
    BY <1>2, <2>1
  <2> QED BY <1>1, <2>1, <2>2, <2>3, <2>4
<1>4. AllDiffer(near')
  <2>1. SUFFICES ASSUME NEW j \in 1..Len(near'), NEW k \in 1..Len(near'), near'[j] = near'[k]
                 PROVE  j = k
    BY DEF AllDiffer
  <2>2. near[j + 1] = near[k + 1] /\ j + 1 \in 1..Len(near) /\ k + 1 \in 1..Len(near)
    BY <1>3, <2>1
  <2>3. j + 1 = k + 1
    BY <1>2, <2>2 DEF AllDiffer
  <2> QED BY <2>3
<1>5. \A k \in 1..Len(near') : near'[k] \notin Ids(hits) /\ near'[k] # near[1]
  <2> TAKE k \in 1..Len(near')
  <2>1. near'[k] = near[k + 1] /\ k + 1 \in 1..Len(near) /\ 1 \in 1..Len(near) /\ k + 1 # 1
    BY <1>3
  <2> QED BY <1>2, <2>1 DEF AllDiffer
<1>6. CASE near[1] \in stored
  <2> DEFINE h == Append(hits, [id |-> near[1], by |-> "semantic"])
  <2>1. [id |-> near[1], by |-> "semantic"] \in Hit
    BY <1>3 DEF Hit
  <2>2. hits' = h
    BY <1>1, <1>3, <1>6
  <2>3. /\ h \in Seq(Hit) /\ Len(h) = Len(hits) + 1
        /\ \A k \in 1..Len(hits) : h[k] = hits[k]
        /\ h[Len(hits) + 1] = [id |-> near[1], by |-> "semantic"]
    BY <1>2, <2>1
  <2> HIDE DEF h
  <2>4. near[1] \notin Ids(hits)
    BY <1>2, <1>3
  <2>5. IdsDiffer(h)
    <3>1. ASSUME NEW j \in 1..Len(h), NEW k \in 1..Len(h), h[j].id = h[k].id, j <= Len(hits)
          PROVE  j = k
      <4>1. j \in 1..Len(hits) /\ h[j].id = hits[j].id
        BY <1>3, <2>3, <3>1
      <4>2. h[j].id # near[1]
        BY <2>4, <4>1 DEF Ids
      <4>3. k # Len(hits) + 1
        BY <2>3, <3>1, <4>2
      <4>4. k \in 1..Len(hits) /\ h[k].id = hits[k].id
        BY <1>3, <2>3, <4>3
      <4> QED BY <1>2, <3>1, <4>1, <4>4 DEF IdsDiffer
    <3>2. ASSUME NEW j \in 1..Len(h), NEW k \in 1..Len(h), h[j].id = h[k].id PROVE j = k
      <4>1. CASE j <= Len(hits) \/ k <= Len(hits)
        BY <3>1, <3>2, <4>1
      <4>2. CASE ~(j <= Len(hits)) /\ ~(k <= Len(hits))
        BY <1>3, <2>3, <4>2
      <4> QED BY <4>1, <4>2
    <3> QED BY <3>2 DEF IdsDiffer
  <2>6. \A e \in Ids(h) : e \in Ids(hits) \/ e = near[1]
    <3> TAKE e \in Ids(h)
    <3>1. PICK k \in 1..Len(h) : h[k].id = e
      BY DEF Ids
    <3>2. CASE k \in 1..Len(hits)
      BY <2>3, <3>1, <3>2 DEF Ids
    <3>3. CASE k = Len(hits) + 1
      BY <2>3, <3>1, <3>3
    <3> QED BY <1>3, <2>3, <3>2, <3>3
  <2>7. Len(near') + Len(h) <= limit /\ Len(h) <= limit
    BY <1>2, <1>3, <2>3
  <2>8. \A k \in 1..Len(near') : near'[k] \notin Ids(h)
    BY <1>5, <2>6
  <2> QED BY <1>1, <1>3, <1>4, <2>2, <2>3, <2>5, <2>7, <2>8 DEF SearchInv, SearchIsHonest
<1>7. CASE near[1] \notin stored
  <2>1. hits' = hits
    BY <1>1, <1>3, <1>7
  <2>2. Len(near') + Len(hits) <= limit
    BY <1>2, <1>3
  <2> QED BY <1>1, <1>3, <1>4, <1>5, <2>1, <2>2 DEF SearchInv, SearchIsHonest, Ids, IdsDiffer
<1> QED BY <1>6, <1>7

LEMMA FetchedKeeps == SearchInv /\ Fetched => SearchInv'
<1> SUFFICES ASSUME SearchInv, Fetched PROVE SearchInv'
  OBVIOUS
<1>1. /\ asking = "fetch" /\ asking' = (IF mixed THEN "text" ELSE "found")
      /\ UNCHANGED <<stored, literal, vectors, limit, mixed, semantic, near, hits, stable, complete>>
  BY DEF Fetched
<1>2. semantic /\ Len(hits) <= limit /\ IdsDiffer(hits)
  BY <1>1 DEF SearchInv
<1>3. SearchIsHonest'
  BY <1>1, <1>2 DEF SearchIsHonest, IdsDiffer
<1> QED BY <1>1, <1>3 DEF SearchInv, IdsDiffer

LEMMA TextKeeps == SearchInv /\ SearchText => SearchInv'
<1> SUFFICES ASSUME SearchInv, SearchText PROVE SearchInv'
  OBVIOUS
<1>1. /\ asking = "text" /\ asking' = "found"
      /\ UNCHANGED <<stored, literal, vectors, limit, mixed, semantic, near, stable>>
  BY DEF SearchText
<1>2. /\ hits \in Seq(Hit) /\ Len(hits) <= limit /\ IdsDiffer(hits) /\ stable \subseteq literal
      /\ literal \subseteq Event /\ limit \in Nat /\ IsFiniteSet(literal)
  BY <1>1, SearchAssumption, FS_Subset DEF SearchInv
<1>3. /\ hits' \in Seq(Hit) /\ Len(hits') <= limit /\ IdsDiffer(hits')
      /\ complete' /\ Len(hits') < limit => stable \subseteq Ids(hits')
  <2>1. CASE UNCHANGED hits /\ complete' = FALSE
    BY <1>2, <2>1 DEF IdsDiffer
  <2>2. ASSUME NEW newest \in Orders(literal), hits' = Merge(hits, FirstOf(newest, limit))
        PROVE  /\ hits' \in Seq(Hit) /\ Len(hits') <= limit /\ IdsDiffer(hits')
               /\ Len(hits') < limit => literal \subseteq Ids(hits')
    <3>1. newest \in Seq(literal) /\ AllDiffer(newest) /\ \A e \in literal : \E k \in 1..Len(newest) : newest[k] = e
      BY <1>2, <2>2, OrderIs
    <3>2. ASSUME NEW l \in Nat, l = limit, NEW m, m = hits'
          PROVE  /\ m \in Seq(Hit) /\ Len(m) <= l /\ IdsDiffer(m)
                 /\ Len(m) < l => literal \subseteq Ids(m)
      BY <1>2, <2>2, <3>1, <3>2, MergeIs
    <3> QED BY <1>2, <3>2
  <2> QED BY <1>2, <2>1, <2>2 DEF SearchText
<1>4. SearchIsHonest'
  BY <1>1, <1>2, <1>3 DEF SearchIsHonest, IdsDiffer, Ids
<1> QED BY <1>1, <1>3, <1>4 DEF SearchInv

LEMMA SearchSteps == SearchInv /\ [SearchNext]_searchVars => SearchInv'
<1> SUFFICES ASSUME SearchInv, [SearchNext]_searchVars PROVE SearchInv'
  OBVIOUS
<1>1. CASE UNCHANGED searchVars
  BY <1>1 DEF searchVars, SearchInv, SearchIsHonest, Ids, AllDiffer, IdsDiffer
<1> QED BY <1>1, WritersKeep, QueryKeeps, EmbedKeeps, SimilarKeeps, FetchKeeps, FetchedKeeps,
           TextKeeps DEF SearchNext

(* A search that is answered short of its limit has missed no row that     *)
(* contained the query all along, and lists none twice: for any tables,    *)
(* any limits, and any changes between its statements.                     *)
THEOREM SearchesAreHonest == SearchSpec => []SearchIsHonest
<1>1. SearchInv => SearchIsHonest
  BY DEF SearchInv
<1> QED BY <1>1, SearchStarts, SearchSteps, PTL DEF SearchSpec

-----------------------------------------------------------------------------
(* The tables a briefing reads.                                            *)

TablesInv ==
  /\ rows \subseteq ShellEvent \cup Pending /\ IsFiniteSet(rows)
  /\ TaskMap(tasks) /\ IsFiniteSet(DOMAIN tasks)
  /\ ClaimMap(claims) /\ IsFiniteSet(DOMAIN claims)
  /\ TaskMap(loaded) /\ IsFiniteSet(DOMAIN loaded)

LEMMA EmptyTables ==
  TaskMap(Empty) /\ ClaimMap(Empty) /\ IsFiniteSet(DOMAIN Empty) /\ DOMAIN Empty = {}
BY EmptyMaps, FS_EmptySet DEF Empty

LEMMA FoldClaimsFinite ==
  ASSUME NEW c, ClaimMap(c), IsFiniteSet(DOMAIN c), NEW e \in ShellEvent \cup Pending
  PROVE  IsFiniteSet(DOMAIN FoldClaims(c, e))
<1>1. CASE ~Folds(e)
  BY <1>1 DEF FoldClaims
<1>2. CASE Folds(e)
  <2>1. PICK A, R : Step(c, FoldClaims(c, e), A, R) /\ A \subseteq Asserts(e)
    BY <1>2, FoldClaimsEffect DEF FoldEffect
  <2>2. IsFiniteSet(Asserts(e))
    <3>1. ASSUME NEW x, NEW y PROVE IsFiniteSet({x, y})
      <4>1. IsFiniteSet({x}) /\ IsFiniteSet({y})
        BY FS_Singleton
      <4>2. IsFiniteSet({x} \cup {y})
        BY <4>1, FS_Union
      <4>3. {x, y} = {x} \cup {y}
        OBVIOUS
      <4> QED BY <4>2, <4>3
    <3>2. \A x, y : IsFiniteSet({x, y})
      BY <3>1
    <3>3. \A x : IsFiniteSet({x}) /\ IsFiniteSet({})
      BY FS_EmptySet, FS_Singleton
    <3> QED BY <3>2, <3>3 DEF Asserts
  <2>3. IsFiniteSet(A)
    BY <2>1, <2>2, FS_Subset
  <2>4. DOMAIN FoldClaims(c, e) = DOMAIN c \cup A
    BY <2>1 DEF Step
  <2> QED BY <2>3, <2>4, FS_Union
<1> QED BY <1>1, <1>2

(* The task a row is about.                                                *)
About(e) == IF e.source = "shell" THEN e.command ELSE e.body.task_id

LEMMA FoldTasksDomain ==
  ASSUME NEW ts, NEW e
  PROVE  /\ DOMAIN FoldTasks(ts, e) = IF Folds(e) THEN DOMAIN ts \cup {About(e)} ELSE DOMAIN ts
         /\ IsFiniteSet(DOMAIN ts) => IsFiniteSet(DOMAIN FoldTasks(ts, e))
<1> DEFINE task == About(e)
           bumped == OpenTask(ts, task, e.id, e.ts)
           shut == CloseTask(bumped, task, e.id, e.ts)
<1>1. DOMAIN bumped = DOMAIN ts \cup {task}
  BY DEF OpenTask, Put
<1>2. DOMAIN shut = DOMAIN bumped
  BY DEF CloseTask
<1>3. FoldTasks(ts, e) = IF ~Folds(e) THEN ts
                         ELSE IF e.source = "claim" /\ e.body.op = "close_task"
                         THEN shut ELSE bumped
  BY DEF FoldTasks, About
<1> HIDE DEF bumped, shut, task
<1>4. DOMAIN FoldTasks(ts, e) = IF Folds(e) THEN DOMAIN ts \cup {task} ELSE DOMAIN ts
  BY <1>1, <1>2, <1>3
<1>5. IsFiniteSet({task})
  BY FS_Singleton
<1> QED BY <1>4, <1>5, FS_Union DEF task

LEMMA NewRows ==
  ASSUME NEW n \in Nat
  PROVE  /\ \A x \in Run, command \in Command, code \in ExitCode :
              [id |-> x, ts |-> n, source |-> "shell", command |-> command,
               exit_code |-> code] \in ShellEvent
         /\ \A r \in Request, i \in Input, focal \in TaskId \cup {NONE} :
              ClaimMap(claims) /\ Body(r, i, focal, claims) # NONE =>
                [id |-> r, ts |-> n, source |-> "claim",
                 body |-> Body(r, i, focal, claims)] \in Pending
<1>1. \A x \in Run, command \in Command, code \in ExitCode :
        [id |-> x, ts |-> n, source |-> "shell", command |-> command,
         exit_code |-> code] \in ShellEvent
  BY RequestsAssumption DEF ShellEvent, ShellRow
<1>2. \A r \in Request, i \in Input, focal \in TaskId \cup {NONE} :
        ClaimMap(claims) /\ Body(r, i, focal, claims) # NONE =>
          RowOf(r, n, Body(r, i, focal, claims)) \in Pending
  BY BodyRow
<1> QED BY <1>1, <1>2 DEF RowOf

(* No request asks for a claim about a command.                            *)
LEMMA BodySubject ==
  ASSUME NEW r \in Request, NEW i, NEW focal, NEW cs, Body(r, i, focal, cs) # NONE
  PROVE  Body(r, i, focal, cs).subject \notin Command
<1> DEFINE b == Body(r, i, focal, cs)
<1>1. <<"authored", r>> \in ClaimId
  BY RequestsAssumption DEF ClaimId
<1>2. {NONE, INTENT_SUBJECT, FRONTIER_SUBJECT, <<"authored", r>>} \cap Command = {}
  BY <1>1, VocabularyAssumption DEF Subject
<1>3. ASSUME NEW q, NEW task, NEW kind, NEW subject, NEW confidence, NEW origin, NEW supersedes
      PROVE  Assertion(q, task, kind, subject, confidence, origin, supersedes).subject = subject
  BY DEF Assertion
<1>4. ASSUME NEW op, NEW id, NEW task, NEW supersedes
      PROVE  Retirement(op, id, task, supersedes).subject = NONE
  BY DEF Retirement
<1>5. b = UserRetraction(i, cs) => b.subject = NONE
  BY <1>4 DEF UserRetraction
<1>6. b = UserIntent(r, focal) => b.subject = INTENT_SUBJECT
  BY <1>3 DEF UserIntent
<1>7. b = AgentClaim(r, i, focal, cs) => b.subject \in {FRONTIER_SUBJECT, <<"authored", r>>}
  BY <1>3 DEF AgentClaim
<1>8. b = UserClaim(r, i, focal) => b.subject \in {NONE, <<"authored", r>>}
  BY <1>3, <1>4 DEF UserClaim
<1>9. b \in {UserRetraction(i, cs), UserIntent(r, focal), AgentClaim(r, i, focal, cs),
            UserClaim(r, i, focal)}
  BY DEF Body
<1> HIDE DEF b
<1> QED BY <1>2, <1>5, <1>6, <1>7, <1>8, <1>9 DEF b

(* A step of a writer appends a row that is new and folds it.              *)
Appends(e) ==
  /\ e \in ShellEvent \cup Pending /\ e.ts = Now /\ Now \in Nat
  /\ e.source = "shell" => e.exit_code \in ExitCode
  /\ e.source = "claim" => /\ e.body.subject \notin Command
                           /\ ValidateAgainstProjection(e.body, claims)
  /\ \A f \in rows : f.id # e.id
  /\ rows' = rows \cup {e}
  /\ tasks' = FoldTasks(tasks, e) /\ claims' = FoldClaims(claims, e)
  /\ lasting' = IF reading = "claims" THEN lasting \cap Failing' ELSE lasting
  /\ UNCHANGED <<reading, loaded, packet, budget, full, known>>

Writes == reading \in {"idle", "claims"} /\ \E e : Appends(e)

LEMMA WritersAppend ==
  ASSUME TablesInv, reading \in {"idle", "claims"},
         \/ \E x \in Run, command \in Command, code \in ExitCode : RunCommand(x, command, code)
         \/ \E r \in Request, i \in Input : Author(r, i)
  PROVE  Writes
<1>1. Cardinality(rows) \in Nat
  BY FS_CardinalityType DEF TablesInv
<1>2. Now \in Nat
  BY <1>1 DEF Now
<1>3. FocalTask(tasks, claims) \in TaskId \cup {NONE}
  BY FocalTaskType DEF TablesInv
<1>4. ASSUME NEW x \in Run, NEW command \in Command, NEW code \in ExitCode,
             RunCommand(x, command, code)
      PROVE  Writes
  <2> DEFINE e == [id |-> x, ts |-> Now, source |-> "shell", command |-> command,
                   exit_code |-> code]
  <2>1. e \in ShellEvent /\ e.ts = Now /\ e.source = "shell" /\ e.exit_code \in ExitCode
    BY <1>2, NewRows
  <2>2. Append1(e)
    BY <1>4 DEF RunCommand
  <2> HIDE DEF e
  <2>3. Appends(e)
    BY <1>2, <2>1, <2>2 DEF Append1, Appends
  <2> QED BY <2>3 DEF Writes
<1>5. ASSUME NEW r \in Request, NEW i \in Input, Author(r, i) PROVE Writes
  <2> DEFINE e == [id |-> r, ts |-> Now, source |-> "claim",
                   body |-> Body(r, i, FocalTask(tasks, claims), claims)]
  <2>1. e \in Pending /\ e.ts = Now /\ e.source = "claim"
    BY <1>2, <1>3, <1>5, NewRows DEF Author, TablesInv
  <2>3. e.body.subject \notin Command /\ ValidateAgainstProjection(e.body, claims)
    BY <1>5, BodySubject DEF Author
  <2>2. Append1(e)
    BY <1>5 DEF Author
  <2> HIDE DEF e
  <2>4. Appends(e)
    BY <1>2, <2>1, <2>2, <2>3 DEF Append1, Appends
  <2> QED BY <2>4 DEF Writes
<1> QED BY <1>4, <1>5

LEMMA TablesNext == TablesInv /\ [BriefNext]_briefVars => TablesInv'
<1> SUFFICES ASSUME TablesInv, [BriefNext]_briefVars PROVE TablesInv'
  OBVIOUS
<1>1. CASE Writes
  <2>1. PICK e : Appends(e)
    BY <1>1 DEF Writes
  <2>2. IsFiniteSet(rows \cup {e}) /\ rows \cup {e} \subseteq ShellEvent \cup Pending
    BY <2>1, FS_AddElement DEF TablesInv, Appends
  <2>3. /\ ClaimMap(FoldClaims(claims, e)) /\ IsFiniteSet(DOMAIN FoldClaims(claims, e))
        /\ TaskMap(FoldTasks(tasks, e)) /\ IsFiniteSet(DOMAIN FoldTasks(tasks, e))
    BY <2>1, FoldClaimsType, FoldClaimsFinite, FoldTasksType, FoldTasksDomain DEF TablesInv, Appends
  <2> QED BY <2>1, <2>2, <2>3 DEF TablesInv, Appends
<1>2. CASE \E b \in Budget : SelectTasks(b)
  BY <1>2 DEF TablesInv, SelectTasks
<1>3. CASE SelectClaims \/ Trim
  BY <1>3 DEF TablesInv, SelectClaims, Trim
<1>4. CASE UNCHANGED briefVars
  BY <1>4 DEF TablesInv, briefVars
<1> QED BY <1>1, <1>2, <1>3, <1>4, WritersAppend DEF BriefNext

-----------------------------------------------------------------------------
(* Packets and what a turn of the loop of trim_to_budget leaves of them.   *)

IsList(s) == \E S : s \in Seq(S)

LEMMA ListIs ==
  ASSUME NEW s, IsList(s)
  PROVE  /\ Len(s) \in Nat /\ DOMAIN s = 1..Len(s) /\ (s = <<>> <=> Len(s) = 0)
BY DEF IsList

LEMMA FrontIs ==
  ASSUME NEW s, IsList(s), s # <<>>
  PROVE  /\ IsList(Front(s)) /\ Len(Front(s)) = Len(s) - 1
         /\ \A k \in 1..(Len(s) - 1) : Front(s)[k] = s[k]
<1>1. PICK S : s \in Seq(S)
  BY DEF IsList
<1>2. Len(s) \in Nat /\ Len(s) - 1 \in Nat
  BY <1>1
<1>3. SubSeq(s, 1, Len(s) - 1) = [k \in 1..(Len(s) - 1) |-> s[k]]
  BY <1>1, <1>2
<1>4. \A k \in 1..(Len(s) - 1) : s[k] \in S
  BY <1>1, <1>2
<1>5. Front(s) = [k \in 1..(Len(s) - 1) |-> s[k]]
  BY <1>3 DEF Front
<1>6. Front(s) \in Seq(S) /\ Len(Front(s)) = Len(s) - 1
  BY <1>2, <1>4, <1>5
<1> QED BY <1>5, <1>6 DEF IsList

LEMMA BothLists ==
  ASSUME NEW s, IsList(s), NEW t, IsList(t)
  PROVE  /\ IsList(s \o t) /\ Len(s \o t) = Len(s) + Len(t)
         /\ \A k \in 1..Len(s) : (s \o t)[k] = s[k]
         /\ \A k \in 1..Len(t) : (s \o t)[Len(s) + k] = t[k]
<1>1. PICK S, T : s \in Seq(S) /\ t \in Seq(T)
  BY DEF IsList
<1>2. s \in Seq(S \cup T) /\ t \in Seq(S \cup T)
  BY <1>1
<1> QED BY <1>2, ConcatProperties DEF IsList

ViewShape(v) ==
  /\ v = [id |-> v.id, intent |-> v.intent, reality |-> v.reality,
          decisions |-> v.decisions, ruled_out |-> v.ruled_out,
          unknowns |-> v.unknowns, next_action |-> v.next_action]
  /\ IsList(v.decisions) /\ IsList(v.unknowns)

LEMMA TrimTaskKeeps ==
  ASSUME NEW v, ViewShape(v), CanTrim(v)
  PROVE  ViewShape(TrimTask(v)) /\ Core(TrimTask(v)) = Core(v)
<1>1. CASE v.unknowns # <<>>
  <2>1. TrimTask(v) = [v EXCEPT !.unknowns = Front(v.unknowns)]
    BY <1>1 DEF TrimTask
  <2>2. IsList(Front(v.unknowns))
    BY <1>1, FrontIs DEF ViewShape
  <2>3. TrimTask(v) = [id |-> v.id, intent |-> v.intent, reality |-> v.reality,
                       decisions |-> v.decisions, ruled_out |-> v.ruled_out,
                       unknowns |-> Front(v.unknowns), next_action |-> v.next_action]
    BY <2>1 DEF ViewShape
  <2> QED BY <2>2, <2>3 DEF ViewShape, Core
<1>2. CASE v.unknowns = <<>>
  <2>1. TrimTask(v) = [v EXCEPT !.decisions = Front(v.decisions)]
    BY <1>2 DEF TrimTask
  <2>2. Len(v.decisions) > 1
    BY <1>2 DEF CanTrim
  <2>3. Len(v.decisions) \in Nat /\ v.decisions # <<>>
    BY <2>2, ListIs DEF ViewShape
  <2>4. /\ IsList(Front(v.decisions)) /\ Front(v.decisions) # <<>>
        /\ Front(v.decisions)[1] = v.decisions[1]
    <3>1. /\ IsList(Front(v.decisions)) /\ Len(Front(v.decisions)) = Len(v.decisions) - 1
          /\ \A k \in 1..(Len(v.decisions) - 1) : Front(v.decisions)[k] = v.decisions[k]
      BY <2>3, FrontIs DEF ViewShape
    <3>2. ASSUME NEW n \in Nat, n > 1 PROVE 1 \in 1..(n - 1) /\ n - 1 # 0
      BY <3>2
    <3>3. 1 \in 1..(Len(v.decisions) - 1) /\ Len(Front(v.decisions)) # 0
      BY <2>2, <2>3, <3>1, <3>2
    <3> QED BY <3>1, <3>3, ListIs
  <2>5. TrimTask(v) = [id |-> v.id, intent |-> v.intent, reality |-> v.reality,
                       decisions |-> Front(v.decisions), ruled_out |-> v.ruled_out,
                       unknowns |-> v.unknowns, next_action |-> v.next_action]
    BY <2>1 DEF ViewShape
  <2> QED BY <2>3, <2>4, <2>5 DEF ViewShape, Core, FirstOrNone
<1> QED BY <1>1, <1>2

PacketShape(p) ==
  /\ p = [constraints |-> p.constraints, passed_checks |-> p.passed_checks,
          open_work |-> p.open_work, focal_task |-> p.focal_task,
          other_active_tasks |-> p.other_active_tasks, truncated |-> p.truncated]
  /\ IsList(p.open_work) /\ \A k \in 1..Len(p.open_work) : ViewShape(p.open_work[k])
  /\ IsList(p.focal_task) /\ \A k \in 1..Len(p.focal_task) : ViewShape(p.focal_task[k])
  /\ Len(p.focal_task) <= 1
  /\ IsList(p.other_active_tasks)

NoDetail(s) == \A k \in 1..Len(s) : ~CanTrim(s[k])

SameCore(s, t) == Len(s) = Len(t) /\ \A k \in 1..Len(t) : Core(s[k]) = Core(t[k])

(* p is what is left of f.                                                 *)
CutOf(p, f) ==
  /\ p.constraints = f.constraints /\ p.passed_checks = f.passed_checks
  /\ SameCore(p.open_work, f.open_work) /\ SameCore(p.focal_task, f.focal_task)
  /\ \/ p.other_active_tasks = f.other_active_tasks
     \/ NoDetail(p.open_work) /\ NoDetail(p.focal_task)

(* A list of views one of which is trimmed.                                *)
LEMMA TrimAt ==
  ASSUME NEW s, IsList(s), \A k \in 1..Len(s) : ViewShape(s[k]),
         NEW i \in 1..Len(s), CanTrim(s[i]),
         NEW t, t = [s EXCEPT ![i] = TrimTask(s[i])]
  PROVE  /\ IsList(t) /\ SameCore(t, s) /\ \A k \in 1..Len(t) : ViewShape(t[k])
<1>1. PICK S : s \in Seq(S)
  BY DEF IsList
<1>2. t \in Seq(S \cup {TrimTask(s[i])})
  BY <1>1
<1>3. Len(s) \in Nat /\ Len(t) = Len(s)
  BY <1>1
<1>4. \A k \in 1..Len(s) : t[k] = IF k = i THEN TrimTask(s[i]) ELSE s[k]
  BY <1>1
<1>5. ViewShape(TrimTask(s[i])) /\ Core(TrimTask(s[i])) = Core(s[i])
  BY TrimTaskKeeps
<1> QED BY <1>2, <1>3, <1>4, <1>5 DEF IsList, SameCore

LEMMA LastTrimmable ==
  ASSUME NEW p, IsList(p.open_work), Trimmable(p) # {}
  PROVE  (CHOOSE k \in Trimmable(p) : \A j \in Trimmable(p) : j <= k)
           \in {k \in 1..Len(p.open_work) : CanTrim(p.open_work[k])}
<1> DEFINE n == Len(p.open_work)
<1>1. n \in Nat /\ Trimmable(p) = {k \in 1..n : CanTrim(p.open_work[k])}
  BY ListIs DEF Trimmable
<1> HIDE DEF n
<1> DEFINE T == {n - k : k \in Trimmable(p)}
<1>2. T \subseteq Nat /\ T # {}
  BY <1>1
<1>3. PICK x \in T : \A y \in T : x <= y
  <2> HIDE DEF T
  <2> QED BY <1>2, LeastNatural
<1>4. PICK k \in Trimmable(p) : x = n - k
  BY <1>3
<1>5. \A j \in Trimmable(p) : j <= k
  <2>1. SUFFICES ASSUME NEW j \in Trimmable(p) PROVE j <= k
    OBVIOUS
  <2>2. n - k <= n - j
    BY <1>3, <1>4
  <2> QED BY <1>1, <2>2
<1>6. \E l \in Trimmable(p) : \A j \in Trimmable(p) : j <= l
  BY <1>5
<1>7. (CHOOSE l \in Trimmable(p) : \A j \in Trimmable(p) : j <= l) \in Trimmable(p)
  BY <1>6
<1> QED BY <1>1, <1>7 DEF n

LEMMA TrimOneKeeps ==
  ASSUME NEW p, PacketShape(p), NEW f, CutOf(p, f), ~NothingToTrim(p)
  PROVE  PacketShape(TrimOne(p)) /\ CutOf(TrimOne(p), f)
<1>1. CASE p.focal_task # <<>> /\ CanTrim(p.focal_task[1])
  <2> DEFINE t == [p.focal_task EXCEPT ![1] = TrimTask(p.focal_task[1])]
  <2>1. 1 \in 1..Len(p.focal_task)
    BY <1>1, ListIs DEF PacketShape
  <2>2. IsList(t) /\ SameCore(t, p.focal_task) /\ \A k \in 1..Len(t) : ViewShape(t[k])
    BY <1>1, <2>1, TrimAt DEF PacketShape
  <2>3. TrimOne(p) = [p EXCEPT !.focal_task = t]
    BY <1>1 DEF TrimOne
  <2> HIDE DEF t
  <2>4. TrimOne(p) = [constraints |-> p.constraints, passed_checks |-> p.passed_checks,
                      open_work |-> p.open_work, focal_task |-> t,
                      other_active_tasks |-> p.other_active_tasks, truncated |-> p.truncated]
    BY <2>3 DEF PacketShape
  <2>5. PacketShape(TrimOne(p))
    BY <2>2, <2>4 DEF PacketShape, SameCore
  <2>6. ~NoDetail(p.focal_task)
    BY <1>1, <2>1 DEF NoDetail
  <2>7. CutOf(TrimOne(p), f)
    BY <2>2, <2>4, <2>6 DEF CutOf, SameCore
  <2> QED BY <2>5, <2>7
<1>2. CASE ~(p.focal_task # <<>> /\ CanTrim(p.focal_task[1])) /\ Trimmable(p) # {}
  <2> DEFINE i == CHOOSE k \in Trimmable(p) : \A j \in Trimmable(p) : j <= k
             t == [p.open_work EXCEPT ![i] = TrimTask(p.open_work[i])]
  <2>1. i \in 1..Len(p.open_work) /\ CanTrim(p.open_work[i])
    BY <1>2, LastTrimmable DEF PacketShape
  <2>2. TrimOne(p) = [p EXCEPT !.open_work = t]
    BY <1>2 DEF TrimOne
  <2> HIDE DEF i
  <2>3. IsList(t) /\ SameCore(t, p.open_work) /\ \A k \in 1..Len(t) : ViewShape(t[k])
    BY <2>1, TrimAt DEF PacketShape
  <2> HIDE DEF t
  <2>4. TrimOne(p) = [constraints |-> p.constraints, passed_checks |-> p.passed_checks,
                      open_work |-> t, focal_task |-> p.focal_task,
                      other_active_tasks |-> p.other_active_tasks, truncated |-> p.truncated]
    BY <2>2 DEF PacketShape
  <2>5. PacketShape(TrimOne(p))
    BY <2>3, <2>4 DEF PacketShape
  <2>6. ~NoDetail(p.open_work)
    BY <2>1 DEF NoDetail
  <2>7. CutOf(TrimOne(p), f)
    BY <2>3, <2>4, <2>6 DEF CutOf, SameCore
  <2> QED BY <2>5, <2>7
<1>3. CASE ~(p.focal_task # <<>> /\ CanTrim(p.focal_task[1])) /\ Trimmable(p) = {}
  <2> DEFINE t == Front(p.other_active_tasks)
  <2>1. p.other_active_tasks # <<>>
    BY <1>3 DEF NothingToTrim
  <2>2. IsList(t)
    BY <2>1, FrontIs DEF PacketShape
  <2>3. TrimOne(p) = [p EXCEPT !.other_active_tasks = t]
    BY <1>3 DEF TrimOne
  <2> HIDE DEF t
  <2>4. TrimOne(p) = [constraints |-> p.constraints, passed_checks |-> p.passed_checks,
                      open_work |-> p.open_work, focal_task |-> p.focal_task,
                      other_active_tasks |-> t, truncated |-> p.truncated]
    BY <2>3 DEF PacketShape
  <2>5. PacketShape(TrimOne(p))
    BY <2>2, <2>4 DEF PacketShape
  <2>6. NoDetail(p.open_work)
    BY <1>3, ListIs DEF NoDetail, Trimmable, PacketShape
  <2>7. NoDetail(p.focal_task)
    <3>1. SUFFICES ASSUME NEW k \in 1..Len(p.focal_task) PROVE ~CanTrim(p.focal_task[k])
      BY DEF NoDetail
    <3>2. k = 1 /\ p.focal_task # <<>>
      BY ListIs DEF PacketShape
    <3> QED BY <1>3, <3>2
  <2>8. CutOf(TrimOne(p), f)
    BY <2>4, <2>6, <2>7 DEF CutOf
  <2> QED BY <2>5, <2>8
<1> QED BY <1>1, <1>2, <1>3

LEMMA TruncatedKeeps ==
  ASSUME NEW p, PacketShape(p), NEW f, CutOf(p, f)
  PROVE  LET q == [p EXCEPT !.truncated = TRUE] IN
         PacketShape(q) /\ CutOf(q, f) /\ q.truncated
<1> DEFINE q == [p EXCEPT !.truncated = TRUE]
<1>1. q = [constraints |-> p.constraints, passed_checks |-> p.passed_checks,
           open_work |-> p.open_work, focal_task |-> p.focal_task,
           other_active_tasks |-> p.other_active_tasks, truncated |-> TRUE]
  <2>1. p = [constraints |-> p.constraints, passed_checks |-> p.passed_checks,
             open_work |-> p.open_work, focal_task |-> p.focal_task,
             other_active_tasks |-> p.other_active_tasks, truncated |-> p.truncated]
    BY DEF PacketShape
  <2>2. ASSUME NEW b
        PROVE  [p EXCEPT !.truncated = b] =
                 [constraints |-> p.constraints, passed_checks |-> p.passed_checks,
                  open_work |-> p.open_work, focal_task |-> p.focal_task,
                  other_active_tasks |-> p.other_active_tasks, truncated |-> b]
    BY <2>1
  <2> QED BY <2>2, Zenon
<1> HIDE DEF q
<1>2. PacketShape(q) /\ CutOf(q, f) /\ q.truncated
  BY <1>1 DEF PacketShape, CutOf
<1> QED BY <1>2 DEF q

-----------------------------------------------------------------------------
(* What is rendered is a packet.                                           *)

LEMMA PickIsList ==
  ASSUME NEW cs, IsFiniteSet(DOMAIN cs), NEW t, NEW kind
  PROVE  IsList(Pick(cs, t, kind))
<1> DEFINE S == {i \in CurrentForTask(cs, t) : /\ cs[i].kind = kind
                                               /\ kind = "reality" => cs[i].outcome # 0}
           Before(i, j) == \/ ConfidenceRank(cs[i].confidence) < ConfidenceRank(cs[j].confidence)
                           \/ /\ cs[i].confidence = cs[j].confidence
                              /\ cs[i].updated_at < cs[j].updated_at
           At(k) == CHOOSE i \in S : Cardinality({j \in S : Before(j, i)}) = k - 1
           n == Cardinality(S)
<1>1. IsFiniteSet(S)
  BY FS_Subset DEF CurrentForTask
<1>2. Pick(cs, t, kind) = [k \in 1..n |-> At(k)]
  BY DEF Pick, InOrder
<1> HIDE DEF S, At
<1>3. n \in Nat
  BY <1>1, FS_CardinalityType
<1> HIDE DEF n
<1>4. [k \in 1..n |-> At(k)] \in Seq({At(k) : k \in 1..n})
  BY <1>3
<1> QED BY <1>2, <1>4 DEF IsList

LEMMA FocalViewShape ==
  ASSUME NEW cs, IsFiniteSet(DOMAIN cs), NEW t
  PROVE  ViewShape(FocalView(cs, t))
BY PickIsList DEF FocalView, ViewShape

LEMMA LinesAre ==
  ASSUME NEW S, IsFiniteSet(S)
  PROVE  /\ IsList(SetToSeq(S)) /\ \A k \in 1..Len(SetToSeq(S)) : SetToSeq(S)[k] \in S
         /\ \A t \in S : \E k \in 1..Len(SetToSeq(S)) : SetToSeq(S)[k] = t
<1> DEFINE n == Cardinality(S)
           s == SetToSeq(S)
<1>1. n \in Nat
  BY FS_CardinalityType
<1>2. s \in [1..n -> S] /\ IsInjective(s)
  <2>1. PICK f : f \in Bijection(1..n, S)
    BY FS_CardinalityType DEF ExistsBijection
  <2>2. f \in [1..n -> S] /\ IsInjective(f)
    BY <2>1 DEF Bijection, Injection
  <2> QED BY <2>2, Zenon DEF SetToSeq
<1> HIDE DEF s
<1>3. s \in Seq(S) /\ Len(s) = n
  BY <1>1, <1>2
<1>4. s \in Injection(1..n, S)
  BY <1>2 DEF Injection
<1>5. s \in Surjection(1..n, S)
  <2>1. IsFiniteSet(1..n) /\ Cardinality(1..n) = n
    <3>1. ASSUME NEW a \in Int, a = 1 PROVE IsFiniteSet(a..n) /\ Cardinality(a..n) = n
      <4>1. IsFiniteSet(a..n) /\ Cardinality(a..n) = IF a > n THEN 0 ELSE n - a + 1
        BY <1>1, FS_Interval
      <4> QED BY <1>1, <3>1, <4>1
    <3> QED BY <3>1
  <2> QED BY <1>4, <2>1, FS_Injection
<1>6. \A t \in S : \E k \in 1..n : s[k] = t
  BY <1>5 DEF Surjection
<1> QED BY <1>2, <1>3, <1>6 DEF IsList, s

LEMMA RenderShape ==
  ASSUME NEW ts, IsFiniteSet(DOMAIN ts), NEW cs, IsFiniteSet(DOMAIN cs)
  PROVE  PacketShape(Render(ts, cs)) /\ Render(ts, cs).truncated = FALSE
<1> DEFINE p == Render(ts, cs)
           focal == FocalTask(ts, cs)
<1>1. p = [constraints |-> p.constraints, passed_checks |-> p.passed_checks,
           open_work |-> p.open_work, focal_task |-> p.focal_task,
           other_active_tasks |-> p.other_active_tasks, truncated |-> p.truncated]
      /\ p.truncated = FALSE
  BY DEF Render
<1>2. p.open_work = OpenWork(ts, cs, focal) /\ p.other_active_tasks = OtherTasks(ts, cs, focal)
      /\ p.focal_task = IF focal = NONE THEN <<>> ELSE <<FocalView(cs, focal)>>
  BY DEF Render
<1>3. /\ IsList(OpenWork(ts, cs, focal))
      /\ \A k \in 1..Len(OpenWork(ts, cs, focal)) : ViewShape(OpenWork(ts, cs, focal)[k])
  <2> DEFINE S == {t \in Active(ts) \ {focal} : HasAuthoredContinuation(cs, t)}
  <2>1. IsFiniteSet(S)
    BY FS_Subset DEF Active
  <2>2. PICK at : OpenWork(ts, cs, focal) = [k \in 1..Cardinality(S) |-> FocalView(cs, at[k])]
    <3> DEFINE o == InOrder(S, LAMBDA t, u : ts[t].created_at < ts[u].created_at)
    <3>1. DOMAIN o = 1..Cardinality(S)
      BY DEF InOrder
    <3>2. OpenWork(ts, cs, focal) = [k \in DOMAIN o |-> FocalView(cs, o[k])]
      BY DEF OpenWork
    <3> HIDE DEF o, S
    <3>3. OpenWork(ts, cs, focal) = [k \in 1..Cardinality(S) |-> FocalView(cs, o[k])]
      BY <3>1, <3>2
    <3> QED BY <3>3
  <2> HIDE DEF S
  <2>3. Cardinality(S) \in Nat
    BY <2>1, FS_CardinalityType
  <2>4. OpenWork(ts, cs, focal) \in Seq({FocalView(cs, at[k]) : k \in 1..Cardinality(S)})
        /\ Len(OpenWork(ts, cs, focal)) = Cardinality(S)
    BY <2>2, <2>3
  <2>5. \A k \in 1..Cardinality(S) : OpenWork(ts, cs, focal)[k] = FocalView(cs, at[k])
    BY <2>2
  <2> QED BY <2>4, <2>5, FocalViewShape DEF IsList
<1>4. IsList(OtherTasks(ts, cs, focal))
  <2>1. IsFiniteSet({t \in Active(ts) \ {focal} : HasFailingReality(cs, t)})
    BY FS_Subset DEF Active
  <2>2. IsList(<<>>)
    <3>1. <<>> \in Seq({NONE})
      OBVIOUS
    <3> QED BY <3>1 DEF IsList
  <2> QED BY <2>1, <2>2, LinesAre DEF OtherTasks
<1>5. /\ IsList(p.focal_task) /\ Len(p.focal_task) <= 1
      /\ \A k \in 1..Len(p.focal_task) : ViewShape(p.focal_task[k])
  <2>1. ASSUME NEW v, ViewShape(v)
        PROVE  /\ IsList(<<v>>) /\ Len(<<v>>) <= 1 /\ \A k \in 1..Len(<<v>>) : ViewShape(<<v>>[k])
    <3>1. <<v>> \in Seq({v}) /\ Len(<<v>>) = 1 /\ <<v>>[1] = v
      OBVIOUS
    <3>2. \A k \in 1..1 : k = 1
      OBVIOUS
    <3>3. \A k \in 1..Len(<<v>>) : ViewShape(<<v>>[k])
      BY <2>1, <3>1, <3>2
    <3>4. IsList(<<v>>)
      BY <3>1 DEF IsList
    <3>5. Len(<<v>>) <= 1
      BY <3>1
    <3> QED BY <3>3, <3>4, <3>5
  <2>2. IsList(<<>>) /\ Len(<<>>) = 0
    <3>1. <<>> \in Seq({NONE})
      OBVIOUS
    <3> QED BY <3>1 DEF IsList
  <2> HIDE DEF p, focal
  <2>3. CASE focal = NONE
    BY <1>2, <2>2, <2>3
  <2>4. CASE focal # NONE
    BY <1>2, <2>1, <2>4, FocalViewShape
  <2> QED BY <2>3, <2>4
<1> HIDE DEF p, focal
<1> QED BY <1>1, <1>2, <1>3, <1>4, <1>5 DEF PacketShape, p

-----------------------------------------------------------------------------
(* A briefing is whole or says that it was cut.                            *)

CutInv ==
  reading \in {"trim", "answered"} =>
    /\ PacketShape(full) /\ full.truncated = FALSE
    /\ PacketShape(packet) /\ CutOf(packet, full)
    /\ packet.truncated \/ packet = full
    /\ reading = "answered" /\ ~packet.truncated => PacketCost(packet) <= budget

LEMMA CutNext == TablesInv /\ CutInv /\ [BriefNext]_briefVars => CutInv'
<1> SUFFICES ASSUME TablesInv, CutInv, [BriefNext]_briefVars PROVE CutInv'
  OBVIOUS
<1>1. CASE Writes
  BY <1>1 DEF Writes, Appends, CutInv
<1>2. CASE \E b \in Budget : SelectTasks(b)
  BY <1>2 DEF SelectTasks, CutInv
<1>3. CASE SelectClaims
  <2>1. /\ packet' = Render(loaded, claims) /\ full' = packet' /\ reading' = "trim"
    BY <1>3 DEF SelectClaims
  <2>2. PacketShape(packet') /\ packet'.truncated = FALSE
    BY <2>1, RenderShape DEF TablesInv
  <2>3. CutOf(packet', packet')
    BY DEF CutOf, SameCore
  <2> QED BY <2>1, <2>2, <2>3 DEF CutInv
<1>4. CASE Trim
  <2> USE <1>4
  <2>1. /\ PacketShape(full) /\ full.truncated = FALSE /\ full' = full /\ budget' = budget
        /\ PacketShape(packet) /\ CutOf(packet, full) /\ (packet.truncated \/ packet = full)
    BY DEF Trim, CutInv
  <2>2. CASE PacketCost(packet) <= budget
    BY <2>1, <2>2 DEF Trim, CutInv
  <2>4. CASE ~(PacketCost(packet) <= budget) /\ ~NothingToTrim(packet)
    <3>1. packet' = [TrimOne(packet) EXCEPT !.truncated = TRUE]
      BY <2>4 DEF Trim
    <3>2. PacketShape(TrimOne(packet)) /\ CutOf(TrimOne(packet), full)
      BY <2>1, <2>4, TrimOneKeeps
    <3>3. PacketShape(packet') /\ CutOf(packet', full) /\ packet'.truncated
      BY <3>1, <3>2, TruncatedKeeps
    <3> QED BY <2>1, <3>3 DEF CutInv
  <2>5. CASE ~(PacketCost(packet) <= budget) /\ NothingToTrim(packet)
    <3>1. packet' = [packet EXCEPT !.truncated = TRUE]
      BY <2>5 DEF Trim
    <3>2. PacketShape(packet') /\ CutOf(packet', full) /\ packet'.truncated
      BY <2>1, <3>1, TruncatedKeeps
    <3> QED BY <2>1, <3>2 DEF CutInv
  <2> QED BY <2>2, <2>4, <2>5
<1>5. CASE UNCHANGED briefVars
  BY <1>5 DEF briefVars, CutInv
<1> QED BY <1>1, <1>2, <1>3, <1>4, <1>5, WritersAppend DEF BriefNext

LEMMA ViewsAre ==
  ASSUME NEW p, PacketShape(p)
  PROVE  LET n == Len(p.open_work) IN
         /\ n \in Nat /\ Len(p.focal_task) \in Nat
         /\ Len(Views(p)) = n + Len(p.focal_task) /\ DOMAIN Views(p) = 1..Len(Views(p))
         /\ \A k \in 1..Len(Views(p)) :
              \/ k \in 1..n /\ Views(p)[k] = p.open_work[k]
              \/ k - n \in 1..Len(p.focal_task) /\ Views(p)[k] = p.focal_task[k - n]
         /\ \A k \in 1..n : Views(p)[k] = p.open_work[k]
         /\ \A k \in 1..Len(p.focal_task) : Views(p)[n + k] = p.focal_task[k]
<1> DEFINE n == Len(p.open_work)
           m == Len(p.focal_task)
<1>1. n \in Nat /\ m \in Nat
  BY ListIs DEF PacketShape
<1>2. /\ IsList(Views(p)) /\ Len(Views(p)) = n + m
      /\ \A k \in 1..n : Views(p)[k] = p.open_work[k]
      /\ \A k \in 1..m : Views(p)[n + k] = p.focal_task[k]
  BY BothLists DEF PacketShape, Views
<1>3. DOMAIN Views(p) = 1..Len(Views(p))
  BY <1>2, ListIs
<1> HIDE DEF n, m
<1>4. ASSUME NEW k \in 1..(n + m)
      PROVE  \/ k \in 1..n /\ Views(p)[k] = p.open_work[k]
             \/ k - n \in 1..m /\ Views(p)[k] = p.focal_task[k - n]
  <2>1. CASE k <= n
    BY <1>1, <1>2, <2>1
  <2>2. CASE k > n
    <3>1. k - n \in 1..m /\ n + (k - n) = k
      BY <1>1, <2>2
    <3> QED BY <1>2, <3>1
  <2> QED BY <1>1, <2>1, <2>2
<1> QED BY <1>1, <1>2, <1>3, <1>4 DEF n, m

LEMMA CutKeepsCore ==
  ASSUME PacketShape(full), PacketShape(packet), CutOf(packet, full)
  PROVE  KeepsCore
<1> DEFINE n == Len(full.open_work)
           m == Len(full.focal_task)
<1>1. /\ n = Len(packet.open_work) /\ m = Len(packet.focal_task)
      /\ n \in Nat /\ m \in Nat
  BY ListIs DEF CutOf, SameCore, PacketShape
<1>2. Len(Views(packet)) = n + m /\ Len(Views(full)) = n + m
      /\ DOMAIN Views(packet) = 1..(n + m) /\ DOMAIN Views(full) = 1..(n + m)
  BY <1>1, ViewsAre
<1>3. ASSUME NEW k \in 1..(n + m)
      PROVE  /\ Core(Views(packet)[k]) = Core(Views(full)[k])
             /\ NoDetail(packet.open_work) /\ NoDetail(packet.focal_task)
                  => ~CanTrim(Views(packet)[k])
  <2>1. \/ k \in 1..n /\ Views(full)[k] = full.open_work[k]
        \/ k - n \in 1..m /\ Views(full)[k] = full.focal_task[k - n]
    BY <1>2, <1>3, ViewsAre
  <2>2. CASE k \in 1..n /\ Views(full)[k] = full.open_work[k]
    <3>1. Views(packet)[k] = packet.open_work[k]
      BY <1>1, <2>2, ViewsAre
    <3> QED BY <1>1, <2>2, <3>1 DEF CutOf, SameCore, NoDetail
  <2>3. CASE k - n \in 1..m /\ Views(full)[k] = full.focal_task[k - n]
    <3>1. \A j \in 1..m : Views(packet)[n + j] = packet.focal_task[j]
      BY <1>1, ViewsAre
    <3>2. n + (k - n) = k
      BY <1>1, <1>3
    <3> QED BY <1>1, <2>3, <3>1, <3>2 DEF CutOf, SameCore, NoDetail
  <2> QED BY <2>1, <2>2, <2>3
<1>4. Lines(packet) # Lines(full) => NoDetail(packet.open_work) /\ NoDetail(packet.focal_task)
  BY DEF CutOf, Lines
<1> HIDE DEF n, m
<1> QED BY <1>2, <1>3, <1>4 DEF KeepsCore, CutOf

(* A briefing that does not say it was cut is whole and within its budget; *)
(* one that does has kept what is in force: for any tables, any budget and *)
(* any writes between its statements.                                      *)
THEOREM BriefingsTellOfCuts == BriefSpec => []CutsAreTold
<1>1. BriefInit => TablesInv /\ CutInv
  BY EmptyTables, FS_EmptySet DEF BriefInit, TablesInv, CutInv
<1>2. TablesInv /\ CutInv /\ [BriefNext]_briefVars => (TablesInv /\ CutInv)'
  BY TablesNext, CutNext
<1>3. CutInv => CutsAreTold
  BY CutKeepsCore DEF CutInv, CutsAreTold
<1> QED BY <1>1, <1>2, <1>3, PTL DEF BriefSpec

-----------------------------------------------------------------------------
(* Nothing that fails is left out.                                         *)

FailingIn(ts, cs) == {t \in Active(ts) : HasFailingReality(cs, t)}

LEMMA FocalFails ==
  ASSUME NEW ts, TaskMap(ts), NEW cs, FailingIn(ts, cs) # {}
  PROVE  FocalTask(ts, cs) \in FailingIn(ts, cs) /\ FocalTask(ts, cs) # NONE
<1> DEFINE failing == FailingIn(ts, cs)
           T == {ts[t].created_at : t \in failing}
           oldest == {t \in failing :
                        \A u \in failing : ts[t].created_at <= ts[u].created_at}
<1>1. failing \subseteq DOMAIN ts /\ failing \subseteq TaskId
  BY DEF FailingIn, Active, TaskMap
<1>2. oldest # {}
  <2>1. T \subseteq Nat /\ T # {}
    BY <1>1 DEF TaskMap, Task
  <2>2. PICK x \in T : \A y \in T : x <= y
    <3> HIDE DEF T
    <3> QED BY <2>1, LeastNatural
  <2>3. PICK t \in failing : x = ts[t].created_at
    BY <2>2
  <2>4. \A u \in failing : ts[t].created_at <= ts[u].created_at
    BY <2>2, <2>3
  <2> QED BY <2>4
<1>3. FocalTask(ts, cs) = CHOOSE t \in oldest : TRUE
  BY <1>2 DEF FocalTask, FailingIn, Active
<1>4. FocalTask(ts, cs) \in failing
  BY <1>2, <1>3
<1>5. FocalTask(ts, cs) # NONE
  BY <1>1, <1>4, VocabularyAssumption
<1> QED BY <1>4, <1>5

LEMMA FailingAreShown ==
  ASSUME NEW ts, TaskMap(ts), IsFiniteSet(DOMAIN ts), NEW cs, IsFiniteSet(DOMAIN cs)
  PROVE  FailingIn(ts, cs) \subseteq Tasks(Render(ts, cs))
<1> DEFINE p == Render(ts, cs)
           focal == FocalTask(ts, cs)
<1>1. SUFFICES ASSUME NEW t \in FailingIn(ts, cs) PROVE t \in Tasks(p)
  OBVIOUS
<1>2. focal # NONE
  BY FocalFails
<1>3. PacketShape(p)
  BY RenderShape
<1>4. p.focal_task = <<FocalView(cs, focal)>>
      /\ p.other_active_tasks = OtherTasks(ts, cs, focal)
  BY <1>2 DEF Render
<1>5. CASE t = focal
  <2>1. Len(p.focal_task) = 1 /\ p.focal_task[1] = FocalView(cs, focal)
    BY <1>4
  <2>2. 1 \in 1..Len(p.focal_task)
    BY <2>1
  <2>3. Views(p)[Len(p.open_work) + 1] = FocalView(cs, focal)
    BY <1>3, <2>1, <2>2, ViewsAre
  <2>4. Len(p.open_work) + 1 \in DOMAIN Views(p)
    <3>1. /\ Len(p.open_work) \in Nat /\ Len(Views(p)) = Len(p.open_work) + 1
          /\ DOMAIN Views(p) = 1..Len(Views(p))
      BY <1>3, <2>1, ViewsAre
    <3>2. \A n \in Nat : n + 1 \in 1..(n + 1)
      OBVIOUS
    <3> QED BY <3>1, <3>2
  <2>5. FocalView(cs, focal).id = focal
    BY DEF FocalView
  <2> HIDE DEF p, focal
  <2> QED BY <1>5, <2>3, <2>4, <2>5 DEF Tasks
<1>6. CASE t # focal
  <2> DEFINE S == {u \in Active(ts) \ {focal} : HasFailingReality(cs, u)}
  <2>1. t \in S /\ IsFiniteSet(S)
    BY <1>6, FS_Subset DEF FailingIn, Active
  <2>2. OtherTasks(ts, cs, focal) = SetToSeq(S)
    BY <1>2 DEF OtherTasks
  <2> HIDE DEF S
  <2>3. IsList(SetToSeq(S)) /\ \E k \in 1..Len(SetToSeq(S)) : SetToSeq(S)[k] = t
    BY <2>1, LinesAre
  <2>4. t \in Lines(p)
    BY <1>4, <2>2, <2>3, ListIs DEF Lines
  <2> QED BY <2>4 DEF Tasks
<1> QED BY <1>5, <1>6

(* Between the SELECTs, what has failed all the while is active in what    *)
(* was read and failing in what will be; after them, it is in the packet   *)
(* as it was before it was trimmed.                                        *)
LastingInv ==
  /\ reading = "claims" => lasting \subseteq FailingIn(loaded, claims)
  /\ reading \in {"trim", "answered"} => lasting \subseteq Tasks(full)

LEMMA LastingNext == TablesInv /\ LastingInv /\ [BriefNext]_briefVars => LastingInv'
<1> SUFFICES ASSUME TablesInv, LastingInv, [BriefNext]_briefVars PROVE LastingInv'
  OBVIOUS
<1>1. CASE Writes
  <2>1. reading \in {"idle", "claims"} /\ reading' = reading /\ loaded' = loaded
        /\ lasting' = IF reading = "claims" THEN lasting \cap Failing' ELSE lasting
    BY <1>1 DEF Writes, Appends
  <2>2. CASE reading = "claims"
    <3>1. lasting' \subseteq Active(loaded) /\ lasting' \subseteq Failing'
      BY <2>1, <2>2 DEF LastingInv, FailingIn
    <3>2. \A t \in lasting' : HasFailingReality(claims', t)
      BY <3>1 DEF Failing
    <3>3. lasting' \subseteq FailingIn(loaded', claims')
      BY <2>1, <3>1, <3>2 DEF FailingIn
    <3> QED BY <2>1, <2>2, <3>3 DEF LastingInv
  <2>3. CASE reading = "idle"
    BY <2>1, <2>3 DEF LastingInv
  <2> QED BY <2>1, <2>2, <2>3
<1>2. CASE \E b \in Budget : SelectTasks(b)
  <2>1. /\ reading' = "claims" /\ loaded' = tasks /\ lasting' = Failing /\ claims' = claims
    BY <1>2 DEF SelectTasks
  <2>2. Failing = FailingIn(tasks, claims)
    BY DEF Failing, FailingIn, Active
  <2> QED BY <2>1, <2>2 DEF LastingInv
<1>3. CASE SelectClaims
  <2>1. /\ reading = "claims" /\ reading' = "trim" /\ full' = Render(loaded, claims)
        /\ lasting' = lasting
    BY <1>3 DEF SelectClaims
  <2>2. lasting \subseteq Tasks(Render(loaded, claims))
    BY <2>1, FailingAreShown DEF TablesInv, LastingInv
  <2> QED BY <2>1, <2>2 DEF LastingInv
<1>4. CASE Trim
  BY <1>4 DEF Trim, LastingInv
<1>5. CASE UNCHANGED briefVars
  BY <1>5 DEF briefVars, LastingInv
<1> QED BY <1>1, <1>2, <1>3, <1>4, <1>5, WritersAppend DEF BriefNext

(* A task that fails all the while the briefing is read is in it, or the   *)
(* briefing says that it was cut, whatever is written between its SELECTs. *)
THEOREM FailuresAreSeen == BriefSpec => []NothingFailsUnseen
<1>1. BriefInit => TablesInv /\ CutInv /\ LastingInv
  BY EmptyTables, FS_EmptySet DEF BriefInit, TablesInv, CutInv, LastingInv
<1>2. TablesInv /\ CutInv /\ LastingInv /\ [BriefNext]_briefVars
        => (TablesInv /\ CutInv /\ LastingInv)'
  BY TablesNext, CutNext, LastingNext
<1>3. CutInv /\ LastingInv => NothingFailsUnseen
  BY DEF CutInv, LastingInv, NothingFailsUnseen
<1> QED BY <1>1, <1>2, <1>3, PTL DEF BriefSpec

-----------------------------------------------------------------------------
(* The claims that exits leave.                                            *)

ExitOf(e, rs, command) == e \in rs /\ e.source = "shell" /\ e.command = command

Newest(e, rs) == \A f \in rs : ExitOf(f, rs, e.command) => f.ts <= e.ts

(* Rows are told apart by their ids and by their times.                    *)
RowsInv ==
  /\ \A e \in rows : e.ts \in Nat /\ e.ts <= Cardinality(rows)
  /\ \A e, f \in rows : e.id = f.id \/ e.ts = f.ts => e = f
  /\ \A e \in rows : e.source = "shell" => e.exit_code \in ExitCode

(* Each exit has its claim, which is current while no exit of its command  *)
(* is newer, and no other claim tells of an exit.                          *)
ExitsInv ==
  /\ SlotUnique(claims)
  /\ \A e \in rows : e.source = "shell" =>
       /\ <<"reality", e.id>> \in DOMAIN claims
       /\ RealityOf(e, claims[<<"reality", e.id>>])
       /\ claims[<<"reality", e.id>>].status = "current" <=> Newest(e, rows)
  /\ \A i \in DOMAIN claims : claims[i].kind = "reality" /\ claims[i].outcome # NONE =>
       \E e \in rows : e.source = "shell" /\ i = <<"reality", e.id>>

LEMMA RowsNext ==
  ASSUME TablesInv, RowsInv, NEW e, Appends(e)
  PROVE  RowsInv'
<1>1. Cardinality(rows) \in Nat /\ e.ts = Cardinality(rows) + 1
  BY FS_CardinalityType DEF TablesInv, Appends, Now
<1>2. e \notin rows /\ rows' = rows \cup {e}
  BY DEF Appends
<1>3. Cardinality(rows') = Cardinality(rows) + 1
  BY <1>2, FS_AddElement DEF TablesInv
<1>4. \A f \in rows : f.ts \in Nat /\ f.ts < e.ts /\ f.ts <= Cardinality(rows')
  BY <1>1, <1>3 DEF RowsInv
<1>5. \A f \in rows : f.id # e.id
  BY DEF Appends
<1>6. e.source = "shell" => e.exit_code \in ExitCode
  BY DEF Appends
<1>7. \A f \in rows' : f.ts \in Nat /\ f.ts <= Cardinality(rows')
  BY <1>1, <1>2, <1>3, <1>4
<1>8. \A f, g \in rows' : f.id = g.id \/ f.ts = g.ts => f = g
  BY <1>1, <1>2, <1>4, <1>5 DEF RowsInv
<1> QED BY <1>2, <1>6, <1>7, <1>8 DEF RowsInv

LEMMA StatusIs ==
  ASSUME NEW c, ClaimMap(c), NEW i \in DOMAIN c
  PROVE  c[i].status \in {"current", "superseded"} /\ c[i] \in Claim
BY DEF ClaimMap, Claim

(* An exit's claim and the exits after it.                                 *)
LEMMA ExitKeepsExits ==
  ASSUME TablesInv, RowsInv, ExitsInv, NEW e, Appends(e), e.source = "shell"
  PROVE  ExitsInv'
<1> DEFINE d == FoldClaims(claims, e)
           k == <<"reality", e.id>>
           n == <<"frontier", e.id>>
<1>1. e \in ShellEvent \cup Pending /\ claims' = d /\ rows' = rows \cup {e}
      /\ \A f \in rows : f.id # e.id
  BY DEF Appends
<1>2. Folds(e)
  BY VocabularyAssumption DEF Folds, Appends
<1>3. FoldEffect(claims, d, e)
  BY <1>1, <1>2, FoldClaimsEffect DEF TablesInv
<1>4. ClaimMap(d) /\ SlotUnique(d)
  BY <1>3 DEF FoldEffect, ExitsInv
<1>5. Asserts(e) = {k, n} /\ e.source # "claim"
  BY DEF Asserts
<1>6. PICK A, R :
        /\ Step(claims, d, A, R) /\ A \subseteq {k, n} /\ k \in A
        /\ \A i \in A : Describes(e, i, d[i]) /\ d[i].status = "current"
        /\ \A j \in (DOMAIN claims \ A) \cap R : Caused(claims, e, j)
  BY <1>3, <1>5 DEF FoldEffect
<1> HIDE DEF d
<1>7. k \in DOMAIN d /\ RealityOf(e, d[k]) /\ d[k].status = "current" /\ k # n
  <2>1. k # n
    OBVIOUS
  <2> QED BY <1>5, <1>6, <2>1 DEF Step, Describes
<1>8. e.ts \in Nat /\ \A f \in rows : f.ts < e.ts /\ f.ts \in Nat
  <2>1. Cardinality(rows) \in Nat /\ e.ts = Cardinality(rows) + 1
    BY FS_CardinalityType DEF TablesInv, Appends, Now
  <2> QED BY <2>1 DEF RowsInv
<1>9. Newest(e, rows')
  BY <1>1, <1>8 DEF Newest, ExitOf
<1>10. ASSUME NEW f \in rows, f.source = "shell"
       PROVE  /\ <<"reality", f.id>> \in DOMAIN d
              /\ RealityOf(f, d[<<"reality", f.id>>])
              /\ d[<<"reality", f.id>>].status = "current" <=> Newest(f, rows')
  <2> DEFINE j == <<"reality", f.id>>
  <2>1. /\ j \in DOMAIN claims /\ RealityOf(f, claims[j])
        /\ claims[j].status = "current" <=> Newest(f, rows)
    BY <1>10 DEF ExitsInv
  <2>2. j # k /\ j # n
    BY <1>1
  <2> HIDE DEF j
  <2>3. /\ j \in DOMAIN d /\ Same(d[j], claims[j]) /\ j \notin A
        /\ d[j].status = IF j \in R THEN "superseded" ELSE claims[j].status
    BY <1>6, <2>1, <2>2 DEF Step
  <2>4. RealityOf(f, d[j])
    BY <2>1, <2>3 DEF Same, RealityOf
  <2>5. CASE f.command = e.command
    <3>1. ~Newest(f, rows')
      BY <1>1, <1>8, <2>5 DEF Newest, ExitOf
    <3>2. d[j].status # "current"
      <4>1. SUFFICES ASSUME d[j].status = "current" PROVE FALSE
        OBVIOUS
      <4>2. /\ d[j].kind = "reality" /\ d[k].kind = "reality"
            /\ d[j].task_id = d[k].task_id /\ d[j].subject = d[k].subject
        BY <1>7, <2>4, <2>5 DEF RealityOf
      <4>3. d[j].kind \in UniqueSlot
        BY <4>2 DEF UniqueSlot
      <4> QED BY <1>4, <1>7, <2>2, <2>3, <4>1, <4>2, <4>3 DEF SlotUnique
    <3> QED BY <2>3, <2>4, <3>1, <3>2 DEF j
  <2>6. CASE f.command # e.command
    <3>1. j \notin R
      <4>1. SUFFICES ASSUME j \in R PROVE FALSE
        OBVIOUS
      <4>2. Caused(claims, e, j)
        BY <1>6, <2>1, <2>3, <4>1
      <4> QED BY <1>5, <2>1, <2>6, <4>2 DEF Caused, RealityOf
    <3>2. Newest(f, rows') <=> Newest(f, rows)
      BY <1>1, <2>6 DEF Newest, ExitOf
    <3> QED BY <2>1, <2>3, <2>4, <3>1, <3>2 DEF j
  <2> QED BY <2>5, <2>6
<1>11. ASSUME NEW i \in DOMAIN d, d[i].kind = "reality", d[i].outcome # NONE
       PROVE  \E f \in rows' : f.source = "shell" /\ i = <<"reality", f.id>>
  <2>1. CASE i \in A
    <3>1. i = k
      BY <1>5, <1>6, <1>11, <2>1 DEF Describes, FrontierOf
    <3> QED BY <1>1, <3>1
  <2>2. CASE i \notin A
    <3>1. i \in DOMAIN claims /\ Same(d[i], claims[i])
      BY <1>6, <2>2 DEF Step
    <3>2. \E f \in rows : f.source = "shell" /\ i = <<"reality", f.id>>
      BY <1>11, <3>1 DEF Same, ExitsInv
    <3> QED BY <1>1, <3>2
  <2> QED BY <2>1, <2>2
<1>12. \A f \in rows' : f.source = "shell" =>
         /\ <<"reality", f.id>> \in DOMAIN d
         /\ RealityOf(f, d[<<"reality", f.id>>])
         /\ d[<<"reality", f.id>>].status = "current" <=> Newest(f, rows')
  BY <1>1, <1>7, <1>9, <1>10
<1> QED BY <1>1, <1>4, <1>11, <1>12 DEF ExitsInv

(* A claim that a request asserts, replaces or retracts is no exit's.      *)
LEMMA RequestKeepsExits ==
  ASSUME TablesInv, ExitsInv, NEW e, Appends(e), e.source # "shell"
  PROVE  ExitsInv'
<1> DEFINE d == FoldClaims(claims, e)
<1>1. /\ e \in Pending /\ e.source = "claim" /\ claims' = d /\ rows' = rows \cup {e}
      /\ e.body \in ClaimEvent /\ e.body.subject \notin Command
      /\ ValidateAgainstProjection(e.body, claims)
  BY DEF Appends, ShellEvent, ShellRow, Pending, ClaimRow
<1>2. Folds(e)
  BY <1>1 DEF Folds
<1>3. FoldEffect(claims, d, e)
  BY <1>1, <1>2, FoldClaimsEffect DEF TablesInv
<1>4. ClaimMap(d) /\ SlotUnique(d)
  BY <1>3 DEF FoldEffect, ExitsInv
<1>5. Asserts(e) \subseteq {<<"authored", e.id>>}
  <2>1. CASE e.body.op = "assert"
    BY <1>1, <2>1 DEF Asserts, Pending
  <2>2. CASE e.body.op # "assert"
    BY <1>1, <2>2 DEF Asserts, Pending
  <2> QED BY <2>1, <2>2
<1>6. PICK A, R :
        /\ Step(claims, d, A, R) /\ A \subseteq {<<"authored", e.id>>}
        /\ \A i \in A : Describes(e, i, d[i]) /\ d[i].status = "current"
        /\ \A j \in (DOMAIN claims \ A) \cap R : Caused(claims, e, j)
  BY <1>3, <1>5 DEF FoldEffect
<1> HIDE DEF d
<1>7. ASSUME NEW f \in rows, f.source = "shell"
      PROVE  /\ <<"reality", f.id>> \in DOMAIN d
             /\ RealityOf(f, d[<<"reality", f.id>>])
             /\ d[<<"reality", f.id>>].status = "current" <=> Newest(f, rows')
  <2> DEFINE j == <<"reality", f.id>>
  <2>1. /\ j \in DOMAIN claims /\ RealityOf(f, claims[j])
        /\ claims[j].status = "current" <=> Newest(f, rows)
    BY <1>7 DEF ExitsInv
  <2>2. j # <<"authored", e.id>>
    OBVIOUS
  <2>3. f.command \in Command /\ j # NONE
    <3>1. f \in ShellEvent \cup Pending
      BY DEF TablesInv
    <3>2. f \in ShellRow
      BY <1>7, <3>1 DEF ShellEvent, Pending, ClaimRow
    <3>3. j \in ClaimId
      BY <2>1 DEF TablesInv, ClaimMap
    <3> QED BY <3>2, <3>3, NoneIsNoClaim DEF ShellRow
  <2> HIDE DEF j
  <2>4. /\ j \in DOMAIN d /\ Same(d[j], claims[j]) /\ j \notin A
        /\ d[j].status = IF j \in R THEN "superseded" ELSE claims[j].status
    BY <1>6, <2>1, <2>2 DEF Step
  <2>5. j \notin R
    <3>1. SUFFICES ASSUME j \in R PROVE FALSE
      OBVIOUS
    <3>2. Caused(claims, e, j)
      BY <1>6, <2>1, <2>4, <3>1
    <3>3. Target(e.body) = j
      BY <1>1, <2>1, <2>3, <3>2 DEF Caused, RealityOf
    <3>4. e.body.origin \in {"user", "agent"}
      BY <1>1 DEF ClaimEvent
    <3> QED BY <1>1, <2>1, <2>3, <3>3, <3>4 DEF ValidateAgainstProjection, RealityOf
  <2>6. Newest(f, rows') <=> Newest(f, rows)
    BY <1>1 DEF Newest, ExitOf
  <2>7. RealityOf(f, d[j])
    BY <2>1, <2>4 DEF Same, RealityOf
  <2> QED BY <2>1, <2>4, <2>5, <2>6, <2>7 DEF j
<1>8. ASSUME NEW i \in DOMAIN d, d[i].kind = "reality", d[i].outcome # NONE
      PROVE  \E f \in rows' : f.source = "shell" /\ i = <<"reality", f.id>>
  <2>1. i \notin A
    BY <1>1, <1>6, <1>8 DEF Describes, AuthoredOf
  <2>2. i \in DOMAIN claims /\ Same(d[i], claims[i])
    BY <1>6, <2>1 DEF Step
  <2>3. \E f \in rows : f.source = "shell" /\ i = <<"reality", f.id>>
    BY <1>8, <2>2 DEF Same, ExitsInv
  <2> QED BY <1>1, <2>3
<1>9. \A f \in rows' : f.source = "shell" =>
        /\ <<"reality", f.id>> \in DOMAIN d
        /\ RealityOf(f, d[<<"reality", f.id>>])
        /\ d[<<"reality", f.id>>].status = "current" <=> Newest(f, rows')
  BY <1>1, <1>7
<1> QED BY <1>1, <1>4, <1>8, <1>9 DEF ExitsInv

LEMMA NewestExit ==
  ASSUME TablesInv, RowsInv, NEW command, NEW e \in rows, ExitOf(e, rows, command)
  PROVE  \E g \in rows : ExitOf(g, rows, command) /\ Newest(g, rows)
<1> DEFINE n == Cardinality(rows)
           T == {n - f.ts : f \in {f \in rows : ExitOf(f, rows, command)}}
<1>1. n \in Nat
  BY FS_CardinalityType DEF TablesInv
<1>2. T \subseteq Nat /\ T # {}
  <2> HIDE DEF n
  <2>1. \A f \in rows : f.ts \in Nat /\ f.ts <= n
    BY DEF RowsInv, n
  <2>2. \A m \in Nat : m <= n => n - m \in Nat
    BY <1>1
  <2> QED BY <2>1, <2>2
<1>3. PICK x \in T : \A y \in T : x <= y
  <2> HIDE DEF T
  <2> QED BY <1>2, LeastNatural
<1>4. PICK g \in rows : ExitOf(g, rows, command) /\ x = n - g.ts
  BY <1>3
<1>5. ASSUME NEW f \in rows, ExitOf(f, rows, command) PROVE f.ts <= g.ts
  <2>1. n - g.ts <= n - f.ts
    BY <1>3, <1>4, <1>5
  <2>2. f.ts \in Nat /\ g.ts \in Nat
    BY DEF RowsInv
  <2> HIDE DEF n
  <2> QED BY <1>1, <2>1, <2>2
<1>6. g.command = command
  BY <1>4 DEF ExitOf
<1> QED BY <1>4, <1>5, <1>6 DEF Newest, ExitOf

(* The commands that are told to pass are those whose newest exit is 0 and *)
(* that failed before.                                                     *)
FixedIn(rs, command) ==
  /\ \E f \in rs : ExitOf(f, rs, command) /\ f.exit_code = 1
  /\ \E e \in rs : /\ ExitOf(e, rs, command) /\ e.exit_code = 0
                   /\ \A f \in rs : ExitOf(f, rs, command) /\ f.exit_code = 1 => f.ts < e.ts

LEMMA PassedAreFixed ==
  ASSUME TablesInv, RowsInv, ExitsInv, NEW ts
  PROVE  PassedChecks(ts, claims) = {t \in Active(ts) \cap Command : FixedIn(rows, t)}
<1>1. 0 # NONE /\ 1 # NONE /\ ExitCode = {0, 1}
  BY VocabularyAssumption DEF ExitCode
<1>2. \A e \in rows : e.source = "shell" => e.command \in Command
  BY DEF TablesInv, ShellEvent, ShellRow, Pending, ClaimRow
<1>3. ASSUME NEW e \in rows, e.source = "shell"
      PROVE  LET i == <<"reality", e.id>> IN
             /\ i \in DOMAIN claims /\ claims[i].kind = "reality"
             /\ claims[i].outcome = e.exit_code /\ e.exit_code \in {0, 1}
             /\ claims[i].task_id = e.command /\ claims[i].subject = e.command
             /\ claims[i].status = "current" <=> Newest(e, rows)
             /\ claims[i].status \in {"current", "superseded"}
  BY <1>1, <1>3, StatusIs DEF ExitsInv, RealityOf, RowsInv, TablesInv
<1>4. ASSUME NEW i \in DOMAIN claims, claims[i].kind = "reality", claims[i].outcome # NONE
      PROVE  \E e \in rows : e.source = "shell" /\ i = <<"reality", e.id>>
  BY <1>4 DEF ExitsInv
<1>5. ASSUME NEW t \in PassedChecks(ts, claims)
      PROVE  t \in Active(ts) \cap Command /\ FixedIn(rows, t)
  <2>1. PICK i \in DOMAIN claims :
          /\ claims[i].status = "current" /\ claims[i].kind = "reality"
          /\ claims[i].outcome = 0 /\ PreviouslyFailed(claims, i)
          /\ t = claims[i].task_id /\ t \in Active(ts)
    BY <1>5 DEF PassedChecks
  <2>2. PICK e \in rows : e.source = "shell" /\ i = <<"reality", e.id>>
    BY <1>1, <1>4, <2>1
  <2>3. PICK j \in DOMAIN claims :
          /\ claims[j].task_id = t /\ claims[j].kind = "reality"
          /\ claims[j].outcome \notin {NONE, 0}
    BY <2>1 DEF PreviouslyFailed
  <2>4. PICK f \in rows : f.source = "shell" /\ j = <<"reality", f.id>>
    BY <1>4, <2>3
  <2>5. /\ ExitOf(e, rows, t) /\ e.exit_code = 0 /\ Newest(e, rows) /\ e.command = t
        /\ ExitOf(f, rows, t) /\ f.exit_code = 1
    BY <1>3, <2>1, <2>2, <2>3, <2>4 DEF ExitOf
  <2>6. ASSUME NEW g \in rows, ExitOf(g, rows, t), g.exit_code = 1 PROVE g.ts < e.ts
    <3>1. g.ts <= e.ts
      BY <2>5, <2>6 DEF Newest
    <3>2. g # e
      BY <2>5, <2>6
    <3>3. g.ts # e.ts /\ g.ts \in Nat /\ e.ts \in Nat
      BY <3>2 DEF RowsInv
    <3> QED BY <3>1, <3>3
  <2>7. FixedIn(rows, t)
    BY <2>5, <2>6 DEF FixedIn
  <2>8. t \in Command
    BY <1>2, <2>5 DEF ExitOf
  <2> QED BY <2>1, <2>7, <2>8
<1>6. ASSUME NEW t \in Active(ts) \cap Command, FixedIn(rows, t)
      PROVE  t \in PassedChecks(ts, claims)
  <2>1. PICK f \in rows : ExitOf(f, rows, t) /\ f.exit_code = 1
    BY <1>6 DEF FixedIn
  <2>2. PICK e \in rows : ExitOf(e, rows, t) /\ f.ts < e.ts
                          /\ \A h \in rows : ExitOf(h, rows, t) /\ h.exit_code = 1 => h.ts < e.ts
    BY <1>6, <2>1 DEF FixedIn
  <2>3. PICK g \in rows : ExitOf(g, rows, t) /\ Newest(g, rows)
    BY <2>1, NewestExit
  <2>4. g.source = "shell" /\ g.command = t /\ f.source = "shell" /\ f.command = t
        /\ e.ts <= g.ts /\ e.ts \in Nat /\ f.ts \in Nat /\ g.ts \in Nat
    BY <2>1, <2>2, <2>3 DEF ExitOf, Newest, RowsInv
  <2>5. g.exit_code = 0
    <3>1. g.exit_code \in {0, 1}
      BY <1>3, <2>4
    <3>2. g.exit_code # 1
      <4>1. SUFFICES ASSUME g.exit_code = 1 PROVE FALSE
        OBVIOUS
      <4>2. g.ts < e.ts
        BY <2>2, <2>3, <4>1
      <4> QED BY <2>4, <4>2
    <3> QED BY <3>1, <3>2
  <2> DEFINE i == <<"reality", g.id>>
             j == <<"reality", f.id>>
  <2>6. /\ i \in DOMAIN claims /\ claims[i].status = "current" /\ claims[i].kind = "reality"
        /\ claims[i].outcome = 0 /\ claims[i].task_id = t /\ claims[i].subject = t
    BY <1>3, <2>3, <2>4, <2>5
  <2>7. ~Newest(f, rows)
    BY <2>2, <2>4 DEF Newest, ExitOf
  <2>8. /\ j \in DOMAIN claims /\ claims[j].status = "superseded" /\ claims[j].kind = "reality"
        /\ claims[j].outcome \notin {NONE, 0} /\ claims[j].task_id = t /\ claims[j].subject = t
    BY <1>1, <1>3, <2>1, <2>4, <2>7
  <2>9. i # j
    BY <2>6, <2>8
  <2> HIDE DEF i, j
  <2>10. PreviouslyFailed(claims, i)
    BY <2>6, <2>8, <2>9 DEF PreviouslyFailed
  <2> QED BY <2>6, <2>10 DEF PassedChecks
<1> QED BY <1>5, <1>6, Zenon

PassedInv ==
  reading \in {"trim", "answered"} =>
    full.passed_checks = {t \in Active(loaded) \cap Command : FixedIn(known, t)}

BriefInv == TablesInv /\ CutInv /\ RowsInv /\ ExitsInv /\ PassedInv

LEMMA ExitsNext == BriefInv /\ [BriefNext]_briefVars => BriefInv'
<1> SUFFICES ASSUME BriefInv, [BriefNext]_briefVars PROVE BriefInv'
  OBVIOUS
<1>1. TablesInv' /\ CutInv'
  BY TablesNext, CutNext DEF BriefInv
<1>2. ASSUME UNCHANGED <<rows, claims>> PROVE RowsInv' /\ ExitsInv'
  <2>1. RowsInv'
    BY <1>2 DEF BriefInv, RowsInv
  <2>2. ExitsInv'
    BY <1>2 DEF BriefInv, ExitsInv, Newest, ExitOf, SlotUnique
  <2> QED BY <2>1, <2>2
<1>3. CASE Writes
  <2>1. PICK e : Appends(e) /\ reading \in {"idle", "claims"} /\ reading' = reading
    BY <1>3 DEF Writes, Appends
  <2>2. RowsInv' /\ ExitsInv'
    BY <2>1, RowsNext, ExitKeepsExits, RequestKeepsExits DEF BriefInv
  <2> QED BY <1>1, <2>1, <2>2 DEF BriefInv, PassedInv
<1>4. CASE \E b \in Budget : SelectTasks(b)
  BY <1>1, <1>2, <1>4 DEF SelectTasks, BriefInv, PassedInv
<1>5. CASE SelectClaims
  <2>1. /\ full' = Render(loaded, claims) /\ known' = rows /\ loaded' = loaded
        /\ UNCHANGED <<rows, claims>>
    BY <1>5 DEF SelectClaims
  <2>2. full'.passed_checks = PassedChecks(loaded, claims)
    BY <2>1 DEF Render
  <2>3. PassedChecks(loaded, claims) = {t \in Active(loaded) \cap Command : FixedIn(rows, t)}
    BY PassedAreFixed DEF BriefInv
  <2>4. PassedInv'
    BY <2>1, <2>2, <2>3 DEF PassedInv
  <2> QED BY <1>1, <1>2, <2>1, <2>4 DEF BriefInv
<1>6. CASE Trim
  <2>1. /\ UNCHANGED <<rows, claims, full, loaded, known>> /\ reading \in {"trim", "answered"}
    BY <1>6 DEF Trim
  <2> QED BY <1>1, <1>2, <2>1 DEF BriefInv, PassedInv
<1>7. CASE UNCHANGED briefVars
  BY <1>1, <1>2, <1>7 DEF briefVars, BriefInv, PassedInv
<1> QED BY <1>3, <1>4, <1>5, <1>6, <1>7, WritersAppend DEF BriefNext, BriefInv

(* "now passes" is said of the active commands whose newest exit is 0 and  *)
(* that failed before, and of all of them: for any runs and any claims,    *)
(* asserted, replaced or retracted.                                        *)
THEOREM PassesAreSaid == BriefSpec => []PassesAreTold
<1>1. BriefInit => BriefInv
  <2>1. ASSUME BriefInit PROVE SlotUnique(Empty) /\ DOMAIN Empty = {}
    BY EmptyMaps, EmptyTables
  <2> QED BY <2>1, EmptyTables, EmptyMaps, FS_EmptySet
          DEF BriefInit, BriefInv, TablesInv, CutInv, RowsInv, ExitsInv, PassedInv
<1>2. BriefInv => PassesAreTold
  <2>1. ASSUME NEW t PROVE FixedIn(known, t) <=> Fixed(t)
    BY DEF FixedIn, Fixed, Exits, ExitOf
  <2>2. ASSUME BriefInv, reading = "answered"
        PROVE  packet.passed_checks = full.passed_checks
    BY <2>2 DEF BriefInv, CutInv, CutOf
  <2>3. ASSUME BriefInv, reading = "answered"
        PROVE  full.passed_checks = {t \in Active(loaded) \cap Command : FixedIn(known, t)}
    BY <2>3 DEF BriefInv, PassedInv
  <2>4. {t \in Active(loaded) \cap Command : FixedIn(known, t)}
          = {t \in Active(loaded) \cap Command : Fixed(t)}
    BY <2>1
  <2> QED BY <2>2, <2>3, <2>4 DEF PassesAreTold
<1> QED BY <1>1, <1>2, ExitsNext, PTL DEF BriefSpec

-----------------------------------------------------------------------------
(* The order of the log.                                                   *)

(* Below, `past` and `more` are sets of rows that a log may be, and        *)
(* `roster` is a table of claims.                                          *)

(* Finitely many rows, no two of which share a place in the order.         *)
Sorted(past) ==
  /\ IsFiniteSet(past)
  /\ \A e \in past : e.ts \in Nat
  /\ \A e, f \in past : e = f \/ Precedes(e, f) \/ Precedes(f, e)

LEMMA SomeRowsSorted ==
  ASSUME NEW past, Sorted(past), NEW R, R \subseteq past
  PROVE  Sorted(R)
<1>1. IsFiniteSet(R)
  BY FS_Subset DEF Sorted
<1> QED BY <1>1 DEF Sorted

LEMMA PrecedesOnce ==
  ASSUME NEW e, NEW f, e.ts \in Nat, f.ts \in Nat, Precedes(e, f)
  PROVE  ~Precedes(f, e)
BY DEF Precedes

LEMMA LatestIs ==
  ASSUME NEW past, Sorted(past), NEW R, R \subseteq past, R # {}
  PROVE  /\ LatestOf(R) \in R
         /\ \A f \in R : f = LatestOf(R) \/ Precedes(f, LatestOf(R))
<1> DEFINE O == {p \in past \X past : Precedes(p[2], p[1])}
<1>1. \A e, f \in past : <<e, f>> \in O <=> Precedes(f, e)
  OBVIOUS
<1>2. IsOrder(O, past)
  <2>1. \A e, f \in past : e.ts \in Nat /\ f.ts \in Nat
    BY DEF Sorted
  <2>2. \A e \in past : ~Precedes(e, e)
    BY <2>1 DEF Precedes
  <2>3. \A e, f, g \in past : Precedes(e, f) /\ Precedes(f, g) => Precedes(e, g)
    BY <2>1 DEF Precedes
  <2> HIDE DEF O
  <2> QED BY <1>1, <2>2, <2>3 DEF IsOrder
<1> HIDE DEF O
<1>3. PICK r \in R : \A s \in R : <<s, r>> \notin O
  BY <1>2, FirstInOrder DEF Sorted
<1>4. \A f \in R : f = r \/ Precedes(f, r)
  BY <1>1, <1>3 DEF Sorted
<1> QED BY <1>4 DEF LatestOf

LEMMA LatestUnique ==
  ASSUME NEW past, Sorted(past), NEW R, R \subseteq past, NEW e \in R,
         \A f \in R : f = e \/ Precedes(f, e)
  PROVE  LatestOf(R) = e
<1>1. /\ LatestOf(R) \in R
      /\ \A f \in R : f = LatestOf(R) \/ Precedes(f, LatestOf(R))
  BY LatestIs
<1>2. e.ts \in Nat /\ LatestOf(R).ts \in Nat
  BY <1>1 DEF Sorted
<1> QED BY <1>1, <1>2, PrecedesOnce

(* What holds of no row, and of rows if it holds of those but the last,    *)
(* holds of any rows.                                                      *)
LEMMA RowInduction ==
  ASSUME NEW past, Sorted(past), NEW G, {} \in G,
         \A R \in SUBSET past : R # {} /\ R \ {LatestOf(R)} \in G => R \in G
  PROVE  SUBSET past \subseteq G
<1> DEFINE Sizes == {Cardinality(R) : R \in (SUBSET past) \ G}
<1>1. \A R \in SUBSET past : IsFiniteSet(R) /\ Cardinality(R) \in Nat
  BY FS_Subset, FS_CardinalityType DEF Sorted
<1>2. SUFFICES ASSUME Sizes # {} PROVE FALSE
  OBVIOUS
<1>3. PICK n \in Sizes : \A m \in Sizes : n <= m
  <2>1. Sizes \subseteq Nat
    BY <1>1
  <2> HIDE DEF Sizes
  <2> QED BY <1>2, <2>1, LeastNatural
<1>4. PICK R \in (SUBSET past) \ G : n = Cardinality(R)
  BY <1>3
<1>5. R # {} /\ LatestOf(R) \in R
  BY LatestIs
<1> DEFINE S == R \ {LatestOf(R)}
<1>6. Cardinality(S) = Cardinality(R) - 1 /\ Cardinality(R) \in Nat
  BY <1>1, <1>5, FS_RemoveElement
<1>7. S \in SUBSET past /\ S \notin G
  BY <1>4, <1>5
<1>8. Cardinality(S) \in Sizes
  BY <1>7
<1> HIDE DEF S, Sizes
<1> QED BY <1>3, <1>4, <1>6, <1>8

(* The recursion that FoldedIn states has a solution.                      *)
LEMMA FoldedInDef ==
  ASSUME NEW past, Sorted(past)
  PROVE  FoldedIn(past) = [R \in SUBSET past |->
                             IF R = {} THEN [tasks |-> Empty, claims |-> Empty]
                             ELSE Grown(FoldedIn(past)[R \ {LatestOf(R)}], LatestOf(R))]
<1> DEFINE V(v) == [R \in SUBSET past |->
                      IF R = {} THEN [tasks |-> Empty, claims |-> Empty]
                      ELSE Grown(v[R \ {LatestOf(R)}], LatestOf(R))]
           N == Cardinality(past)
           Below(n) == {R \in SUBSET past : Cardinality(R) <= n}
           Partial(n, v) == /\ DOMAIN v = Below(n)
                            /\ v = [R \in DOMAIN v |-> v[R]]
                            /\ \A R \in Below(n) :
                                 v[R] = IF R = {} THEN [tasks |-> Empty, claims |-> Empty]
                                        ELSE Grown(v[R \ {LatestOf(R)}], LatestOf(R))
           Missing == {n \in 0..N : ~ \E v : Partial(n, v)}
<1>0. /\ N \in Nat
      /\ \A R \in SUBSET past : IsFiniteSet(R) /\ Cardinality(R) \in Nat
      /\ \A R \in SUBSET past : Cardinality(R) <= N
  BY FS_Subset, FS_CardinalityType DEF Sorted
<1>a. ASSUME NEW R \in SUBSET past, R # {}
      PROVE  R \ {LatestOf(R)} \in SUBSET past
             /\ Cardinality(R \ {LatestOf(R)}) = Cardinality(R) - 1
  BY <1>0, <1>a, LatestIs, FS_RemoveElement
<1>b. {} \in SUBSET past /\ Cardinality({}) = 0
  BY FS_EmptySet
<1>c. \A R \in SUBSET past : Cardinality(R) = 0 => R = {}
  BY <1>0, FS_EmptySet
<1> HIDE DEF N
<1>1. \E v : Partial(0, v)
  <2> DEFINE v == [R \in Below(0) |-> [tasks |-> Empty, claims |-> Empty]]
  <2>1. \A R \in Below(0) : R = {}
    BY <1>0, <1>c
  <2>2. Partial(0, v)
    BY <2>1
  <2> QED BY <2>2
<1>2. ASSUME NEW n \in 1..N, NEW v, Partial(n - 1, v) PROVE \E w : Partial(n, w)
  <2> DEFINE w == [R \in Below(n) |-> IF R \in Below(n - 1) THEN v[R]
                                      ELSE Grown(v[R \ {LatestOf(R)}], LatestOf(R))]
  <2>1. \A R \in Below(n) : R # {} => R \ {LatestOf(R)} \in Below(n - 1)
    BY <1>0, <1>a
  <2>2. \A R \in Below(n - 1) : R \in Below(n)
    BY <1>0
  <2>3. {} \in Below(n - 1)
    BY <1>0, <1>b
  <2> HIDE DEF Below
  <2>4. \A R \in Below(n) : w[R] = IF R = {} THEN [tasks |-> Empty, claims |-> Empty]
                                   ELSE Grown(w[R \ {LatestOf(R)}], LatestOf(R))
    <3>1. SUFFICES ASSUME NEW R \in Below(n)
                   PROVE  w[R] = IF R = {} THEN [tasks |-> Empty, claims |-> Empty]
                                   ELSE Grown(w[R \ {LatestOf(R)}], LatestOf(R))
      OBVIOUS
    <3>2. CASE R \in Below(n - 1)
      BY <1>2, <2>1, <2>2, <3>2
    <3>3. CASE R \notin Below(n - 1)
      BY <2>1, <2>2, <2>3, <3>3
    <3> QED BY <3>2, <3>3
  <2>5. Partial(n, w)
    BY <2>4
  <2> QED BY <2>5
<1>3. Missing = {}
  <2>1. SUFFICES ASSUME Missing # {} PROVE FALSE
    OBVIOUS
  <2>2. PICK n \in Missing : \A m \in Missing : n <= m
    <3>1. Missing \subseteq Nat
      BY <1>0
    <3> HIDE DEF Missing
    <3> QED BY <2>1, <3>1, LeastNatural
  <2> HIDE DEF Partial
  <2>3. n \in 1..N /\ n - 1 \notin Missing /\ n - 1 \in 0..N
    BY <1>0, <1>1, <2>2
  <2> QED BY <1>2, <2>2, <2>3
<1>4. PICK g : Partial(N, g)
  <2>1. N \in 0..N
    BY <1>0
  <2> HIDE DEF Partial
  <2> QED BY <1>3, <2>1
<1>5. Below(N) = SUBSET past
  BY <1>0
<1>6. g = V(g)
  BY <1>4, <1>5
<1>7. FoldedIn(past) = CHOOSE v : v = V(v)
  BY DEF FoldedIn
<1> HIDE DEF V
<1>8. FoldedIn(past) = V(FoldedIn(past))
  BY <1>6, <1>7
<1> QED BY <1>8 DEF V

LEMMA FoldedNone == Folded({}) = [tasks |-> Empty, claims |-> Empty]
<1>1. Sorted({})
  BY FS_EmptySet DEF Sorted
<1> QED BY <1>1, FoldedInDef DEF Folded

(* The view of some rows does not depend on the rows it is a part of.      *)
LEMMA FoldedLocal ==
  ASSUME NEW past, Sorted(past), NEW S, S \subseteq past
  PROVE  FoldedIn(past)[S] = Folded(S)
<1> DEFINE G == {R \in SUBSET S : FoldedIn(S)[R] = FoldedIn(past)[R]}
<1>1. Sorted(S)
  BY SomeRowsSorted
<1>2. {} \in G
  BY <1>1, FoldedInDef
<1>3. ASSUME NEW R \in SUBSET S, R # {}, R \ {LatestOf(R)} \in G
      PROVE  R \in G
  <2>1. FoldedIn(S)[R] = Grown(FoldedIn(S)[R \ {LatestOf(R)}], LatestOf(R))
    BY <1>1, <1>3, FoldedInDef
  <2>2. FoldedIn(past)[R] = Grown(FoldedIn(past)[R \ {LatestOf(R)}], LatestOf(R))
    BY <1>3, FoldedInDef
  <2>3. FoldedIn(S)[R \ {LatestOf(R)}] = FoldedIn(past)[R \ {LatestOf(R)}]
    BY <1>3
  <2> QED BY <2>1, <2>2, <2>3
<1> HIDE DEF G
<1>4. SUBSET S \subseteq G
  BY <1>1, <1>2, <1>3, RowInduction
<1> QED BY <1>4 DEF G, Folded

(* The view of rows is that of all but the last, grown by the last.        *)
LEMMA FoldedStep ==
  ASSUME NEW past, Sorted(past), past # {}
  PROVE  Folded(past) = Grown(Folded(past \ {LatestOf(past)}), LatestOf(past))
<1>1. FoldedIn(past)[past] = Grown(FoldedIn(past)[past \ {LatestOf(past)}], LatestOf(past))
  BY FoldedInDef
<1>2. FoldedIn(past)[past \ {LatestOf(past)}] = Folded(past \ {LatestOf(past)})
  BY FoldedLocal
<1> QED BY <1>1, <1>2 DEF Folded

(* A row later than some grows their view.                                 *)
LEMMA FoldedGrows ==
  ASSUME NEW past, NEW e, e \notin past, Sorted(past \cup {e}),
         \A f \in past : Precedes(f, e)
  PROVE  Folded(past \cup {e}) = Grown(Folded(past), e)
<1> DEFINE S == past \cup {e}
<1>1. e \in S /\ S \ {e} = past /\ (\A f \in S : f = e \/ Precedes(f, e)) /\ Sorted(S) /\ S # {}
  OBVIOUS
<1> HIDE DEF S
<1>2. LatestOf(S) = e
  BY <1>1, LatestUnique
<1> QED BY <1>1, <1>2, FoldedStep DEF S

(* The recursion that Extracting states has a solution.                    *)
LEMMA ExtractingDef ==
  ASSUME NEW st, NEW past, Sorted(past)
  PROVE  /\ Extracting(st, past)[{}] = st
         /\ \A R \in SUBSET past : R # {} =>
              Extracting(st, past)[R]
                = ExtractNote(Extracting(st, past)[R \ {LatestOf(R)}], LatestOf(R))
<1> DEFINE V(v) == [R \in SUBSET past |->
                      IF R = {} THEN st
                      ELSE ExtractNote(v[R \ {LatestOf(R)}], LatestOf(R))]
           N == Cardinality(past)
           Below(n) == {R \in SUBSET past : Cardinality(R) <= n}
           Partial(n, v) == /\ DOMAIN v = Below(n)
                            /\ v = [R \in DOMAIN v |-> v[R]]
                            /\ \A R \in Below(n) :
                                 v[R] = IF R = {} THEN st
                                        ELSE ExtractNote(v[R \ {LatestOf(R)}], LatestOf(R))
           Missing == {n \in 0..N : ~ \E v : Partial(n, v)}
<1>0. /\ N \in Nat
      /\ \A R \in SUBSET past : IsFiniteSet(R) /\ Cardinality(R) \in Nat
      /\ \A R \in SUBSET past : Cardinality(R) <= N
  BY FS_Subset, FS_CardinalityType DEF Sorted
<1>a. ASSUME NEW R \in SUBSET past, R # {}
      PROVE  R \ {LatestOf(R)} \in SUBSET past
             /\ Cardinality(R \ {LatestOf(R)}) = Cardinality(R) - 1
  BY <1>0, <1>a, LatestIs, FS_RemoveElement
<1>b. {} \in SUBSET past /\ Cardinality({}) = 0
  BY FS_EmptySet
<1>c. \A R \in SUBSET past : Cardinality(R) = 0 => R = {}
  BY <1>0, FS_EmptySet
<1> HIDE DEF N
<1>1. \E v : Partial(0, v)
  <2> DEFINE v == [R \in Below(0) |-> st]
  <2>1. \A R \in Below(0) : R = {}
    BY <1>0, <1>c
  <2>2. Partial(0, v)
    BY <2>1
  <2> QED BY <2>2
<1>2. ASSUME NEW n \in 1..N, NEW v, Partial(n - 1, v) PROVE \E w : Partial(n, w)
  <2> DEFINE w == [R \in Below(n) |-> IF R \in Below(n - 1) THEN v[R]
                                      ELSE ExtractNote(v[R \ {LatestOf(R)}], LatestOf(R))]
  <2>1. \A R \in Below(n) : R # {} => R \ {LatestOf(R)} \in Below(n - 1)
    BY <1>0, <1>a
  <2>2. \A R \in Below(n - 1) : R \in Below(n)
    BY <1>0
  <2>3. {} \in Below(n - 1)
    BY <1>0, <1>b
  <2> HIDE DEF Below
  <2>4. \A R \in Below(n) : w[R] = IF R = {} THEN st
                                   ELSE ExtractNote(w[R \ {LatestOf(R)}], LatestOf(R))
    <3>1. SUFFICES ASSUME NEW R \in Below(n)
                   PROVE  w[R] = IF R = {} THEN st
                                 ELSE ExtractNote(w[R \ {LatestOf(R)}], LatestOf(R))
      OBVIOUS
    <3>2. CASE R \in Below(n - 1)
      BY <1>2, <2>1, <2>2, <3>2
    <3>3. CASE R \notin Below(n - 1)
      BY <2>1, <2>2, <2>3, <3>3
    <3> QED BY <3>2, <3>3
  <2>5. Partial(n, w)
    BY <2>4
  <2> QED BY <2>5
<1>3. Missing = {}
  <2>1. SUFFICES ASSUME Missing # {} PROVE FALSE
    OBVIOUS
  <2>2. PICK n \in Missing : \A m \in Missing : n <= m
    <3>1. Missing \subseteq Nat
      BY <1>0
    <3> HIDE DEF Missing
    <3> QED BY <2>1, <3>1, LeastNatural
  <2> HIDE DEF Partial
  <2>3. n \in 1..N /\ n - 1 \notin Missing /\ n - 1 \in 0..N
    BY <1>0, <1>1, <2>2
  <2> QED BY <1>2, <2>2, <2>3
<1>4. PICK g : Partial(N, g)
  <2>1. N \in 0..N
    BY <1>0
  <2> HIDE DEF Partial
  <2> QED BY <1>3, <2>1
<1>5. Below(N) = SUBSET past
  BY <1>0
<1>6. g = V(g)
  BY <1>4, <1>5
<1>7. Extracting(st, past) = CHOOSE v : v = V(v)
  BY DEF Extracting
<1> HIDE DEF V
<1>8. Extracting(st, past) = V(Extracting(st, past))
  BY <1>6, <1>7
<1> DEFINE E == Extracting(st, past)
<1>9. E = V(E)
  BY <1>8
<1> HIDE DEF E
<1>10. \A R \in SUBSET past : E[R] = IF R = {} THEN st
                                     ELSE ExtractNote(E[R \ {LatestOf(R)}], LatestOf(R))
  BY <1>9 DEF V
<1> QED BY <1>10, <1>b DEF E

(* The recursion that Accepting states has a solution.                     *)
LEMMA AcceptingDef ==
  ASSUME NEW st, NEW drafts, Len(drafts) \in Nat, NEW task
  PROVE  /\ Accepting(st, drafts, task)[0] = st
         /\ \A n \in 1..Len(drafts) :
              Accepting(st, drafts, task)[n]
                = Accept(Accepting(st, drafts, task)[n - 1], drafts[n], task)
<1> DEFINE F(f) == [n \in 0..Len(drafts) |->
                      IF n = 0 THEN st ELSE Accept(f[n - 1], drafts[n], task)]
           One(f, n) == IF n = 0 THEN st ELSE Accept(f[n - 1], drafts[n], task)
           Partial(n, f) == f = [m \in 0..n |-> One(f, m)]
           T == {n \in 0..Len(drafts) : \E f : Partial(n, f)}
<1>1. 0 \in T
  <2> DEFINE f == [m \in 0..0 |-> st]
  <2>1. Partial(0, f) /\ 0 \in 0..Len(drafts)
    OBVIOUS
  <2> HIDE DEF Partial
  <2> QED BY <2>1
<1>2. ASSUME NEW n \in 1..Len(drafts), n - 1 \in T PROVE n \in T
  <2>1. PICK f : Partial(n - 1, f)
    BY <1>2
  <2> DEFINE g == [m \in 0..n |-> IF m = n THEN One(f, n) ELSE f[m]]
  <2>2. \A m \in 0..n : g[m] = One(g, m)
    <3>1. SUFFICES ASSUME NEW m \in 0..n PROVE g[m] = One(g, m)
      OBVIOUS
    <3>2. m # 0 => m - 1 \in 0..(n - 1) /\ g[m - 1] = f[m - 1]
      OBVIOUS
    <3>3. One(g, m) = One(f, m)
      BY <3>2
    <3>4. m # n => m \in 0..(n - 1) /\ f[m] = One(f, m)
      <4> HIDE DEF One
      <4> QED BY <2>1
    <3> HIDE DEF One
    <3> QED BY <3>3, <3>4
  <2>3. Partial(n, g)
    <3> HIDE DEF One
    <3>1. DOMAIN g = 0..n /\ g = [m \in 0..n |-> g[m]]
      OBVIOUS
    <3> HIDE DEF g
    <3> QED BY <2>2, <3>1
  <2>4. n \in 0..Len(drafts)
    OBVIOUS
  <2> HIDE DEF Partial
  <2> QED BY <2>3, <2>4
<1>3. Len(drafts) \in T
  <2>1. Len(drafts) \in 0..Len(drafts)
    OBVIOUS
  <2> HIDE DEF T
  <2> QED BY <1>1, <1>2, <2>1, UpTo
<1>4. PICK f : f = F(f)
  BY <1>3
<1>5. Accepting(st, drafts, task) = CHOOSE g : g = F(g)
  BY DEF Accepting
<1> HIDE DEF F
<1>6. Accepting(st, drafts, task) = F(Accepting(st, drafts, task))
  BY <1>4, <1>5
<1> DEFINE after == Accepting(st, drafts, task)
<1>7. after = F(after)
  BY <1>6
<1> HIDE DEF after
<1>8. \A n \in 0..Len(drafts) : after[n] = One(after, n)
  BY <1>7 DEF F
<1>9. 0 \in 0..Len(drafts) /\ \A n \in 1..Len(drafts) : n \in 0..Len(drafts) /\ n # 0
  OBVIOUS
<1>10. after[0] = st /\ \A n \in 1..Len(drafts) : after[n] = Accept(after[n - 1], drafts[n], task)
  BY <1>8, <1>9
<1> QED BY <1>10 DEF after

-----------------------------------------------------------------------------
(* The rows of the log.                                                    *)

SaidRow ==
  {m \in [id : Note, ts : Nat, source : {"note"}, session : {"A", "B"},
          role : {"", "conclusion", "retract", "update"}, speech : BOOLEAN,
          support : Run \cup {NONE}, quotes : Text \cup Command \cup {NONE},
          says : Seq(Sentence)] :
     Len(m.says) <= MAX_SENTENCES /\ (m.role = "" => m.says # <<>>)}

(* No person writes a next action, and no claim somebody makes is about a  *)
(* command the way the projector's are.                                    *)
Modest(b) == /\ b.origin = "user" => b.kind # "next_action"
             /\ b.subject \notin Command

AskedRow == {e \in Pending : Modest(e.body)}

(* An extracted row cites the note it is taken from: it says what one of   *)
(* its sentences says, or withdraws a claim whose text the note quotes.    *)
Quotes(past, e) ==
  /\ e \in Written /\ Extracted(e) /\ Modest(e.body)
  /\ e.id[1] \in e.body.evidence
  /\ \E m \in past :
       /\ m.source = "note" /\ m.id = e.id[1] /\ Precedes(m, e)
       /\ \/ /\ e.body.op = "assert" /\ e.body.claim_id = <<"authored", e.id>>
             /\ e.body.supersedes = NONE
             /\ e.id[2] \in DOMAIN m.says /\ e.body.text = m.says[e.id[2]].text
          \/ /\ e.body.op = "supersede"
             /\ \E f \in past : /\ Precedes(f, e)
                                /\ f.source = "claim" /\ f.body.op = "assert"
                                /\ f.body.claim_id = e.body.supersedes
                                /\ f.body.text = m.quotes

Lawful(past) ==
  /\ Sorted(past)
  /\ \A e, f \in past : e.id = f.id /\ ~Extracted(e) => e = f
  /\ \A e \in past : e \in ToolRow \cup SaidRow \cup AskedRow \/ Quotes(past, e)

LEMMA SourcesOf ==
  /\ \A e \in ToolRow : e.source = "shell" /\ e.id \in Run /\ e.ts \in Nat
                        /\ e.command \in Command /\ ~Extracted(e)
  /\ \A e \in SaidRow : e.source = "note" /\ e.id \in Note /\ e.ts \in Nat /\ ~Extracted(e)
  /\ \A e \in AskedRow : e.source = "claim" /\ e.id \in Request /\ ~Extracted(e)
                         /\ e \in Written
  /\ \A past, e : Quotes(past, e) => e.source = "claim" /\ e \in Written
<1>1. \A e \in Pending : e.source = "claim" /\ e.id \in Request /\ e \in Written
  BY RequestsAreWritten DEF Pending, ClaimRow
<1>2. \A e \in Written : e.source = "claim"
  BY DEF Written, ClaimRow
<1> QED BY <1>1, <1>2, HandoffAssumption
     DEF ToolRow, SaidRow, AskedRow, Quotes, Extracted

(* Which of the four a row is, from its source.                            *)
LEMMA KindOf ==
  ASSUME NEW past, Lawful(past), NEW e \in past
  PROVE  /\ e.source \in {"shell", "note", "claim"}
         /\ e.source = "shell" => e \in ToolRow
         /\ e.source = "note" => e \in SaidRow
         /\ e.source = "claim" => e \in Written /\ Modest(e.body)
                                  /\ (e \in AskedRow \/ Quotes(past, e))
         /\ Extracted(e) => Quotes(past, e)
<1>1. e \in ToolRow \cup SaidRow \cup AskedRow \/ Quotes(past, e)
  BY DEF Lawful
<1>2. CASE e \in ToolRow
  BY <1>2, SourcesOf
<1>3. CASE e \in SaidRow
  BY <1>3, SourcesOf
<1>4. CASE e \in AskedRow
  BY <1>4, SourcesOf DEF AskedRow
<1>5. CASE Quotes(past, e)
  BY <1>5, SourcesOf DEF Quotes
<1> QED BY <1>1, <1>2, <1>3, <1>4, <1>5

LEMMA NamedRow ==
  ASSUME NEW past, Lawful(past), NEW e \in past, ~Extracted(e)
  PROVE  RowById(past, e.id) = e
<1>1. RowById(past, e.id) \in past /\ RowById(past, e.id).id = e.id
  BY DEF RowById
<1> QED BY <1>1 DEF Lawful, Extracted

(* An assertion's claim is named after it, so a claim has one text.        *)
LEMMA OneText ==
  ASSUME NEW past, Lawful(past), NEW e \in ClaimRows(past), NEW f \in ClaimRows(past),
         e.body.op = "assert", f.body.op = "assert", e.body.claim_id = f.body.claim_id
  PROVE  e.body.text = f.body.text
<1>1. /\ e \in past /\ f \in past
      /\ e \in AskedRow \/ Quotes(past, e)
      /\ f \in AskedRow \/ Quotes(past, f)
  BY KindOf DEF ClaimRows
<1>2. ASSUME NEW g \in {e, f} PROVE g.body.claim_id = <<"authored", g.id>>
  <2>1. g \in AskedRow \/ Quotes(past, g)
    BY <1>1
  <2>2. g.body.op = "assert" /\ g.body.op # "supersede"
    OBVIOUS
  <2> QED BY <2>1, <2>2 DEF AskedRow, Pending, Quotes
<1>3. e.id = f.id
  BY <1>2
<1>4. CASE ~Extracted(e)
  BY <1>1, <1>3, <1>4 DEF Lawful
<1>5. CASE Extracted(e)
  <2>1. Quotes(past, e) /\ Quotes(past, f) /\ e.body.op # "supersede" /\ f.body.op # "supersede"
    BY <1>1, <1>3, <1>5, KindOf DEF Extracted
  <2>2. PICK m \in past : m.source = "note" /\ m.id = e.id[1] /\ e.body.text = m.says[e.id[2]].text
    BY <2>1 DEF Quotes
  <2>3. PICK n \in past : n.source = "note" /\ n.id = f.id[1] /\ f.body.text = n.says[f.id[2]].text
    BY <2>1 DEF Quotes
  <2>4. m = n
    <3>1. ~Extracted(m)
      BY <2>2, KindOf, SourcesOf
    <3> QED BY <1>3, <2>2, <2>3, <3>1 DEF Lawful
  <2> QED BY <1>3, <2>2, <2>3, <2>4
<1> QED BY <1>4, <1>5

-----------------------------------------------------------------------------
(* What the fold of the log's rows makes of the claims people made.        *)

(* The row as the fold reads it.                                           *)
Bare(e) == [id |-> e.id, ts |-> e.ts, source |-> "shell", command |-> e.command,
            exit_code |-> e.exit_code]

LEMMA BareFolds ==
  ASSUME NEW e \in ToolRow, NEW c, NEW t
  PROVE  /\ Bare(e) \in ShellEvent
         /\ Folds(e) <=> Folds(Bare(e))
         /\ FoldClaims(c, e) = FoldClaims(c, Bare(e))
         /\ FoldTasks(t, e) = FoldTasks(t, Bare(e))
<1> DEFINE g == Bare(e)
<1>1. /\ g.id = e.id /\ g.ts = e.ts /\ g.source = e.source /\ g.source = "shell"
      /\ g.command = e.command /\ g.exit_code = e.exit_code
  BY DEF Bare, ToolRow
<1>2. g \in ShellEvent
  BY RequestsAssumption DEF Bare, ToolRow, ShellEvent, ShellRow
<1> HIDE DEF g
<1>3. Folds(e) <=> Folds(g)
  BY <1>1 DEF Folds
<1>4. EnsureProjectorFrontier(c, e) = EnsureProjectorFrontier(c, g)
      /\ SupersedeProjectorFrontier(c, e) = SupersedeProjectorFrontier(c, g)
  BY <1>1 DEF EnsureProjectorFrontier, SupersedeProjectorFrontier
<1>5. FoldShell(c, e) = FoldShell(c, g)
  BY <1>1 DEF FoldShell, EnsureProjectorFrontier, SupersedeProjectorFrontier
<1>6. FoldClaims(c, e) = FoldClaims(c, g)
  BY <1>1, <1>3, <1>5 DEF FoldClaims
<1>7. FoldTasks(t, e) = FoldTasks(t, g)
  BY <1>1, <1>3 DEF FoldTasks
<1> QED BY <1>2, <1>3, <1>6, <1>7 DEF g

(* The claims people made are in d as they are in c.                       *)
Left(c, d) == \A j \in DOMAIN d : d[j].origin # "projector" => j \in DOMAIN c /\ d[j] = c[j]

LEMMA LeftByPut ==
  ASSUME NEW c, NEW k, NEW v, v.origin = "projector"
  PROVE  Left(c, Put(c, k, v))
BY DEF Left, Put

LEMMA LeftBySupersede ==
  ASSUME NEW c, ClaimMap(c), NEW task, NEW kind, NEW subject, NEW ts \in Nat,
         LET i == Occupant(c, task, kind, subject) IN i # NONE => c[i].origin = "projector"
  PROVE  Left(c, SupersedeSlot(c, task, kind, subject, ts))
<1> DEFINE i == Occupant(c, task, kind, subject)
           d == SupersedeSlot(c, task, kind, subject, ts)
<1>1. CASE i = NONE
  BY <1>1 DEF SupersedeSlot, Left
<1>2. CASE i # NONE
  <2>1. i \in DOMAIN c /\ c[i].origin = "projector"
    BY <1>2, OccupantType DEF CurrentSlot
  <2>2. d = SupersedeClaim(c, i, ts)
    BY <1>2 DEF SupersedeSlot
  <2>3. Step(c, d, {}, {i})
    BY <2>2, SupersedeClaimStep
  <2>4. \A j \in DOMAIN c : j # i => d[j] = c[j]
    <3>1. d = [c EXCEPT ![i].status = "superseded", ![i].updated_at = ts]
      BY <2>1, <2>2 DEF SupersedeClaim
    <3> HIDE DEF d, i
    <3> QED BY <3>1, Zenon
  <2> HIDE DEF d, i
  <2>5. DOMAIN d = DOMAIN c /\ d[i].origin = "projector"
    BY <2>1, <2>3 DEF Step, Same
  <2> QED BY <2>4, <2>5 DEF Left, d
<1> QED BY <1>1, <1>2

LEMMA LeftTwice ==
  ASSUME NEW c, NEW d, NEW e, Left(c, d), Left(d, e)
  PROVE  Left(c, e)
BY DEF Left

LEMMA ShellLeaves ==
  ASSUME NEW c, ClaimMap(c), NEW e \in ShellRow,
         \A j \in DOMAIN c : c[j].origin # "projector" /\ c[j].kind = "reality"
                               => c[j].subject \notin Command
  PROVE  Left(c, FoldShell(c, e))
<1> DEFINE i == Occupant(c, e.command, "reality", e.command)
           k == <<"reality", e.id>>
           b == SupersedeSlot(c, e.command, "reality", e.command, e.ts)
           v == [task_id |-> e.command, kind |-> "reality",
                 subject |-> e.command, status |-> "current",
                 confidence |-> "observed", origin |-> "projector",
                 text |-> NONE, outcome |-> e.exit_code, evidence |-> {e.id},
                 supersedes |-> i, updated_at |-> e.ts]
           t == Put(b, k, v)
           n == Occupant(t, e.command, "next_action", FRONTIER_SUBJECT)
           u == SupersedeSlot(t, e.command, "next_action", FRONTIER_SUBJECT, e.ts)
<1>1. FoldShell(c, e) = IF e.exit_code # 0 THEN EnsureProjectorFrontier(t, e)
                        ELSE SupersedeProjectorFrontier(t, e)
  BY DEF FoldShell
<1>2. e.command \in Command /\ e.ts \in Nat /\ e.id \in EventId
  BY DEF ShellRow
<1>3. i # NONE => c[i].origin = "projector"
  BY <1>2, OccupantType DEF CurrentSlot
<1>4. Left(c, b)
  BY <1>2, <1>3, LeftBySupersede
<1>5. ClaimMap(t)
  <2>1. ClaimMap(b) /\ i \in ClaimId \cup {NONE} /\ k \in ClaimId
    BY <1>2, SupersedeSlotStep, OccupantType DEF ClaimId
  <2>2. v \in Claim
    BY <2>1 DEF Claim, ShellRow, TaskId, Subject, ClaimKind, ClaimConfidence, ClaimOrigin
  <2> HIDE DEF v, b, i, k
  <2> QED BY <2>1, <2>2, PutClaim
<1>6. Left(b, t)
  <2>1. v.origin = "projector"
    OBVIOUS
  <2> HIDE DEF v, b, k
  <2> QED BY <2>1, LeftByPut
<1> HIDE DEF t
<1>7. ASSUME n # NONE => t[n].origin = "projector"
      PROVE  Left(t, u)
  BY <1>2, <1>5, <1>7, LeftBySupersede
<1>8. Left(t, EnsureProjectorFrontier(t, e))
  <2> DEFINE w == [task_id |-> e.command, kind |-> "next_action",
                   subject |-> FRONTIER_SUBJECT, status |-> "current",
                   confidence |-> "inferred", origin |-> "projector",
                   text |-> NONE, outcome |-> NONE, evidence |-> {e.id},
                   supersedes |-> n, updated_at |-> e.ts]
  <2>1. CASE n # NONE /\ t[n].origin # "projector"
    BY <2>1 DEF EnsureProjectorFrontier, Left
  <2>2. CASE ~(n # NONE /\ t[n].origin # "projector")
    <3>1. EnsureProjectorFrontier(t, e) = Put(u, <<"frontier", e.id>>, w)
      BY <2>2 DEF EnsureProjectorFrontier
    <3>2. w.origin = "projector"
      OBVIOUS
    <3>3. Left(t, u)
      BY <1>7, <2>2
    <3> HIDE DEF w, u
    <3>4. Left(u, Put(u, <<"frontier", e.id>>, w))
      BY <3>2, LeftByPut
    <3> QED BY <3>1, <3>3, <3>4, LeftTwice
  <2> QED BY <2>1, <2>2
<1>9. Left(t, SupersedeProjectorFrontier(t, e))
  <2>1. CASE n # NONE /\ t[n].origin = "projector"
    <3>1. SupersedeProjectorFrontier(t, e) = u
      BY <2>1 DEF SupersedeProjectorFrontier, SupersedeSlot
    <3> QED BY <1>7, <2>1, <3>1
  <2>2. CASE ~(n # NONE /\ t[n].origin = "projector")
    BY <2>2 DEF SupersedeProjectorFrontier, Left
  <2> QED BY <2>1, <2>2
<1> HIDE DEF b
<1> QED BY <1>1, <1>4, <1>6, <1>8, <1>9, LeftTwice

(* What is true of a view of some of the log: people's claims have their   *)
(* rows, and are superseded for a reason.                                  *)
HasReason(past, roster) ==
  \A i \in DOMAIN roster :
    roster[i].origin # "projector" /\ roster[i].status = "superseded"
      => Reasons(past, i, roster[i]) # {}

Told(past, roster) ==
  /\ ClaimMap(roster) /\ IsFiniteSet(DOMAIN roster)
  /\ HasReason(past, roster)
  /\ \A i \in DOMAIN roster : roster[i].origin # "projector" =>
       /\ roster[i].origin = "user" => roster[i].kind # "next_action"
       /\ roster[i].subject \notin Command
       /\ \E f \in ClaimRows(past) : /\ f.body.op = "assert" /\ f.body.claim_id = i
                                     /\ f.body.text = roster[i].text

LEMMA FiniteStep ==
  ASSUME NEW c, IsFiniteSet(DOMAIN c), NEW d, NEW e, NEW A, NEW R,
         Step(c, d, A, R), A \subseteq Asserts(e)
  PROVE  IsFiniteSet(DOMAIN d)
<1>1. ASSUME NEW x, NEW y PROVE IsFiniteSet({x, y})
  <2>1. IsFiniteSet({x} \cup {y})
    BY FS_Singleton, FS_AddElement
  <2>2. {x, y} = {x} \cup {y}
    OBVIOUS
  <2> QED BY <2>1, <2>2
<1>2. Asserts(e) \subseteq {<<"reality", e.id>>, <<"frontier", e.id>>} \/ Asserts(e) \subseteq {e.body.claim_id, e.body.claim_id}
  BY DEF Asserts
<1>3. IsFiniteSet(A)
  <2>1. IsFiniteSet(Asserts(e))
    BY <1>1, <1>2, FS_Subset
  <2> QED BY <2>1, FS_Subset
<1>4. DOMAIN d = DOMAIN c \cup A
  BY DEF Step
<1>5. IsFiniteSet(DOMAIN c \cup A)
  BY <1>3, FS_Union
<1> QED BY <1>4, <1>5

LEMMA ShellTells ==
  ASSUME NEW past, Lawful(past), NEW c, Told(past, c), NEW e \in ToolRow
  PROVE  Told(past, FoldClaims(c, e))
<1> DEFINE g == Bare(e)
           d == FoldClaims(c, e)
<1>1. /\ g \in ShellEvent /\ g \in ShellRow /\ g.source = "shell" /\ g.source # "claim"
      /\ d = FoldClaims(c, g)
  BY BareFolds DEF ShellEvent, ShellRow
<1>2. CASE ~Folds(g)
  BY <1>1, <1>2 DEF FoldClaims
<1>3. CASE Folds(g)
  <2>1. d = FoldShell(c, g)
    BY <1>1, <1>3 DEF FoldClaims
  <2>2. Left(c, d)
    BY <1>1, <2>1, ShellLeaves DEF Told
  <2>3. FoldEffect(c, d, g)
    BY <1>1, <1>3, RowEffect DEF Told
  <2> HIDE DEF g, d
  <2>4. ClaimMap(d)
    BY <2>3 DEF FoldEffect
  <2>5. IsFiniteSet(DOMAIN d)
    <3>1. PICK A, R : Step(c, d, A, R) /\ A \subseteq Asserts(g)
      BY <2>3 DEF FoldEffect
    <3> QED BY <3>1, FiniteStep DEF Told
  <2>6. \A i \in DOMAIN d : d[i].origin # "projector" => i \in DOMAIN c /\ d[i] = c[i]
    BY <2>2 DEF Left
  <2>7. HasReason(past, d)
    BY <2>6 DEF Told, HasReason
  <2>8. \A i \in DOMAIN d : d[i].origin # "projector" =>
          /\ d[i].origin = "user" => d[i].kind # "next_action"
          /\ d[i].subject \notin Command
          /\ \E f \in ClaimRows(past) : /\ f.body.op = "assert" /\ f.body.claim_id = i
                                        /\ f.body.text = d[i].text
    BY <2>6 DEF Told
  <2> QED BY <2>4, <2>5, <2>7, <2>8 DEF Told, d
<1> QED BY <1>2, <1>3

(* A retirement a row causes is a reason.                                  *)
LEMMA CausesAreReasons ==
  ASSUME NEW past, Lawful(past), NEW c, Told(past, c), NEW e \in ClaimRows(past),
         NEW i \in DOMAIN c, c[i].origin # "projector", Caused(c, e, i),
         e.body.op = "assert" => e.body.claim_id # i,
         NEW a, Same(a, c[i])
  PROVE  e \in Reasons(past, i, a)
<1>1. e \in past /\ e.source = "claim" /\ e.source # "shell"
  BY DEF ClaimRows
<1>2. e \in Written /\ (e \in AskedRow \/ Quotes(past, e)) /\ (Extracted(e) => Quotes(past, e))
  BY <1>1, KindOf
<1>3. /\ i \in ClaimId /\ i # NONE
      /\ e.body.op = "supersede" => e.body.supersedes \in ClaimId /\ e.body.supersedes # NONE
  BY <1>2, NoneIsNoClaim DEF Told, ClaimMap, Written
<1>4. CASE Target(e.body) = i
  <2>1. e.body.supersedes = i
    BY <1>3, <1>4 DEF Target
  <2>2. ASSUME Extracted(e) PROVE RowById(past, e.id[1]).quotes = TextOf(a)
    <3>1. Quotes(past, e) /\ e.body.supersedes # NONE
      BY <1>2, <1>3, <2>1, <2>2
    <3>2. PICK m \in past : /\ m.source = "note" /\ m.id = e.id[1]
                            /\ \E f \in past : /\ f.source = "claim" /\ f.body.op = "assert"
                                               /\ f.body.claim_id = e.body.supersedes
                                               /\ f.body.text = m.quotes
      BY <3>1 DEF Quotes
    <3>3. PICK f \in past : /\ f.source = "claim" /\ f.body.op = "assert"
                            /\ f.body.claim_id = i /\ f.body.text = m.quotes
      BY <2>1, <3>2
    <3>4. PICK g \in ClaimRows(past) : /\ g.body.op = "assert" /\ g.body.claim_id = i
                                       /\ g.body.text = c[i].text
      BY DEF Told
    <3>5. f \in ClaimRows(past)
      BY <3>3 DEF ClaimRows
    <3>6. m.quotes = c[i].text
      BY <3>3, <3>4, <3>5, OneText
    <3>7. RowById(past, e.id[1]) = m
      <4>1. ~Extracted(m)
        BY <3>2, KindOf, SourcesOf
      <4> QED BY <3>2, <4>1, NamedRow
    <3>8. TextOf(a) = c[i].text
      BY DEF TextOf, Same
    <3> QED BY <3>6, <3>7, <3>8
  <2> QED BY <2>1, <2>2 DEF Reasons
<1>5. CASE Target(e.body) # i
  <2>1. /\ e.body.kind \in UniqueSlot /\ c[i].kind = e.body.kind
        /\ c[i].task_id = e.body.task_id /\ c[i].subject = e.body.subject
    BY <1>1, <1>5 DEF Caused
  <2>2. e.body.kind # NONE
    BY <2>1, VocabularyAssumption DEF UniqueSlot, ClaimKind
  <2>3. e.body.op = "assert"
    BY <1>2, <2>2 DEF Written
  <2> QED BY <2>1, <2>3 DEF Reasons, Same
<1> QED BY <1>4, <1>5

LEMMA ClaimTells ==
  ASSUME NEW past, Lawful(past), NEW c, Told(past, c), NEW e \in ClaimRows(past)
  PROVE  Told(past, FoldClaims(c, e))
<1> DEFINE d == FoldClaims(c, e)
<1>1. e \in past /\ e.source = "claim" /\ e.source # "shell"
  BY DEF ClaimRows
<1>2. e \in Written /\ Modest(e.body)
  BY <1>1, KindOf
<1>3. Folds(e)
  BY <1>1 DEF Folds
<1>4. FoldEffect(c, d, e)
  BY <1>2, <1>3, RowEffect DEF Told
<1> HIDE DEF d
<1>5. PICK A, R :
        /\ Step(c, d, A, R)
        /\ A \subseteq Asserts(e)
        /\ e.source = "claim" /\ e.body.text # NONE => e.body.claim_id \in A
        /\ \A i \in A : Describes(e, i, d[i]) /\ d[i].status = "current"
        /\ \A j \in (DOMAIN c \ A) \cap R : Caused(c, e, j)
  BY <1>4 DEF FoldEffect
<1>6. ClaimMap(d)
  BY <1>4 DEF FoldEffect
<1>7. Asserts(e) \subseteq {e.body.claim_id} /\ (Asserts(e) # {} => e.body.text # NONE)
  BY <1>1 DEF Asserts
<1>8. IsFiniteSet(DOMAIN d)
  <2>1. IsFiniteSet(DOMAIN c)
    BY DEF Told
  <2> QED BY <1>5, <2>1, FiniteStep
<1>9. e.body.op = "assert" => e.body.claim_id \in A
  BY <1>1, <1>2, <1>5 DEF Written
<1>10. ASSUME NEW i \in A
       PROVE  /\ d[i].status = "current"
              /\ d[i].origin = "user" => d[i].kind # "next_action"
              /\ d[i].subject \notin Command
              /\ e.body.op = "assert" /\ e.body.claim_id = i /\ e.body.text = d[i].text
  <2>1. i = e.body.claim_id /\ e.body.text # NONE /\ d[i].status = "current" /\ AuthoredOf(e, d[i])
    BY <1>1, <1>5, <1>7 DEF Describes
  <2>2. e.body.op = "assert"
    BY <1>2, <2>1 DEF Written
  <2> QED BY <1>2, <2>1, <2>2 DEF AuthoredOf, Modest
<1>11. ASSUME NEW i \in DOMAIN d \ A
       PROVE  i \in DOMAIN c /\ Same(d[i], c[i])
              /\ d[i].status = IF i \in R THEN "superseded" ELSE c[i].status
  BY <1>5 DEF Step
<1>12. ASSUME NEW i \in DOMAIN d, d[i].origin # "projector", d[i].status = "superseded"
       PROVE  Reasons(past, i, d[i]) # {}
  <2>1. i \notin A /\ i \in DOMAIN c /\ Same(d[i], c[i]) /\ c[i].origin # "projector"
    BY <1>10, <1>11, <1>12 DEF Same
  <2>2. CASE i \in R
    <3>1. Caused(c, e, i) /\ (e.body.op = "assert" => e.body.claim_id # i)
      BY <1>5, <1>9, <2>1, <2>2
    <3> QED BY <2>1, <3>1, CausesAreReasons
  <2>3. CASE i \notin R
    <3>1. c[i].status = "superseded"
      BY <1>11, <1>12, <2>1, <2>3
    <3>2. Reasons(past, i, c[i]) # {}
      BY <2>1, <3>1 DEF Told, HasReason
    <3>3. Reasons(past, i, d[i]) = Reasons(past, i, c[i])
      <4>1. TextOf(d[i]) = TextOf(c[i]) /\ d[i].kind = c[i].kind /\ d[i].subject = c[i].subject
        BY <2>1 DEF TextOf, Same
      <4> QED BY <4>1 DEF Reasons
    <3> QED BY <3>2, <3>3
  <2> QED BY <2>2, <2>3
<1>13. HasReason(past, d)
  BY <1>12 DEF HasReason
<1>14. ASSUME NEW i \in DOMAIN d, d[i].origin # "projector"
       PROVE  /\ d[i].origin = "user" => d[i].kind # "next_action"
              /\ d[i].subject \notin Command
              /\ \E f \in ClaimRows(past) : /\ f.body.op = "assert" /\ f.body.claim_id = i
                                            /\ f.body.text = d[i].text
  <2>1. CASE i \in A
    BY <1>10, <2>1
  <2>2. CASE i \notin A
    <3>1. i \in DOMAIN c /\ Same(d[i], c[i])
      BY <1>11, <2>2
    <3>2. /\ c[i].origin # "projector" /\ d[i].origin = c[i].origin /\ d[i].kind = c[i].kind
          /\ d[i].subject = c[i].subject /\ d[i].text = c[i].text
      BY <1>14, <3>1 DEF Same
    <3>3. /\ c[i].origin = "user" => c[i].kind # "next_action"
          /\ c[i].subject \notin Command
          /\ \E f \in ClaimRows(past) : /\ f.body.op = "assert" /\ f.body.claim_id = i
                                        /\ f.body.text = c[i].text
      BY <3>1, <3>2 DEF Told
    <3> QED BY <3>2, <3>3
  <2> QED BY <2>1, <2>2
<1> QED BY <1>6, <1>8, <1>13, <1>14 DEF Told, d

(* The view of any rows of the log, and what is true of it.                *)
LEMMA ViewTells ==
  ASSUME NEW past, Lawful(past), NEW S, S \subseteq FoldRows(past)
  PROVE  Told(past, Folded(S).claims) /\ TaskMap(Folded(S).tasks)
<1> DEFINE G == {R \in SUBSET S : Told(past, Folded(R).claims) /\ TaskMap(Folded(R).tasks)}
<1>1. S \subseteq past /\ Sorted(past) /\ Sorted(S)
  <2>1. S \subseteq past /\ Sorted(past)
    BY DEF FoldRows, Lawful
  <2> QED BY <2>1, SomeRowsSorted
<1>2. {} \in G
  <2>1. Told(past, Empty)
    <3>1. DOMAIN Empty = {}
      BY DEF Empty
    <3> QED BY <3>1, EmptyMaps, FS_EmptySet DEF Told, HasReason
  <2> QED BY <2>1, FoldedNone, EmptyMaps
<1>3. ASSUME NEW R \in SUBSET S, R # {}, R \ {LatestOf(R)} \in G
      PROVE  R \in G
  <2> DEFINE e == LatestOf(R)
             Q == R \ {e}
  <2>1. e \in R /\ Sorted(R)
    BY <1>1, <1>3, LatestIs, SomeRowsSorted
  <2>2. Folded(R) = Grown(Folded(Q), e)
    BY <1>3, <2>1, FoldedStep
  <2>3. e \in past /\ e.source # "note"
    BY <1>1, <2>1 DEF FoldRows
  <2>4. Told(past, Folded(Q).claims) /\ TaskMap(Folded(Q).tasks)
    BY <1>3
  <2>5. e \in ToolRow \/ (e \in ClaimRows(past) /\ e \in Written)
    BY <2>3, KindOf DEF ClaimRows
  <2> HIDE DEF e, Q, G
  <2>6. Told(past, FoldClaims(Folded(Q).claims, e))
    BY <2>4, <2>5, ShellTells, ClaimTells
  <2>7. TaskMap(FoldTasks(Folded(Q).tasks, e))
    <3>1. CASE e \in ToolRow
      <4>1. Bare(e) \in ShellEvent /\ FoldTasks(Folded(Q).tasks, e) = FoldTasks(Folded(Q).tasks, Bare(e))
        BY <3>1, BareFolds
      <4> QED BY <2>4, <4>1, RowTasks
    <3>2. CASE e \in Written
      BY <2>4, <3>2, RowTasks
    <3> QED BY <2>5, <3>1, <3>2
  <2> QED BY <2>2, <2>6, <2>7 DEF Grown, G
<1> HIDE DEF G
<1>4. SUBSET S \subseteq G
  BY <1>1, <1>2, <1>3, RowInduction
<1>5. S \in G
  BY <1>4
<1> QED BY <1>5 DEF G

-----------------------------------------------------------------------------
(* A run of apply_extraction.                                              *)

Queued(s) == {s[k] : k \in 1..Len(s)}

Increasing(s) == \A i, j \in 1..Len(s) : i < j => Precedes(s[i], s[j])

(* The log it extends is the one it was given with what it queued, which   *)
(* comes after; its claims are the view of that log.                       *)
Extends(past, st) ==
  /\ st = [rows |-> st.rows, todo |-> st.todo, seen |-> st.seen, claims |-> st.claims]
  /\ Lawful(st.rows)
  /\ st.todo \in Seq(st.rows)
  /\ st.rows = past \cup Queued(st.todo)
  /\ \A e \in Queued(st.todo) : Extracted(e) /\ \A f \in past : Precedes(f, e)
  /\ Increasing(st.todo)
  /\ st.claims = Folded(FoldRows(st.rows)).claims

Running(past, st) == Extends(past, st) /\ st.seen = SeedSeen(st.rows)

LEMMA QuotesGrow ==
  ASSUME NEW past, NEW more, past \subseteq more, NEW e, Quotes(past, e)
  PROVE  Quotes(more, e)
BY DEF Quotes

LEMMA AheadOfAll ==
  ASSUME NEW past, Sorted(past), past # {}
  PROVE  StampAhead(past) \in Nat /\ \A f \in past : f.ts < StampAhead(past)
<1>1. /\ LatestOf(past) \in past
      /\ \A f \in past : f = LatestOf(past) \/ Precedes(f, LatestOf(past))
  BY LatestIs
<1>2. AHEAD \in Nat /\ AHEAD > 0
  BY HandoffAssumption
<1>3. \A f \in past : f.ts \in Nat /\ f.ts <= LatestOf(past).ts
  BY <1>1 DEF Sorted, Precedes
<1> QED BY <1>1, <1>2, <1>3 DEF StampAhead

AheadRow(past, id, body) ==
  [id |-> id, ts |-> StampAhead(past), source |-> "claim", body |-> body]

LEMMA AppendQueues ==
  ASSUME NEW S, NEW s \in Seq(S), NEW x
  PROVE  Queued(Append(s, x)) = Queued(s) \cup {x} /\ Append(s, x) \in Seq(S \cup {x})
<1> DEFINE t == Append(s, x)
<1>1. /\ Len(t) = Len(s) + 1 /\ Len(s) \in Nat
      /\ \A k \in 1..Len(s) : t[k] = s[k]
      /\ t[Len(s) + 1] = x
  OBVIOUS
<1>2. t \in Seq(S \cup {x})
  <2>1. s \in Seq(S \cup {x})
    OBVIOUS
  <2> QED BY <2>1
<1> HIDE DEF t
<1>3. ASSUME NEW y PROVE y \in Queued(t) <=> y \in Queued(s) \cup {x}
  <2>1. ASSUME NEW k \in 1..Len(t), y = t[k] PROVE y \in Queued(s) \cup {x}
    <3>1. CASE k = Len(s) + 1
      BY <1>1, <2>1, <3>1
    <3>2. CASE k # Len(s) + 1
      <4>1. k \in 1..Len(s)
        BY <1>1, <2>1, <3>2
      <4> QED BY <1>1, <2>1, <4>1 DEF Queued
    <3> QED BY <3>1, <3>2
  <2>2. ASSUME NEW k \in 1..Len(s), y = s[k] PROVE y \in Queued(t)
    <3>1. k \in 1..Len(t) /\ t[k] = y
      BY <1>1, <2>2
    <3> QED BY <3>1 DEF Queued
  <2>3. x \in Queued(t)
    <3>1. Len(s) + 1 \in 1..Len(t)
      BY <1>1
    <3> QED BY <1>1, <3>1 DEF Queued
  <2> QED BY <2>1, <2>2, <2>3 DEF Queued
<1>4. Queued(t) = Queued(s) \cup {x}
  BY <1>3
<1> QED BY <1>2, <1>4 DEF t

LEMMA AppendIncreases ==
  ASSUME NEW S, NEW s \in Seq(S), Increasing(s), NEW x,
         \A e \in Queued(s) : Precedes(e, x)
  PROVE  Increasing(Append(s, x))
<1> DEFINE t == Append(s, x)
<1>1. /\ Len(t) = Len(s) + 1 /\ Len(s) \in Nat
      /\ \A k \in 1..Len(s) : t[k] = s[k]
      /\ t[Len(s) + 1] = x
  OBVIOUS
<1> HIDE DEF t
<1>2. ASSUME NEW i \in 1..Len(t), NEW j \in 1..Len(t), i < j PROVE Precedes(t[i], t[j])
  <2>1. i \in 1..Len(s) /\ t[i] = s[i]
    BY <1>1, <1>2
  <2>2. CASE j = Len(s) + 1
    BY <1>1, <2>1, <2>2 DEF Queued
  <2>3. CASE j # Len(s) + 1
    <3>1. j \in 1..Len(s) /\ t[j] = s[j]
      BY <1>1, <2>3
    <3> QED BY <1>2, <2>1, <3>1 DEF Increasing
  <2> QED BY <2>2, <2>3
<1> QED BY <1>2 DEF Increasing, t

LEMMA LawfulWith ==
  ASSUME NEW past, Lawful(past), NEW e, Quotes(past \cup {e}, e), e.ts \in Nat,
         \A f \in past : f.ts < e.ts
  PROVE  /\ Lawful(past \cup {e})
         /\ e \notin past /\ \A f \in past : Precedes(f, e)
<1> DEFINE more == past \cup {e}
<1>1. Extracted(e) /\ \A f \in past : f.ts \in Nat /\ Precedes(f, e)
  BY DEF Quotes, Precedes, Lawful, Sorted
<1>2. e \notin past
  BY <1>1
<1>3. Sorted(more)
  <2>1. IsFiniteSet(more)
    BY FS_AddElement DEF Lawful, Sorted
  <2> QED BY <1>1, <2>1 DEF Lawful, Sorted
<1>4. \A g, f \in more : g.id = f.id /\ ~Extracted(g) => g = f
  BY <1>1 DEF Lawful, Extracted
<1>5. \A f \in more : f \in ToolRow \cup SaidRow \cup AskedRow \/ Quotes(more, f)
  <2>1. \A f \in past : Quotes(past, f) => Quotes(more, f)
    BY QuotesGrow
  <2> HIDE DEF Quotes
  <2> QED BY <2>1 DEF Lawful
<1> QED BY <1>1, <1>2, <1>3, <1>4, <1>5 DEF Lawful

Pushed(st, new, e) ==
  new.rows = st.rows \cup {e} /\ new.seen = st.seen /\ new.todo = Append(st.todo, e)

LEMMA PushExtends ==
  ASSUME NEW past, NEW st, Extends(past, st), st.rows # {}, NEW id, NEW body,
         NEW e, e = AheadRow(st.rows, id, body), Quotes(st.rows \cup {e}, e),
         NEW new, new = Push(st, id, body)
  PROVE  Extends(past, new) /\ Pushed(st, new, e)
<1> DEFINE rec == [rows |-> st.rows \cup {e}, todo |-> Append(st.todo, e),
                   seen |-> st.seen, claims |-> FoldClaims(st.claims, e)]
<1>1. Lawful(st.rows) /\ Sorted(st.rows)
  BY DEF Extends, Lawful
<1>2. /\ e.ts \in Nat /\ e.source = "claim" /\ e.source # "note" /\ e.source # "shell"
      /\ \A f \in st.rows : f.ts < e.ts
  BY <1>1, AheadOfAll DEF AheadRow
<1>3. /\ Lawful(st.rows \cup {e})
      /\ e \notin st.rows /\ \A f \in st.rows : Precedes(f, e)
  BY <1>1, <1>2, LawfulWith
<1>4. new = rec
  <2>1. st = [rows |-> st.rows, todo |-> st.todo, seen |-> st.seen, claims |-> st.claims]
    BY DEF Extends
  <2>2. new = [st EXCEPT !.rows = st.rows \cup {e}, !.todo = Append(st.todo, e),
                         !.claims = FoldClaims(st.claims, e)]
    BY DEF Push, AheadRow
  <2> QED BY <2>1, <2>2
<1>5. Extracted(e)
  BY DEF Quotes
<1>6. /\ new = [rows |-> new.rows, todo |-> new.todo, seen |-> new.seen, claims |-> new.claims]
      /\ new.rows = st.rows \cup {e} /\ new.seen = st.seen
      /\ new.todo = Append(st.todo, e) /\ new.claims = FoldClaims(st.claims, e)
  BY <1>4
<1>7. Queued(new.todo) = Queued(st.todo) \cup {e} /\ new.todo \in Seq(new.rows)
  <2>1. st.todo \in Seq(st.rows)
    BY DEF Extends
  <2>2. /\ Queued(Append(st.todo, e)) = Queued(st.todo) \cup {e}
        /\ Append(st.todo, e) \in Seq(st.rows \cup {e})
    BY <2>1, AppendQueues
  <2> QED BY <1>6, <2>2
<1>8. new.rows = past \cup Queued(new.todo) /\ past \subseteq st.rows
  BY <1>6, <1>7 DEF Extends
<1>9. \A f \in Queued(new.todo) : Extracted(f) /\ \A g \in past : Precedes(g, f)
  BY <1>3, <1>5, <1>7, <1>8 DEF Extends
<1>10. new.claims = Folded(FoldRows(new.rows)).claims
  <2> DEFINE T == FoldRows(st.rows)
  <2>1. FoldRows(new.rows) = T \cup {e} /\ T \subseteq st.rows
    <3>1. FoldRows(st.rows \cup {e}) = FoldRows(st.rows) \cup {e}
      BY <1>2 DEF FoldRows
    <3>2. FoldRows(st.rows) \subseteq st.rows
      BY DEF FoldRows
    <3> QED BY <1>6, <3>1, <3>2
  <2>2. Sorted(T \cup {e})
    <3>1. Sorted(st.rows \cup {e}) /\ T \cup {e} \subseteq st.rows \cup {e}
      BY <1>3, <2>1 DEF Lawful
    <3> QED BY <3>1, SomeRowsSorted
  <2>3. e \notin T /\ \A f \in T : Precedes(f, e)
    BY <1>3, <2>1
  <2> HIDE DEF T
  <2>4. Folded(T \cup {e}) = Grown(Folded(T), e)
    BY <2>2, <2>3, FoldedGrows
  <2>5. st.claims = Folded(T).claims
    BY DEF Extends, T
  <2>6. Grown(Folded(T), e).claims = FoldClaims(Folded(T).claims, e)
    BY DEF Grown
  <2>7. FoldRows(new.rows) = T \cup {e} /\ new.claims = FoldClaims(Folded(T).claims, e)
    BY <1>6, <2>1, <2>5
  <2> QED BY <2>4, <2>6, <2>7
<1>11. Lawful(new.rows)
  BY <1>3, <1>6
<1>12. Increasing(new.todo)
  <2>1. st.todo \in Seq(st.rows) /\ Increasing(st.todo) /\ Queued(st.todo) \subseteq st.rows
    BY DEF Extends
  <2>2. Increasing(Append(st.todo, e))
    BY <1>3, <2>1, AppendIncreases
  <2> QED BY <1>6, <2>2
<1>13. Extends(past, new)
  BY <1>6, <1>7, <1>8, <1>9, <1>10, <1>11, <1>12 DEF Extends
<1> QED BY <1>6, <1>13 DEF Pushed

-----------------------------------------------------------------------------
(* Drafts.                                                                 *)

IsTool(past, id) == \E e \in past : e \in ToolRow /\ e.id = id

DraftOf(past, m, d) ==
  /\ d.id \in ExtractedId /\ d.id[1] = m.id
  /\ d.id[2] \in DOMAIN m.says /\ d.text = m.says[d.id[2]].text
  /\ d.text \in Text /\ d.kind \in ClaimKind
  /\ d.origin = IF d.kind = "constraint" THEN "user" ELSE "agent"
  /\ d.confidence \in ClaimConfidence
  /\ d.evidence = {m.id} \cup ({d.support} \ {NONE})
  /\ d.support = NONE \/ IsTool(past, d.support)

LEMMA SaysIs ==
  ASSUME NEW m \in SaidRow
  PROVE  m.says \in Seq(Sentence) /\ DOMAIN m.says = 1..Len(m.says) /\ Len(m.says) \in Nat
<1>1. m.says \in Seq(Sentence)
  BY DEF SaidRow
<1> QED BY <1>1

LEMMA NoteSays ==
  ASSUME NEW m \in SaidRow, NEW i \in DOMAIN m.says
  PROVE  /\ i \in 1..Len(m.says) /\ <<m.id, i>> \in ExtractedId
         /\ m.says[i].kind \in ClaimKind \ {"intent"} /\ m.says[i].text \in Text
         /\ m.id \in Note
<1>1. m.says \in Seq(Sentence) /\ Len(m.says) <= MAX_SENTENCES /\ m.id \in Note
  BY DEF SaidRow
<1>2. i \in 1..Len(m.says) /\ m.says[i] \in Sentence /\ Len(m.says) \in Nat
  BY <1>1, SaysIs
<1>3. i \in 0..MAX_SENTENCES
  <2>1. MAX_SENTENCES \in Nat
    BY DEF MAX_SENTENCES
  <2>2. i \in Nat /\ i <= Len(m.says)
    BY <1>2
  <2> QED BY ONLY <1>1, <1>2, <2>1, <2>2
<1> QED BY <1>1, <1>2, <1>3 DEF ExtractedId, Sentence

LEMMA DraftIs ==
  ASSUME NEW past, NEW m \in SaidRow, NEW i \in DOMAIN m.says, NEW support,
         support = NONE \/ IsTool(past, support)
  PROVE  DraftOf(past, m, Draft(m, i, support))
<1> DEFINE d == Draft(m, i, support)
<1>1. /\ <<m.id, i>> \in ExtractedId /\ m.says[i].text \in Text /\ m.says[i].kind \in ClaimKind
  BY NoteSays
<1>2. /\ d.id = <<m.id, i>> /\ d.kind = m.says[i].kind /\ d.text = m.says[i].text
      /\ d.origin = (IF d.kind = "constraint" THEN "user" ELSE "agent")
      /\ d.confidence = (IF d.kind = "constraint" THEN "stated"
                         ELSE IF d.kind = "unknown" THEN "hypothesis" ELSE "inferred")
      /\ d.evidence = {m.id} \cup ({support} \ {NONE}) /\ d.support = support
  BY DEF Draft
<1>3. d.confidence \in ClaimConfidence
  BY <1>2 DEF ClaimConfidence
<1> HIDE DEF d
<1> QED BY <1>1, <1>2, <1>3 DEF DraftOf, d

LEMMA ShellIdIs ==
  ASSUME NEW past, Lawful(past), NEW support, support = NONE \/ support \in past
  PROVE  ShellId(support) = NONE \/ IsTool(past, ShellId(support))
<1>1. CASE support # NONE /\ support.source = "shell"
  <2>1. support \in past /\ support \in ToolRow
    BY <1>1, KindOf
  <2> QED BY <1>1, <2>1 DEF ShellId, IsTool
<1>2. CASE ~(support # NONE /\ support.source = "shell")
  BY <1>2 DEF ShellId
<1> QED BY <1>1, <1>2

LEMMA NaturalDraftsAre ==
  ASSUME NEW past, Lawful(past), NEW m \in SaidRow, NEW support,
         support = NONE \/ support \in past
  PROVE  LET drafts == NaturalDrafts(m, support) IN
         /\ Len(drafts) \in Nat /\ DOMAIN drafts = 1..Len(drafts)
         /\ \A k \in 1..Len(drafts) :
              /\ DraftOf(past, m, drafts[k])
              /\ \E i \in DOMAIN m.says :
                   /\ Natural(m.says[i], support)
                   /\ drafts[k] = Draft(m, i, IF m.says[i].kind \in {"unknown", "next_action"}
                                              THEN NONE ELSE ShellId(support))
<1> DEFINE s == [i \in DOMAIN m.says |-> i]
           keep == {i \in DOMAIN m.says : Natural(m.says[i], support)}
           kept == Sifted(s, keep)
           sup(i) == IF m.says[i].kind \in {"unknown", "next_action"}
                     THEN NONE ELSE ShellId(support)
           drafts == NaturalDrafts(m, support)
<1>1. s \in Seq(Nat) /\ DOMAIN m.says = 1..Len(m.says) /\ Len(s) = Len(m.says)
      /\ \A i \in 1..Len(s) : s[i] = i
  <2>1. m.says \in Seq(Sentence) /\ DOMAIN m.says = 1..Len(m.says) /\ Len(m.says) \in Nat
    BY SaysIs
  <2> QED BY <2>1
<1> HIDE DEF s, keep
<1>2. /\ Len(kept) \in Nat
      /\ \A k \in 1..Len(kept) : kept[k] \in keep
  BY <1>1, SiftedElements
<1>3. DOMAIN kept = 1..Len(kept)
  <2>1. kept \in Seq(Nat)
    BY <1>1, SiftedLeaves
  <2> QED BY <2>1
<1> HIDE DEF kept
<1>4. drafts = [k \in 1..Len(kept) |-> Draft(m, kept[k], sup(kept[k]))]
  BY <1>3 DEF NaturalDrafts, kept, keep, s
<1>5. /\ DOMAIN drafts = 1..Len(kept) /\ Len(drafts) = Len(kept)
      /\ \A k \in 1..Len(kept) : drafts[k] = Draft(m, kept[k], sup(kept[k]))
  BY <1>2, <1>4
<1> HIDE DEF drafts
<1>6. ASSUME NEW k \in 1..Len(drafts)
      PROVE  /\ DraftOf(past, m, drafts[k])
             /\ \E i \in DOMAIN m.says :
                   /\ Natural(m.says[i], support)
                   /\ drafts[k] = Draft(m, i, sup(i))
  <2>1. kept[k] \in DOMAIN m.says /\ Natural(m.says[kept[k]], support)
        /\ drafts[k] = Draft(m, kept[k], sup(kept[k]))
    BY <1>2, <1>5 DEF keep
  <2>2. sup(kept[k]) = NONE \/ IsTool(past, sup(kept[k]))
    BY ShellIdIs
  <2> HIDE DEF sup
  <2>3. DraftOf(past, m, Draft(m, kept[k], sup(kept[k])))
    BY <2>1, <2>2, DraftIs
  <2> QED BY <2>1, <2>3
<1>7. Len(drafts) \in Nat /\ DOMAIN drafts = 1..Len(drafts)
  BY <1>2, <1>5
<1> QED BY <1>6, <1>7 DEF drafts

(* A note that follows a file read is quoted whole, as what is.            *)
LEMMA WholeQuote ==
  ASSUME NEW m \in SaidRow, m.says # <<>>, NEW support
  PROVE  LET n == [m EXCEPT !.says[1].kind = "reality"]
             d == Draft(n, 1, support)
         IN  /\ 1 \in DOMAIN m.says
             /\ d.id = <<m.id, 1>> /\ d.text = m.says[1].text /\ d.kind = "reality"
             /\ d.origin = "agent" /\ d.confidence = "inferred" /\ d.support = support
             /\ d.evidence = {m.id} \cup ({support} \ {NONE})
<1> DEFINE n == [m EXCEPT !.says[1].kind = "reality"]
           s == [m.says EXCEPT ![1] = [m.says[1] EXCEPT !.kind = "reality"]]
           d == Draft(n, 1, support)
<1>1. m.says \in Seq(Sentence) /\ DOMAIN m = {"id", "ts", "source", "session", "role", "speech", "support", "quotes", "says"}
  BY DEF SaidRow
<1>2. 1 \in DOMAIN m.says /\ m.says[1] \in Sentence
  BY <1>1
<1>3. n.says = s /\ n.id = m.id
  BY <1>1
<1>4. s[1].kind = "reality" /\ s[1].text = m.says[1].text
  BY <1>2 DEF Sentence
<1> HIDE DEF n, s
<1>5. /\ d.id = <<n.id, 1>> /\ d.kind = n.says[1].kind /\ d.text = n.says[1].text
      /\ d.origin = (IF n.says[1].kind = "constraint" THEN "user" ELSE "agent")
      /\ d.confidence = (IF n.says[1].kind = "constraint" THEN "stated"
                         ELSE IF n.says[1].kind = "unknown" THEN "hypothesis" ELSE "inferred")
      /\ d.evidence = {n.id} \cup ({support} \ {NONE}) /\ d.support = support
  BY DEF Draft
<1> HIDE DEF d
<1>6. /\ 1 \in DOMAIN m.says
      /\ d.id = <<m.id, 1>> /\ d.text = m.says[1].text /\ d.kind = "reality"
      /\ d.origin = "agent" /\ d.confidence = "inferred" /\ d.support = support
      /\ d.evidence = {m.id} \cup ({support} \ {NONE})
  BY <1>2, <1>3, <1>4, <1>5
<1> QED BY <1>6 DEF d, n

LEMMA DraftsAre ==
  ASSUME NEW past, Lawful(past), NEW m \in SaidRow, m.role \notin {"retract", "update"},
         NEW support, support = NONE \/ support \in past
  PROVE  LET drafts == DraftsForNote(m, support) IN
         /\ Len(drafts) \in Nat
         /\ \A k \in 1..Len(drafts) : DraftOf(past, m, drafts[k])
<1> DEFINE drafts == DraftsForNote(m, support)
<1>1. CASE m.speech
  <2>1. drafts = [i \in DOMAIN m.says |-> Draft(m, i, NONE)]
    BY <1>1 DEF DraftsForNote
  <2>2. DOMAIN m.says = 1..Len(m.says) /\ Len(m.says) \in Nat
    BY SaysIs
  <2>3. /\ DOMAIN drafts = DOMAIN m.says /\ Len(drafts) = Len(m.says)
        /\ \A k \in DOMAIN m.says : drafts[k] = Draft(m, k, NONE)
    BY <2>1, <2>2
  <2> HIDE DEF drafts
  <2>4. \A k \in 1..Len(drafts) : DraftOf(past, m, drafts[k])
    BY <2>2, <2>3, DraftIs
  <2> QED BY <2>2, <2>3, <2>4 DEF drafts
<1>2. CASE ~m.speech /\ m.role = "conclusion"
  <2>1. drafts = NaturalDrafts(m, support)
    BY <1>2 DEF DraftsForNote
  <2> QED BY <2>1, NaturalDraftsAre
<1>3. CASE /\ ~m.speech /\ m.role # "conclusion"
           /\ IsSourceRead(support) /\ m.says[1].text \in Output(support)
  <2> DEFINE sid == ShellId(support)
             n == [m EXCEPT !.says[1].kind = "reality"]
             d == Draft(n, 1, sid)
  <2>1. drafts = <<d>>
    BY <1>3 DEF DraftsForNote
  <2>2. m.says # <<>>
    BY <1>3 DEF SaidRow
  <2>3. /\ 1 \in DOMAIN m.says
        /\ d.id = <<m.id, 1>> /\ d.text = m.says[1].text /\ d.kind = "reality"
        /\ d.origin = "agent" /\ d.confidence = "inferred" /\ d.support = sid
        /\ d.evidence = {m.id} \cup ({sid} \ {NONE})
    <3> HIDE DEF sid, drafts
    <3> QED BY <2>2, WholeQuote
  <2>4. sid = NONE \/ IsTool(past, sid)
    BY ShellIdIs
  <2>5. <<m.id, 1>> \in ExtractedId /\ m.says[1].text \in Text
    BY <2>3, NoteSays
  <2> HIDE DEF d, drafts, sid
  <2>6. DraftOf(past, m, d)
    BY <2>3, <2>4, <2>5 DEF DraftOf, ClaimKind, ClaimConfidence
  <2>7. Len(drafts) = 1 /\ drafts[1] = d
    BY <2>1
  <2> QED BY <2>6, <2>7 DEF drafts
<1>4. CASE /\ ~m.speech /\ m.role # "conclusion"
           /\ ~(IsSourceRead(support) /\ m.says[1].text \in Output(support))
  <2>1. drafts = <<>>
    BY <1>4 DEF DraftsForNote
  <2> QED BY <2>1
<1> QED BY <1>1, <1>2, <1>3, <1>4

-----------------------------------------------------------------------------
(* The gate keeps the run what it is.                                      *)

LEMMA DraftRow ==
  ASSUME NEW past, NEW m \in past, m \in SaidRow, NEW d, DraftOf(past, m, d),
         NEW task \in Command, NEW ts \in Nat, m.ts < ts
  PROVE  LET e == [id |-> d.id, ts |-> ts, source |-> "claim", body |-> DraftBody(d, task)]
         IN  Quotes(past \cup {e}, e)
<1> DEFINE b == DraftBody(d, task)
           e == [id |-> d.id, ts |-> ts, source |-> "claim", body |-> b]
<1>1. /\ d.id \in EventId /\ <<"authored", d.id>> \in ClaimId /\ task \in TaskId
  BY HandoffAssumption DEF DraftOf, ClaimId, TaskId
<1>2. d.evidence \subseteq EventId
  <2>1. d.support = NONE \/ d.support \in Run
    BY DEF DraftOf, IsTool, ToolRow
  <2>2. m.id \in Note
    BY DEF SaidRow
  <2> QED BY <2>1, <2>2, HandoffAssumption DEF DraftOf
<1>3. /\ b.op = "assert" /\ b.claim_id = <<"authored", d.id>> /\ b.task_id = task
      /\ b.kind = d.kind /\ b.text = d.text /\ b.confidence = d.confidence
      /\ b.subject = (IF d.kind = "next_action" THEN FRONTIER_SUBJECT ELSE <<"authored", d.id>>)
      /\ b.origin = d.origin /\ b.evidence = d.evidence /\ b.supersedes = NONE
  BY DEF DraftBody
<1>4. b.subject \in Subject /\ b.subject \notin Command
  BY <1>1, <1>3, VocabularyAssumption DEF Subject
<1>5. b.origin \in {"user", "agent"} /\ (b.origin = "user" => b.kind # "next_action")
  BY <1>3 DEF DraftOf
<1>6. b \in ClaimEvent
  BY <1>1, <1>2, <1>3, <1>4, <1>5 DEF DraftOf, ClaimEvent, DraftBody
<1>7. NONE \notin {b.kind, b.subject, b.text, b.confidence}
  BY <1>3, <1>4, VocabularyAssumption DEF DraftOf
<1>8. /\ e.id = d.id /\ e.ts = ts /\ e.source = "claim" /\ e.body = b
  OBVIOUS
<1> HIDE DEF b
<1>9. e \in ClaimRow
  BY <1>1, <1>6 DEF ClaimRow
<1> HIDE DEF e
<1>10. e \in Written
  BY <1>3, <1>7, <1>8, <1>9 DEF Written
<1>11. Extracted(e) /\ Modest(e.body) /\ e.id[1] \in e.body.evidence
  BY <1>3, <1>4, <1>5, <1>8 DEF Extracted, Modest, DraftOf
<1>12. /\ m \in past \cup {e} /\ m.source = "note" /\ m.id = e.id[1] /\ Precedes(m, e)
       /\ e.body.op = "assert" /\ e.body.claim_id = <<"authored", e.id>>
       /\ e.body.supersedes = NONE
       /\ e.id[2] \in DOMAIN m.says /\ e.body.text = m.says[e.id[2]].text
  BY <1>3, <1>8, SourcesOf DEF DraftOf, Precedes
<1>13. Quotes(past \cup {e}, e)
  BY <1>10, <1>11, <1>12 DEF Quotes
<1> QED BY <1>13 DEF e, b

LEMMA CitesAre ==
  ASSUME NEW past, NEW e \in past, e.source = "claim", NEW n \in e.body.evidence
  PROVE  n \in CitedNotes(past)
BY DEF CitedNotes, ClaimRows

LEMMA CitesGrow ==
  ASSUME NEW past, NEW more, past \subseteq more
  PROVE  CitedNotes(past) \subseteq CitedNotes(more)
BY DEF CitedNotes, ClaimRows

LEMMA DraftOfGrows ==
  ASSUME NEW past, NEW more, past \subseteq more, NEW m, NEW d, DraftOf(past, m, d)
  PROVE  DraftOf(more, m, d)
BY DEF DraftOf, IsTool

LEMMA AcceptRuns ==
  ASSUME NEW past, NEW st, Running(past, st), NEW m \in st.rows, m \in SaidRow,
         NEW d, DraftOf(st.rows, m, d), NEW task
  PROVE  LET new == Accept(st, d, task) IN
         /\ Running(past, new) /\ st.rows \subseteq new.rows
         /\ \/ new = st /\ ~Admits(st, st.seen, d, task)
            \/ m.id \in CitedNotes(new.rows)
<1> DEFINE new == Accept(st, d, task)
<1>1. CASE ~Admits(st, st.seen, d, task)
  BY <1>1 DEF Accept
<1>2. CASE Admits(st, st.seen, d, task)
  <2> DEFINE b == DraftBody(d, task)
             e == AheadRow(st.rows, d.id, b)
             p == Push(st, d.id, b)
  <2>1. task \in Command
    BY <1>2 DEF Admits, FailingSubjects
  <2>2. Extends(past, st) /\ st.seen = SeedSeen(st.rows) /\ Sorted(st.rows)
    BY DEF Running, Extends, Lawful
  <2>3. StampAhead(st.rows) \in Nat /\ m.ts < StampAhead(st.rows)
    BY <2>2, AheadOfAll
  <2>4. Quotes(st.rows \cup {e}, e)
    BY <2>1, <2>3, DraftRow DEF AheadRow
  <2>5. /\ e.source = "claim" /\ e.body = b /\ b.op = "assert" /\ b.kind = d.kind /\ b.text = d.text
        /\ m.id \in e.body.evidence
    BY DEF AheadRow, DraftBody, DraftOf
  <2> HIDE DEF e, b
  <2>6. /\ Extends(past, p)
        /\ p.rows = st.rows \cup {e} /\ p.seen = st.seen
    <3>1. st.rows # {} /\ e = AheadRow(st.rows, d.id, b) /\ p = Push(st, d.id, b)
      BY DEF e
    <3> HIDE DEF p
    <3>2. Extends(past, p) /\ Pushed(st, p, e)
      BY <2>2, <2>4, <3>1, PushExtends
    <3> QED BY <3>2 DEF Pushed
  <2>7. new = [p EXCEPT !.seen = st.seen \cup {<<d.kind, d.text>>}]
    BY <1>2, <2>6 DEF Accept, b
  <2> HIDE DEF p, new
  <2>8. /\ new = [rows |-> p.rows, todo |-> p.todo, seen |-> st.seen \cup {<<d.kind, d.text>>},
                  claims |-> p.claims]
    <3>1. p = [rows |-> p.rows, todo |-> p.todo, seen |-> p.seen, claims |-> p.claims]
      BY <2>6 DEF Extends
    <3> QED BY <2>7, <3>1
  <2>9. /\ new.rows = p.rows /\ new.todo = p.todo /\ new.claims = p.claims
        /\ new.seen = st.seen \cup {<<d.kind, d.text>>}
        /\ new = [rows |-> new.rows, todo |-> new.todo, seen |-> new.seen, claims |-> new.claims]
    BY <2>8
  <2>10. Extends(past, new)
    BY <2>6, <2>9 DEF Extends
  <2>11. SeedSeen(st.rows \cup {e}) = SeedSeen(st.rows) \cup {<<d.kind, d.text>>}
    BY <2>5 DEF SeedSeen, ClaimRows
  <2>12. m.id \in CitedNotes(new.rows)
    BY <2>5, <2>6, <2>9, CitesAre
  <2>13. Running(past, new)
    BY <2>2, <2>6, <2>9, <2>10, <2>11 DEF Running
  <2> QED BY <2>6, <2>9, <2>12, <2>13 DEF new
<1> QED BY <1>1, <1>2

(* The drafts of a note one after another: either one is accepted, and the *)
(* note is cited, or none is and nothing has changed.                      *)
LEMMA AcceptAllRuns ==
  ASSUME NEW past, NEW st, Running(past, st), NEW m \in st.rows, m \in SaidRow,
         NEW drafts, Len(drafts) \in Nat,
         \A k \in 1..Len(drafts) : DraftOf(st.rows, m, drafts[k]), NEW task
  PROVE  LET new == AcceptAll(st, drafts, task) IN
         /\ Running(past, new) /\ st.rows \subseteq new.rows
         /\ \/ /\ new = st
               /\ \A k \in 1..Len(drafts) : ~Admits(st, st.seen, drafts[k], task)
            \/ m.id \in CitedNotes(new.rows)
<1> DEFINE after(n) == Accepting(st, drafts, task)[n]
           Good(n) == /\ Running(past, after(n)) /\ st.rows \subseteq after(n).rows
                      /\ \/ /\ after(n) = st
                            /\ \A k \in 1..n : ~Admits(st, st.seen, drafts[k], task)
                         \/ m.id \in CitedNotes(after(n).rows)
           T == {n \in 0..Len(drafts) : Good(n)}
<1>0. /\ Accepting(st, drafts, task)[0] = st
      /\ \A n \in 1..Len(drafts) :
           Accepting(st, drafts, task)[n]
             = Accept(Accepting(st, drafts, task)[n - 1], drafts[n], task)
  BY ONLY AcceptingDef, Len(drafts) \in Nat
<1>1. after(0) = st /\ \A n \in 1..Len(drafts) : after(n) = Accept(after(n - 1), drafts[n], task)
  BY <1>0
<1> HIDE DEF after
<1>2. 0 \in T
  BY <1>1
<1>3. ASSUME NEW n \in 1..Len(drafts), n - 1 \in T PROVE n \in T
  <2> DEFINE old == after(n - 1)
             new == after(n)
  <2>1. /\ Running(past, old) /\ st.rows \subseteq old.rows
        /\ \/ /\ old = st
              /\ \A k \in 1..(n - 1) : ~Admits(st, st.seen, drafts[k], task)
           \/ m.id \in CitedNotes(old.rows)
    BY <1>3
  <2>2. new = Accept(old, drafts[n], task)
    BY <1>1
  <2> HIDE DEF old, new
  <2>3. m \in old.rows /\ DraftOf(old.rows, m, drafts[n])
    BY <2>1, DraftOfGrows
  <2>4. /\ Running(past, new) /\ old.rows \subseteq new.rows
        /\ \/ new = old /\ ~Admits(old, old.seen, drafts[n], task)
           \/ m.id \in CitedNotes(new.rows)
    BY <2>1, <2>2, <2>3, AcceptRuns
  <2>5. m.id \in CitedNotes(old.rows) => m.id \in CitedNotes(new.rows)
    BY <2>4, CitesGrow
  <2>6. \/ /\ new = st
           /\ \A k \in 1..n : ~Admits(st, st.seen, drafts[k], task)
        \/ m.id \in CitedNotes(new.rows)
    <3>1. \A k \in 1..n : k \in 1..(n - 1) \/ k = n
      OBVIOUS
    <3> QED BY <2>1, <2>4, <2>5, <3>1
  <2>7. Running(past, new) /\ st.rows \subseteq new.rows
    BY <2>1, <2>4
  <2>8. n \in 0..Len(drafts)
    OBVIOUS
  <2> QED BY <2>6, <2>7, <2>8 DEF new
<1>4. Len(drafts) \in T
  <2>1. Len(drafts) \in 0..Len(drafts)
    OBVIOUS
  <2> HIDE DEF T
  <2> QED BY <1>2, <1>3, <2>1, UpTo
<1>5. AcceptAll(st, drafts, task) = after(Len(drafts))
  BY DEF AcceptAll, after
<1> QED BY <1>4, <1>5

-----------------------------------------------------------------------------
(* Retractions.                                                            *)

LEMMA RunTells ==
  ASSUME NEW past, NEW st, Extends(past, st)
  PROVE  Told(st.rows, st.claims)
<1>1. Lawful(st.rows) /\ st.claims = Folded(FoldRows(st.rows)).claims
  BY DEF Extends
<1> QED BY <1>1, ViewTells

LEMMA ChosenClaims ==
  ASSUME NEW roster, ClaimMap(roster), IsFiniteSet(DOMAIN roster),
         NEW ids, ids \subseteq DOMAIN roster, ids # {}
  PROVE  NewestOf(roster, ids) \in ids /\ OldestOf(roster, ids) \in ids
<1>1. \A i \in DOMAIN roster : roster[i].updated_at \in Nat
  BY DEF ClaimMap, Claim
<1>2. NewestOf(roster, ids) \in ids
  <2> DEFINE D == DOMAIN roster
             O == {p \in D \X D : roster[p[2]].updated_at < roster[p[1]].updated_at}
  <2>1. \A i, j \in D : <<i, j>> \in O <=> roster[j].updated_at < roster[i].updated_at
    OBVIOUS
  <2> HIDE DEF O
  <2>2. IsOrder(O, D)
    BY <1>1, <2>1 DEF IsOrder
  <2> HIDE DEF D
  <2>3. PICK r \in ids : \A s \in ids : <<s, r>> \notin O
    <3>1. ids \subseteq D /\ IsFiniteSet(D)
      BY DEF D
    <3> QED BY <2>2, <3>1, FirstInOrder
  <2>4. \A s \in ids : roster[s].updated_at <= roster[r].updated_at
    <3>1. SUFFICES ASSUME NEW s \in ids PROVE roster[s].updated_at <= roster[r].updated_at
      OBVIOUS
    <3>2. s \in D /\ r \in D /\ <<s, r>> \notin O
      BY <2>3 DEF D
    <3>3. ~(roster[r].updated_at < roster[s].updated_at)
      BY <2>1, <3>2
    <3>4. roster[s].updated_at \in Nat /\ roster[r].updated_at \in Nat
      BY <1>1, <3>2 DEF D
    <3> QED BY <3>3, <3>4
  <2> QED BY <2>4 DEF NewestOf
<1>3. OldestOf(roster, ids) \in ids
  <2> DEFINE T == {roster[i].updated_at : i \in ids}
  <2>1. T \subseteq Nat /\ T # {}
    BY <1>1
  <2>2. PICK t \in T : \A u \in T : t <= u
    <3> HIDE DEF T
    <3> QED BY <2>1, LeastNatural
  <2>3. PICK r \in ids : t = roster[r].updated_at
    BY <2>2
  <2>4. \A s \in ids : roster[r].updated_at <= roster[s].updated_at
    BY <2>2, <2>3
  <2> QED BY <2>4 DEF OldestOf
<1> QED BY <1>2, <1>3

LEMMA RetractionIs ==
  ASSUME NEW r \in ClaimEvent, NEW origin \in {"user", "agent"}, NEW evidence \in SUBSET EventId
  PROVE  [r EXCEPT !.origin = origin, !.evidence = evidence] \in ClaimEvent
BY DEF ClaimEvent

LEMMA RetractRow ==
  ASSUME NEW past, NEW roster, Told(past, roster), NEW m \in past, m \in SaidRow,
         NEW target \in CurrentQuoted(roster, m.quotes), Retractable(roster[target]),
         NEW ts \in Nat, \A f \in past : f.ts < ts,
         NEW e, e = [id |-> <<m.id, 0>>, ts |-> ts, source |-> "claim",
                     body |-> RetractBody(m, target, roster)]
  PROVE  Quotes(past \cup {e}, e) /\ e.source = "claim" /\ e.body.op = "supersede"
<1> DEFINE b == RetractBody(m, target, roster)
<1>1. /\ target \in DOMAIN roster /\ target \in ClaimId /\ roster[target] \in Claim
      /\ roster[target].origin # "projector" /\ roster[target].text = m.quotes
  BY DEF CurrentQuoted, Retractable, TextOf, Told, ClaimMap
<1>2. m.id \in Note /\ m.source = "note" /\ <<m.id, 0>> \in ExtractedId
  BY SourcesOf DEF ExtractedId, MAX_SENTENCES
<1>3. m.id \in EventId /\ <<m.id, 0>> \in EventId /\ <<"authored", <<m.id, 0>>>> \in ClaimId
  BY <1>2, HandoffAssumption DEF ClaimId
<1>4. /\ b.op = "supersede" /\ b.claim_id = <<"authored", <<m.id, 0>>>>
      /\ b.task_id = roster[target].task_id /\ b.kind = NONE /\ b.subject = NONE
      /\ b.text = NONE /\ b.confidence = NONE /\ b.origin = roster[target].origin
      /\ b.evidence = {m.id} /\ b.supersedes = target
  BY DEF RetractBody, Retirement
<1>5. b \in ClaimEvent
  <2> DEFINE r == Retirement("supersede", <<"authored", <<m.id, 0>>>>,
                             roster[target].task_id, target)
  <2>1. roster[target].origin \in {"user", "agent"} /\ roster[target].task_id \in TaskId
    BY <1>1 DEF Claim, ClaimOrigin
  <2>2. {m.id} \in SUBSET EventId
    BY <1>3
  <2>3. r \in ClaimEvent
    BY <1>1, <1>3, <2>1 DEF Retirement, ClaimEvent, ClaimOrigin
  <2>4. b = [r EXCEPT !.origin = roster[target].origin, !.evidence = {m.id}]
    BY DEF RetractBody
  <2> HIDE DEF b, r
  <2> QED BY <2>1, <2>2, <2>3, <2>4, RetractionIs
<1>6. e.id = <<m.id, 0>> /\ e.ts = ts /\ e.source = "claim" /\ e.body = b
  OBVIOUS
<1> HIDE DEF b
<1>7. e \in ClaimRow
  BY <1>3, <1>5 DEF ClaimRow, b
<1>8. e \in Written
  BY <1>1, <1>4, <1>6, <1>7 DEF Written
<1>9. Extracted(e) /\ e.id[1] = m.id /\ e.id[1] \in e.body.evidence
  BY <1>2, <1>4, <1>6 DEF Extracted
<1>10. Modest(e.body)
  BY <1>4, <1>6, VocabularyAssumption DEF Modest, ClaimKind, TaskId
<1>11. PICK f \in ClaimRows(past) : /\ f.body.op = "assert" /\ f.body.claim_id = target
                                    /\ f.body.text = roster[target].text
  BY <1>1 DEF Told
<1>12. /\ f \in past \cup {e} /\ Precedes(f, e) /\ f.source = "claim" /\ f.body.op = "assert"
       /\ f.body.claim_id = e.body.supersedes /\ f.body.text = m.quotes
  BY <1>1, <1>4, <1>6, <1>11 DEF ClaimRows, Precedes
<1>13. m \in past \cup {e} /\ m.id = e.id[1] /\ Precedes(m, e) /\ e.body.op = "supersede"
  BY <1>4, <1>6, <1>9 DEF Precedes
<1>14. Quotes(past \cup {e}, e)
  BY <1>2, <1>8, <1>9, <1>10, <1>12, <1>13 DEF Quotes
<1> QED BY <1>6, <1>13, <1>14

LEMMA PushRetraction ==
  ASSUME NEW past, NEW st, Running(past, st), NEW m \in st.rows, m \in SaidRow,
         NEW target \in CurrentQuoted(st.claims, m.quotes),
         Retractable(st.claims[target]),
         NEW new, new = Push(st, <<m.id, 0>>, RetractBody(m, target, st.claims))
  PROVE  Running(past, new) /\ st.rows \subseteq new.rows
<1> DEFINE b == RetractBody(m, target, st.claims)
           id == <<m.id, 0>>
           e == AheadRow(st.rows, id, b)
<1>1. Extends(past, st) /\ st.seen = SeedSeen(st.rows) /\ Sorted(st.rows)
  BY DEF Running, Extends, Lawful
<1>2. StampAhead(st.rows) \in Nat /\ \A f \in st.rows : f.ts < StampAhead(st.rows)
  BY <1>1, AheadOfAll
<1>3. Told(st.rows, st.claims)
  BY <1>1, RunTells
<1>4. Quotes(st.rows \cup {e}, e) /\ e.source = "claim" /\ e.body.op = "supersede"
  <2>1. e = [id |-> <<m.id, 0>>, ts |-> StampAhead(st.rows), source |-> "claim",
             body |-> RetractBody(m, target, st.claims)]
    BY DEF AheadRow
  <2> HIDE DEF e
  <2> QED BY <1>2, <1>3, <2>1, RetractRow
<1>5. st.rows # {} /\ e = AheadRow(st.rows, id, b) /\ new = Push(st, id, b)
  OBVIOUS
<1> HIDE DEF e, b, id
<1>6. Extends(past, new) /\ Pushed(st, new, e)
  BY <1>1, <1>4, <1>5, PushExtends
<1>7. new.rows = st.rows \cup {e} /\ new.seen = st.seen
  BY <1>6 DEF Pushed
<1>8. SeedSeen(st.rows \cup {e}) = SeedSeen(st.rows)
  BY <1>4 DEF SeedSeen, ClaimRows
<1> QED BY <1>1, <1>6, <1>7, <1>8 DEF Running

-----------------------------------------------------------------------------
(* A note, and all of them.                                                *)

LEMMA RetractRuns ==
  ASSUME NEW past, NEW st, Running(past, st), NEW m \in st.rows, m \in SaidRow,
         NEW new, new = RetractNote(st, m)
  PROVE  Running(past, new) /\ st.rows \subseteq new.rows
<1> DEFINE ids    == CurrentQuoted(st.claims, m.quotes)
           target == NewestOf(st.claims, ids)
           body   == RetractBody(m, target, st.claims)
<1>1. Told(st.rows, st.claims)
  BY RunTells DEF Running
<1>2. \/ new = st
      \/ ids # {} /\ Retractable(st.claims[target]) /\ new = Push(st, <<m.id, 0>>, body)
  BY DEF RetractNote
<1>3. ids \subseteq DOMAIN st.claims
  BY DEF CurrentQuoted
<1>4. ids # {} => target \in ids
  <2> HIDE DEF ids
  <2> QED BY <1>1, <1>3, ChosenClaims DEF Told
<1>5. CASE new = st
  BY <1>5
<1>6. CASE ids # {} /\ Retractable(st.claims[target]) /\ new = Push(st, <<m.id, 0>>, body)
  <2> HIDE DEF target
  <2> QED BY <1>4, <1>6, PushRetraction
<1> QED BY <1>2, <1>5, <1>6

LEMMA SupportIsRow ==
  ASSUME NEW past, Lawful(past), NEW m \in past, m \in SaidRow
  PROVE  /\ SupportById(past, m) = NONE \/ SupportById(past, m) \in past
         /\ Support(past, m) = NONE \/ Support(past, m) \in past
<1>1. SupportById(past, m) = NONE \/ SupportById(past, m) \in past
  BY DEF SupportById, HasRow, RowById
<1>2. Support(past, m) = NONE \/ Support(past, m) \in past
  <2> DEFINE earlier == {e \in past : Precedes(e, m)}
  <2>1. earlier # {} => LatestOf(earlier) \in earlier
    <3>1. earlier \subseteq past /\ Sorted(past)
      BY DEF Lawful
    <3> HIDE DEF earlier
    <3> QED BY <3>1, LatestIs
  <2>2. Support(past, m) \in {SupportById(past, m), NONE}
        \/ (earlier # {} /\ Support(past, m) = LatestOf(earlier))
    BY DEF Support
  <2> QED BY <1>1, <2>1, <2>2
<1> QED BY <1>1, <1>2

LEMMA UpdateRuns ==
  ASSUME NEW past, NEW st, Running(past, st), NEW m \in st.rows, m \in SaidRow,
         NEW new, new = UpdateNote(st, m)
  PROVE  Running(past, new) /\ st.rows \subseteq new.rows
<1> DEFINE ids    == CurrentQuoted(st.claims, m.quotes)
           target == OldestOf(st.claims, ids)
           body   == RetractBody(m, target, st.claims)
           task   == NoteTask(st.rows, m)
           drafts == NaturalDrafts(m, SupportById(st.rows, m))
           p      == Push(st, <<m.id, 0>>, body)
<1>1. Told(st.rows, st.claims) /\ Lawful(st.rows)
  BY RunTells DEF Running, Extends
<1>2. \/ new = st
      \/ ids # {} /\ Retractable(st.claims[target]) /\ new = AcceptAll(p, drafts, task)
  BY DEF UpdateNote
<1>3. ids \subseteq DOMAIN st.claims
  BY DEF CurrentQuoted
<1>4. ids # {} => target \in ids
  <2> HIDE DEF ids
  <2> QED BY <1>1, <1>3, ChosenClaims DEF Told
<1>5. CASE new = st
  BY <1>5
<1>6. CASE ids # {} /\ Retractable(st.claims[target]) /\ new = AcceptAll(p, drafts, task)
  <2>1. Running(past, p) /\ st.rows \subseteq p.rows
    <3> HIDE DEF target
    <3> QED BY <1>4, <1>6, PushRetraction
  <2>2. Len(drafts) \in Nat /\ \A k \in 1..Len(drafts) : DraftOf(st.rows, m, drafts[k])
    <3>1. SupportById(st.rows, m) = NONE \/ SupportById(st.rows, m) \in st.rows
      BY <1>1, SupportIsRow
    <3> QED BY <1>1, <3>1, NaturalDraftsAre
  <2> HIDE DEF p, drafts, task
  <2>3. \A k \in 1..Len(drafts) : DraftOf(p.rows, m, drafts[k])
    BY <2>1, <2>2, DraftOfGrows
  <2>4. m \in p.rows
    BY <2>1
  <2>5. Running(past, new) /\ p.rows \subseteq new.rows
    BY <1>6, <2>1, <2>2, <2>3, <2>4, AcceptAllRuns
  <2> QED BY <2>1, <2>5
<1> QED BY <1>2, <1>5, <1>6

LEMMA QuoteRuns ==
  ASSUME NEW past, NEW st, Running(past, st), NEW m \in st.rows, m \in SaidRow,
         m.role \notin {"retract", "update"}, NEW new, new = QuoteNote(st, m)
  PROVE  /\ Running(past, new) /\ st.rows \subseteq new.rows
         /\ \/ /\ new = st
               /\ LET task   == NoteTask(st.rows, m)
                      drafts == DraftsForNote(m, Support(st.rows, m))
                  IN  task = NONE \/ \A k \in 1..Len(drafts) : ~Admits(st, st.seen, drafts[k], task)
            \/ m.id \in CitedNotes(new.rows)
<1> DEFINE task == NoteTask(st.rows, m)
           drafts == DraftsForNote(m, Support(st.rows, m))
<1>1. Lawful(st.rows)
  BY DEF Running, Extends
<1>2. CASE task = NONE
  BY <1>2 DEF QuoteNote
<1>3. CASE task # NONE
  <2>1. new = AcceptAll(st, drafts, task)
    BY <1>3 DEF QuoteNote
  <2>2. Len(drafts) \in Nat /\ \A k \in 1..Len(drafts) : DraftOf(st.rows, m, drafts[k])
    BY <1>1, SupportIsRow, DraftsAre
  <2> HIDE DEF drafts, task
  <2>3. /\ Running(past, new) /\ st.rows \subseteq new.rows
        /\ \/ /\ new = st
              /\ \A k \in 1..Len(drafts) : ~Admits(st, st.seen, drafts[k], task)
           \/ m.id \in CitedNotes(new.rows)
    BY <2>1, <2>2, AcceptAllRuns
  <2> QED BY <2>3 DEF drafts, task
<1> QED BY <1>2, <1>3

LEMMA NoteRuns ==
  ASSUME NEW past, NEW st, Running(past, st), NEW m \in st.rows, m \in SaidRow,
         NEW new, new = ExtractNote(st, m)
  PROVE  Running(past, new) /\ st.rows \subseteq new.rows
<1>1. CASE m.role = "retract"
  BY <1>1, RetractRuns DEF ExtractNote
<1>2. CASE m.role = "update"
  BY <1>2, UpdateRuns DEF ExtractNote
<1>3. CASE m.role \notin {"retract", "update"}
  <2>1. new = QuoteNote(st, m)
    BY <1>3 DEF ExtractNote
  <2> QED BY <1>3, <2>1, QuoteRuns
<1> QED BY <1>1, <1>2, <1>3

-----------------------------------------------------------------------------
(* Parts of a log, and logs that share its rows.                           *)

LEMMA DownLawful ==
  ASSUME NEW past, Lawful(past), NEW R, R \subseteq past,
         \A e \in R, f \in past : Precedes(f, e) => f \in R
  PROVE  Lawful(R)
<1>1. Sorted(R)
  BY SomeRowsSorted DEF Lawful
<1>2. \A e, f \in R : e.id = f.id /\ ~Extracted(e) => e = f
  BY DEF Lawful
<1>3. ASSUME NEW e \in R PROVE e \in ToolRow \cup SaidRow \cup AskedRow \/ Quotes(R, e)
  <2>1. CASE e \in ToolRow \cup SaidRow \cup AskedRow
    BY <2>1
  <2>2. CASE Quotes(past, e)
    <3>1. e \in Written /\ Extracted(e) /\ Modest(e.body) /\ e.id[1] \in e.body.evidence
      BY <2>2 DEF Quotes
    <3>2. PICK m \in past :
            /\ m.source = "note" /\ m.id = e.id[1] /\ Precedes(m, e)
            /\ \/ /\ e.body.op = "assert" /\ e.body.claim_id = <<"authored", e.id>>
                  /\ e.body.supersedes = NONE
                  /\ e.id[2] \in DOMAIN m.says /\ e.body.text = m.says[e.id[2]].text
               \/ /\ e.body.op = "supersede"
                  /\ \E f \in past : /\ Precedes(f, e)
                                     /\ f.source = "claim" /\ f.body.op = "assert"
                                     /\ f.body.claim_id = e.body.supersedes
                                     /\ f.body.text = m.quotes
      BY <2>2 DEF Quotes
    <3>3. m \in R
      BY <3>2
    <3>4. \A f \in past : Precedes(f, e) => f \in R
      OBVIOUS
    <3> QED BY <3>1, <3>2, <3>3, <3>4 DEF Quotes
  <2> QED BY <2>1, <2>2 DEF Lawful
<1> QED BY <1>1, <1>2, <1>3 DEF Lawful

(* Reasons stay reasons in a log that keeps the rows no tool wrote.        *)
LEMMA ToldMoves ==
  ASSUME NEW past, Lawful(past), NEW more, Lawful(more),
         \A e \in past : e.source # "shell" => e \in more,
         NEW roster, Told(past, roster)
  PROVE  Told(more, roster)
<1>1. ClaimRows(past) \subseteq ClaimRows(more)
  BY DEF ClaimRows
<1>2. ASSUME NEW e \in ClaimRows(past), Extracted(e)
      PROVE  RowById(more, e.id[1]) = RowById(past, e.id[1])
  <2>1. Quotes(past, e)
    BY <1>2, KindOf DEF ClaimRows
  <2>2. PICK m \in past : m.source = "note" /\ m.id = e.id[1]
    BY <2>1 DEF Quotes
  <2>3. m \in more /\ m \in SaidRow
    BY <2>2, KindOf
  <2>4. ~Extracted(m)
    BY <2>3, SourcesOf
  <2>5. RowById(past, m.id) = m
    BY <2>4, NamedRow
  <2>6. RowById(more, m.id) = m
    BY <2>3, <2>4, NamedRow
  <2> QED BY <2>2, <2>5, <2>6
<1>3. ASSUME NEW i, NEW c PROVE Reasons(past, i, c) \subseteq Reasons(more, i, c)
  <2>1. SUFFICES ASSUME NEW e \in Reasons(past, i, c) PROVE e \in Reasons(more, i, c)
    OBVIOUS
  <2>2. e \in ClaimRows(past) /\ e \in ClaimRows(more)
    BY <1>1, <2>1 DEF Reasons
  <2>3. Extracted(e) => RowById(more, e.id[1]) = RowById(past, e.id[1])
    BY <1>2, <2>2
  <2> QED BY <2>1, <2>2, <2>3 DEF Reasons
<1>4. HasReason(more, roster)
  BY <1>3 DEF Told, HasReason
<1> QED BY <1>1, <1>4 DEF Told

-----------------------------------------------------------------------------
(* Notes that are passed over.  Of what the gate looks at, only what is    *)
(* known already can grow.                                                 *)

Blocked(past, d, task) ==
  \/ task \notin FailingSubjects(past)
  \/ <<d.kind, d.text>> \in SeedSeen(past)
  \/ d.kind = "reality" /\ (d.support = NONE \/ d.text \notin RowById(past, d.support).output)
  \/ ~Validate(DraftBody(d, task))

PassedOver(past, n) ==
  LET task   == NoteTask(past, n)
      drafts == DraftsForNote(n, Support(past, n))
  IN  task = NONE \/ \A k \in 1..Len(drafts) : Blocked(past, drafts[k], task)

Quoting(n) == n.role \notin {"retract", "update"}

AllPassed(past) == \A n \in Uncited(past) : Quoting(n) => PassedOver(past, n)

LEMMA AdmitsUnlessBlocked ==
  ASSUME NEW past, NEW st, Running(past, st), NEW m \in st.rows, m \in SaidRow,
         NEW d, DraftOf(st.rows, m, d), NEW task, ~Admits(st, st.seen, d, task)
  PROVE  Blocked(st.rows, d, task)
<1> DEFINE b == DraftBody(d, task)
<1>1. Told(st.rows, st.claims) /\ st.seen = SeedSeen(st.rows)
  BY RunTells DEF Running
<1>2. \A id \in d.evidence : HasRow(st.rows, id)
  BY DEF DraftOf, HasRow, IsTool
<1>3. ValidateAgainstProjection(b, st.claims)
  <2>1. Target(b) = NONE
    BY DEF Target, DraftBody
  <2>2. \A i \in CurrentSlot(st.claims, b.task_id, "next_action", FRONTIER_SUBJECT) :
          st.claims[i].origin # "user"
    BY <1>1 DEF CurrentSlot, Told
  <2> HIDE DEF b
  <2> QED BY <2>1, <2>2 DEF ValidateAgainstProjection
<1> QED BY <1>1, <1>2, <1>3 DEF Admits, Blocked

LEMMA SameTask ==
  ASSUME NEW past, NEW more, Shells(past) = Shells(more), NEW n
  PROVE  /\ NoteTask(more, n) = NoteTask(past, n)
         /\ FailingSubjects(more) = FailingSubjects(past)
<1>1. \A e : Alike(past, e) = Alike(more, e)
  BY DEF Alike
<1>2. StillFailing(past, n.session) = StillFailing(more, n.session)
  BY <1>1 DEF StillFailing
<1>3. FailingSubjects(more) = FailingSubjects(past)
  BY DEF FailingSubjects
<1> QED BY <1>2, <1>3 DEF NoteTask

LEMMA PassedStays ==
  ASSUME NEW past, Lawful(past), NEW more, Lawful(more), past \subseteq more,
         NEW n \in past, n.source = "note", Quoting(n), PassedOver(past, n),
         \A e \in more : e \in past \/ (e.source = "claim" /\ Precedes(n, e))
  PROVE  PassedOver(more, n)
<1>1. n \in SaidRow
  BY KindOf
<1>2. Shells(past) = Shells(more)
  BY DEF Shells
<1>3. ASSUME NEW id, id \in Run, HasRow(more, id)
      PROVE  HasRow(past, id) /\ RowById(more, id) = RowById(past, id)
  <2>1. PICK e \in more : e.id = id
    BY <1>3 DEF HasRow
  <2>2. ~Extracted(e)
    BY <1>3, <2>1, HandoffAssumption DEF Extracted
  <2>3. e \in past
    <3>1. SUFFICES ASSUME e \notin past PROVE FALSE
      OBVIOUS
    <3>2. e.source = "claim" /\ e \in AskedRow
      BY <2>2, <3>1, KindOf DEF Quotes
    <3>3. e.id \in Request
      BY <3>2, SourcesOf
    <3> QED BY <1>3, <2>1, <3>3, RequestsAssumption
  <2> QED BY <2>1, <2>2, <2>3, NamedRow DEF HasRow
<1>4. Support(more, n) = Support(past, n)
  <2>1. n.support = NONE \/ n.support \in Run
    BY <1>1 DEF SaidRow
  <2>2. HasRow(past, n.support) => HasRow(more, n.support)
    BY DEF HasRow
  <2>3. SupportById(more, n) = SupportById(past, n)
    <3>1. CASE n.support = NONE
      BY <3>1 DEF SupportById
    <3>2. CASE n.support \in Run
      BY <1>3, <2>2, <3>2 DEF SupportById
    <3> QED BY <2>1, <3>1, <3>2
  <2>4. {e \in more : Precedes(e, n)} = {e \in past : Precedes(e, n)}
    <3>1. \A e \in more : Precedes(n, e) => ~Precedes(e, n)
      BY PrecedesOnce DEF Lawful, Sorted
    <3> QED BY <3>1
  <2> QED BY <2>3, <2>4 DEF Support
<1> DEFINE task == NoteTask(past, n)
           drafts == DraftsForNote(n, Support(past, n))
<1>5. NoteTask(more, n) = task /\ FailingSubjects(more) = FailingSubjects(past)
  BY <1>2, SameTask
<1>6. DraftsForNote(n, Support(more, n)) = drafts
  BY <1>4
<1>7. \A k \in 1..Len(drafts) : DraftOf(past, n, drafts[k])
  BY <1>1, SupportIsRow, DraftsAre DEF Quoting
<1>8. task = NONE \/ \A k \in 1..Len(drafts) : Blocked(past, drafts[k], task)
  BY DEF PassedOver
<1> HIDE DEF task, drafts
<1>9. ASSUME NEW k \in 1..Len(drafts), Blocked(past, drafts[k], task)
      PROVE  Blocked(more, drafts[k], task)
  <2> DEFINE d == drafts[k]
  <2>1. d.support # NONE => RowById(more, d.support) = RowById(past, d.support)
    <3>1. d.support # NONE => d.support \in Run /\ HasRow(more, d.support)
      BY <1>7 DEF DraftOf, IsTool, ToolRow, HasRow
    <3> QED BY <1>3, <3>1
  <2>2. SeedSeen(past) \subseteq SeedSeen(more)
    BY DEF SeedSeen, ClaimRows
  <2> HIDE DEF d
  <2>3. Blocked(past, d, task) => Blocked(more, d, task)
    BY <1>5, <2>1, <2>2 DEF Blocked
  <2> QED BY <1>9, <2>3 DEF d
<1>10. task = NONE \/ \A k \in 1..Len(drafts) : Blocked(more, drafts[k], task)
  BY <1>8, <1>9
<1> QED BY <1>5, <1>6, <1>10 DEF PassedOver

-----------------------------------------------------------------------------
(* A whole extraction.                                                     *)

LEMMA StartedRuns ==
  ASSUME NEW past, Lawful(past)
  PROVE  Running(past, Started(past))
<1> DEFINE st == Started(past)
<1>1. /\ st = [rows |-> st.rows, todo |-> st.todo, seen |-> st.seen, claims |-> st.claims]
      /\ st.rows = past /\ st.todo = <<>> /\ st.seen = SeedSeen(past)
      /\ st.claims = Folded(FoldRows(past)).claims
  BY DEF Started
<1> HIDE DEF st
<1>2. Queued(st.todo) = {} /\ Increasing(st.todo) /\ st.todo \in Seq(past)
  BY <1>1 DEF Queued, Increasing
<1> QED BY <1>1, <1>2 DEF Running, Extends, st

(* A note is passed over, or some claim cites it.                          *)
Met(st, n) == Quoting(n) => PassedOver(st.rows, n) \/ n.id \in CitedNotes(st.rows)

LEMMA QuotedOrPassed ==
  ASSUME NEW past, NEW st, Running(past, st), NEW m \in st.rows, m \in SaidRow,
         NEW new, new = ExtractNote(st, m)
  PROVE  Met(new, m)
<1>1. SUFFICES ASSUME Quoting(m) PROVE PassedOver(new.rows, m) \/ m.id \in CitedNotes(new.rows)
  BY DEF Met
<1> DEFINE task   == NoteTask(st.rows, m)
           drafts == DraftsForNote(m, Support(st.rows, m))
<1>2. new = QuoteNote(st, m)
  BY <1>1 DEF ExtractNote, Quoting
<1>3. \/ /\ new = st
         /\ task = NONE \/ \A k \in 1..Len(drafts) : ~Admits(st, st.seen, drafts[k], task)
      \/ m.id \in CitedNotes(new.rows)
  BY <1>1, <1>2, QuoteRuns DEF Quoting
<1>4. ASSUME new = st, NEW k \in 1..Len(drafts), ~Admits(st, st.seen, drafts[k], task)
      PROVE  Blocked(st.rows, drafts[k], task)
  <2>1. Lawful(st.rows)
    BY DEF Running, Extends
  <2>2. \A j \in 1..Len(drafts) : DraftOf(st.rows, m, drafts[j])
    BY <1>1, <2>1, SupportIsRow, DraftsAre DEF Quoting
  <2> HIDE DEF drafts, task
  <2> QED BY <1>4, <2>2, AdmitsUnlessBlocked
<1>5. CASE m.id \in CitedNotes(new.rows)
  BY <1>5
<1>6. CASE /\ new = st
           /\ task = NONE \/ \A k \in 1..Len(drafts) : ~Admits(st, st.seen, drafts[k], task)
  <2>1. task = NONE \/ \A k \in 1..Len(drafts) : Blocked(st.rows, drafts[k], task)
    <3> HIDE DEF drafts, task
    <3> QED BY <1>4, <1>6
  <2> QED BY <1>6, <2>1 DEF PassedOver
<1> QED BY <1>3, <1>5, <1>6

LEMMA MetStays ==
  ASSUME NEW past, NEW st, Running(past, st), NEW new, Running(past, new),
         st.rows \subseteq new.rows, NEW n \in past, n.source = "note", Met(st, n)
  PROVE  Met(new, n)
<1>1. Lawful(st.rows) /\ Lawful(new.rows) /\ n \in st.rows
  BY DEF Running, Extends
<1>2. \A e \in new.rows : e \in st.rows \/ (e.source = "claim" /\ Precedes(n, e))
  <2>1. SUFFICES ASSUME NEW e \in new.rows, e \notin st.rows
                 PROVE  e.source = "claim" /\ Precedes(n, e)
    OBVIOUS
  <2>2. e \in Queued(new.todo)
    BY <2>1 DEF Running, Extends
  <2>3. Extracted(e) /\ Precedes(n, e)
    BY <2>2 DEF Running, Extends
  <2>4. Quotes(new.rows, e)
    BY <1>1, <2>3, KindOf
  <2> QED BY <2>3, <2>4, SourcesOf
<1>3. Quoting(n) /\ PassedOver(st.rows, n) => PassedOver(new.rows, n)
  BY <1>1, <1>2, PassedStays
<1>4. CitedNotes(st.rows) \subseteq CitedNotes(new.rows)
  BY CitesGrow
<1> QED BY <1>3, <1>4 DEF Met

LEMMA ExtractionRuns ==
  ASSUME NEW past, Lawful(past)
  PROVE  /\ Running(past, Extraction(past))
         /\ AllPassed(Extraction(past).rows)
<1> DEFINE U == Uncited(past)
           X(R) == Extracting(Started(past), U)[R]
           Good(R) == /\ Running(past, X(R)) /\ past \subseteq X(R).rows
                      /\ \A n \in R : Met(X(R), n)
           G == {R \in SUBSET U : Good(R)}
<1>1. U \subseteq past /\ \A n \in U : n.source = "note" /\ n \in SaidRow
  BY KindOf DEF Uncited
<1>2. Sorted(U)
  BY <1>1, SomeRowsSorted DEF Lawful
<1>3. /\ X({}) = Started(past)
      /\ \A R \in SUBSET U : R # {} => X(R) = ExtractNote(X(R \ {LatestOf(R)}), LatestOf(R))
  <2> HIDE DEF U, G, X
  <2>1. /\ Extracting(Started(past), U)[{}] = Started(past)
        /\ \A R \in SUBSET U : R # {} =>
             Extracting(Started(past), U)[R]
               = ExtractNote(Extracting(Started(past), U)[R \ {LatestOf(R)}], LatestOf(R))
    BY ONLY <1>2, ExtractingDef
  <2> QED BY <2>1 DEF X
<1> HIDE DEF X, U
<1>4. {} \in G
  <2>1. Running(past, Started(past)) /\ Started(past).rows = past
    BY StartedRuns DEF Started
  <2> QED BY <1>3, <2>1
<1>5. ASSUME NEW R \in SUBSET U, R # {}, R \ {LatestOf(R)} \in G PROVE R \in G
  <2> DEFINE n == LatestOf(R)
             old == X(R \ {n})
             new == X(R)
  <2>1. n \in R /\ n \in U
    BY <1>2, <1>5, LatestIs
  <2>2. /\ Running(past, old) /\ past \subseteq old.rows
        /\ \A m \in R \ {n} : Met(old, m)
    BY <1>5
  <2>3. new = ExtractNote(old, n)
    BY <1>3, <1>5
  <2> HIDE DEF n, old, new
  <2>4. n \in old.rows /\ n \in SaidRow
    BY <1>1, <2>1, <2>2
  <2>5. Running(past, new) /\ old.rows \subseteq new.rows
    BY <2>2, <2>3, <2>4, NoteRuns
  <2>6. Met(new, n)
    BY <2>2, <2>3, <2>4, QuotedOrPassed
  <2>7. \A m \in R \ {n} : Met(new, m)
    <3>1. SUFFICES ASSUME NEW m \in R \ {n} PROVE Met(new, m)
      OBVIOUS
    <3>2. m \in past /\ m.source = "note" /\ Met(old, m)
      BY <1>1, <2>2
    <3> QED BY <2>2, <2>5, <3>2, MetStays
  <2>8. Running(past, new) /\ past \subseteq new.rows /\ \A m \in R : Met(new, m)
    BY <2>2, <2>5, <2>6, <2>7
  <2> QED BY <2>8 DEF new
<1>6. U \in G
  <2> HIDE DEF G
  <2>1. SUBSET U \subseteq G
    BY <1>2, <1>4, <1>5, RowInduction
  <2> QED BY <2>1
<1> DEFINE st == Extraction(past)
<1>7. st = X(U)
  BY DEF Extraction, X, U
<1> HIDE DEF st
<1>8. Running(past, st) /\ past \subseteq st.rows /\ \A n \in U : Met(st, n)
  BY <1>6, <1>7
<1>9. Lawful(st.rows) /\ st.rows = past \cup Queued(st.todo)
      /\ \A e \in Queued(st.todo) : Extracted(e)
  BY <1>8 DEF Running, Extends
<1>10. ASSUME NEW n \in Uncited(st.rows), Quoting(n) PROVE PassedOver(st.rows, n)
  <2>1. n \in st.rows /\ n.source = "note" /\ n.id \notin CitedNotes(st.rows)
    BY DEF Uncited
  <2>2. n \in past
    <3>1. SUFFICES ASSUME n \notin past PROVE FALSE
      OBVIOUS
    <3>2. Extracted(n)
      BY <1>9, <2>1, <3>1
    <3>3. n.source = "claim"
      BY <1>9, <2>1, <3>2, KindOf, SourcesOf
    <3> QED BY <2>1, <3>3
  <2>3. n.id \notin CitedNotes(past)
    BY <1>8, <2>1, CitesGrow
  <2>4. n \in U
    BY <2>1, <2>2, <2>3 DEF U, Uncited
  <2> QED BY <1>8, <1>10, <2>1, <2>4 DEF Met
<1>11. AllPassed(st.rows)
  BY <1>10 DEF AllPassed
<1> QED BY <1>8, <1>11 DEF st

-----------------------------------------------------------------------------
(* An extraction of a log whose notes are all passed over.                 *)

LEMMA AcceptsNone ==
  ASSUME NEW st, NEW drafts, Len(drafts) \in Nat, NEW task,
         \A k \in 1..Len(drafts) : ~Admits(st, st.seen, drafts[k], task)
  PROVE  AcceptAll(st, drafts, task) = st
<1> DEFINE after(n) == Accepting(st, drafts, task)[n]
           T == {n \in 0..Len(drafts) : after(n) = st}
<1> HIDE DEF T
<1>1. after(0) = st /\ \A n \in 1..Len(drafts) : after(n) = Accept(after(n - 1), drafts[n], task)
  BY AcceptingDef
<1> USE DEF T
<1> HIDE DEF after
<1>2. 0 \in T
  BY <1>1
<1>3. ASSUME NEW n \in 1..Len(drafts), n - 1 \in T PROVE n \in T
  <2>1. after(n) = Accept(st, drafts[n], task)
    BY <1>1, <1>3
  <2>2. after(n) = st
    BY <2>1 DEF Accept
  <2> QED BY <2>2
<1>4. Len(drafts) \in T
  <2>1. Len(drafts) \in 0..Len(drafts)
    OBVIOUS
  <2> HIDE DEF T
  <2> QED BY <1>2, <1>3, <2>1, UpTo
<1> QED BY <1>4 DEF AcceptAll, after

LEMMA PassedAddsNothing ==
  ASSUME NEW past, Lawful(past), NEW n \in past, n \in SaidRow, Quoting(n),
         PassedOver(past, n)
  PROVE  ExtractNote(Started(past), n) = Started(past)
<1> DEFINE st     == Started(past)
           task   == NoteTask(past, n)
           drafts == DraftsForNote(n, Support(past, n))
<1>1. st.rows = past /\ st.seen = SeedSeen(past)
  BY DEF Started
<1> HIDE DEF st
<1>2. ExtractNote(st, n) = QuoteNote(st, n)
  BY DEF ExtractNote, Quoting
<1>3. QuoteNote(st, n) = IF task = NONE THEN st ELSE AcceptAll(st, drafts, task)
  BY <1>1 DEF QuoteNote
<1>4. CASE task = NONE
  BY <1>2, <1>3, <1>4 DEF st
<1>5. CASE task # NONE
  <2>1. Len(drafts) \in Nat
    BY SupportIsRow, DraftsAre DEF Quoting
  <2>2. \A k \in 1..Len(drafts) : Blocked(past, drafts[k], task)
    BY <1>5 DEF PassedOver
  <2> HIDE DEF drafts, task
  <2>3. \A k \in 1..Len(drafts) : ~Admits(st, st.seen, drafts[k], task)
    BY <1>1, <2>2 DEF Blocked, Admits
  <2>4. AcceptAll(st, drafts, task) = st
    BY <2>1, <2>3, AcceptsNone
  <2> QED BY <1>2, <1>3, <1>5, <2>4 DEF st
<1> QED BY <1>4, <1>5

LEMMA NothingLeft ==
  ASSUME NEW past, Lawful(past), AllPassed(past), ~Retracts(past)
  PROVE  Extraction(past).todo = <<>>
<1> DEFINE U == Uncited(past)
           st == Started(past)
           X(R) == Extracting(st, U)[R]
           G == {R \in SUBSET U : X(R) = st}
<1>1. U \subseteq past /\ \A n \in U : /\ n \in SaidRow /\ n.source = "note"
                                       /\ Quoting(n) /\ PassedOver(past, n)
  <2>1. ASSUME NEW n \in U
        PROVE  n \in past /\ n \in SaidRow /\ n.source = "note" /\ Quoting(n)
    BY KindOf DEF Uncited, Retracts, Quoting
  <2> QED BY <2>1 DEF AllPassed
<1>2. Sorted(U)
  BY <1>1, SomeRowsSorted DEF Lawful
<1>3. /\ X({}) = st
      /\ \A R \in SUBSET U : R # {} => X(R) = ExtractNote(X(R \ {LatestOf(R)}), LatestOf(R))
  <2> HIDE DEF U, st
  <2> QED BY <1>2, ExtractingDef
<1> HIDE DEF X, U
<1>4. {} \in G
  BY <1>3
<1>5. ASSUME NEW R \in SUBSET U, R # {}, R \ {LatestOf(R)} \in G PROVE R \in G
  <2>1. LatestOf(R) \in U
    BY <1>2, <1>5, LatestIs
  <2>2. ExtractNote(st, LatestOf(R)) = st
    <3>1. /\ LatestOf(R) \in past /\ LatestOf(R) \in SaidRow /\ Quoting(LatestOf(R))
          /\ PassedOver(past, LatestOf(R))
      BY <1>1, <2>1
    <3> QED BY <3>1, PassedAddsNothing
  <2> HIDE DEF st
  <2>3. X(R) = ExtractNote(X(R \ {LatestOf(R)}), LatestOf(R)) /\ X(R \ {LatestOf(R)}) = st
    BY <1>3, <1>5
  <2> QED BY <2>2, <2>3
<1>6. X(U) = st
  <2> HIDE DEF G
  <2>1. SUBSET U \subseteq G
    BY <1>2, <1>4, <1>5, RowInduction
  <2>2. U \in G
    BY <2>1
  <2> QED BY <2>2 DEF G
<1>7. Extraction(past) = st
  BY <1>6 DEF Extraction, X, U
<1> QED BY <1>7 DEF Started

-----------------------------------------------------------------------------
(* The worker's compaction takes a row's output and nothing else of it.    *)

LEMMA EarliestIs ==
  ASSUME NEW past, Sorted(past), NEW R, R \subseteq past, R # {}
  PROVE  /\ EarliestOf(R) \in R
         /\ \A f \in R : f = EarliestOf(R) \/ Precedes(EarliestOf(R), f)
<1> DEFINE O == {p \in past \X past : Precedes(p[1], p[2])}
<1>1. \A e, f \in past : <<e, f>> \in O <=> Precedes(e, f)
  OBVIOUS
<1>2. IsOrder(O, past)
  <2>1. \A e, f \in past : e.ts \in Nat /\ f.ts \in Nat
    BY DEF Sorted
  <2>2. \A e \in past : ~Precedes(e, e)
    BY <2>1 DEF Precedes
  <2>3. \A e, f, g \in past : Precedes(e, f) /\ Precedes(f, g) => Precedes(e, g)
    BY <2>1 DEF Precedes
  <2> HIDE DEF O
  <2> QED BY <1>1, <2>2, <2>3 DEF IsOrder
<1> HIDE DEF O
<1>3. PICK r \in R : \A s \in R : <<s, r>> \notin O
  BY <1>2, FirstInOrder DEF Sorted
<1>4. \A f \in R : f = r \/ Precedes(r, f)
  BY <1>1, <1>3 DEF Sorted
<1> QED BY <1>4 DEF EarliestOf

LEMMA EarliestUnique ==
  ASSUME NEW past, Sorted(past), NEW R, R \subseteq past, NEW e \in R,
         \A f \in R : f = e \/ Precedes(e, f)
  PROVE  EarliestOf(R) = e
<1>1. /\ EarliestOf(R) \in R
      /\ \A f \in R : f = EarliestOf(R) \/ Precedes(EarliestOf(R), f)
  BY EarliestIs
<1>2. e = EarliestOf(R) \/ (Precedes(EarliestOf(R), e) /\ Precedes(e, EarliestOf(R)))
  BY <1>1
<1>3. e.ts \in Nat /\ EarliestOf(R).ts \in Nat
  BY <1>1 DEF Sorted
<1> QED BY <1>2, <1>3, PrecedesOnce

Cut(e, x) == IF x = e THEN [e EXCEPT !.output = {}] ELSE x
CutAll(e, R) == {Cut(e, x) : x \in R}

(* What no row loses.                                                      *)
Alter(x, y) ==
  /\ y.id = x.id /\ y.ts = x.ts /\ y.source = x.source
  /\ x.source = "shell" =>
       /\ y \in ToolRow /\ y.command = x.command /\ y.exit_code = x.exit_code
       /\ y.session = x.session /\ y.reads = x.reads /\ y.output \subseteq x.output

LEMMA CutAlters ==
  ASSUME NEW past, Lawful(past), NEW e \in past, e \in ToolRow, NEW x \in past
  PROVE  /\ Alter(x, Cut(e, x))
         /\ x # e => Cut(e, x) = x
         /\ Cut(e, e) \in ToolRow /\ Cut(e, e).output = {}
<1>1. /\ [e EXCEPT !.output = {}] \in ToolRow /\ [e EXCEPT !.output = {}].output = {}
      /\ Alter(e, [e EXCEPT !.output = {}])
  BY DEF ToolRow, Alter
<1>2. Cut(e, e) = [e EXCEPT !.output = {}]
  BY DEF Cut
<1>3. CASE x = e
  BY <1>1, <1>2, <1>3
<1>4. CASE x # e
  <2>1. Cut(e, x) = x
    BY <1>4 DEF Cut
  <2>2. Alter(x, x)
    BY KindOf DEF Alter
  <2> QED BY <1>1, <1>2, <2>1, <2>2
<1> QED BY <1>3, <1>4

LEMMA CutOnce ==
  ASSUME NEW past, Lawful(past), NEW e \in past, e \in ToolRow,
         NEW x \in past, NEW y \in past, Cut(e, x) = Cut(e, y)
  PROVE  x = y
<1>1. Alter(x, Cut(e, x)) /\ Alter(y, Cut(e, y))
  BY CutAlters
<1>2. x.id = y.id
  BY <1>1 DEF Alter
<1>3. CASE x = e \/ y = e
  <2>1. ~Extracted(e)
    BY SourcesOf
  <2> QED BY <1>2, <1>3, <2>1 DEF Lawful
<1>4. CASE x # e /\ y # e
  BY <1>4 DEF Cut
<1> QED BY <1>3, <1>4

LEMMA CutPrecedes ==
  ASSUME NEW past, Lawful(past), NEW e \in past, e \in ToolRow,
         NEW x \in past, NEW y \in past
  PROVE  /\ Precedes(Cut(e, x), Cut(e, y)) <=> Precedes(x, y)
         /\ Extracted(Cut(e, x)) <=> Extracted(x)
<1>1. Alter(x, Cut(e, x)) /\ Alter(y, Cut(e, y))
  BY CutAlters
<1> QED BY <1>1 DEF Alter, Precedes, Extracted

LEMMA CutLawful ==
  ASSUME NEW past, Lawful(past), NEW e \in past, e \in ToolRow
  PROVE  Lawful(CutAll(e, past))
<1> DEFINE more == CutAll(e, past)
<1>1. \A y : y \in more <=> \E x \in past : y = Cut(e, x)
  BY DEF CutAll
<1>2. IsFiniteSet(more)
  <2> DEFINE f == [x \in past |-> Cut(e, x)]
  <2>1. IsFiniteSet(past) /\ DOMAIN f = past
    BY DEF Lawful, Sorted
  <2>2. {f[x] : x \in past} = more
    BY DEF CutAll
  <2> HIDE DEF f, more
  <2>3. IsFiniteSet({f[x] : x \in past})
    BY <2>1, ImagesAreFinite
  <2> QED BY <2>2, <2>3
<1>3. \A x \in past : Alter(x, Cut(e, x)) /\ (x # e => Cut(e, x) = x) /\ Cut(e, e) \in ToolRow
  BY CutAlters
<1> HIDE DEF more
<1>4. \A y \in more : y.ts \in Nat
  BY <1>1, <1>3 DEF Alter, Lawful, Sorted
<1>5. \A y, z \in more : y = z \/ Precedes(y, z) \/ Precedes(z, y)
  <2>1. SUFFICES ASSUME NEW y \in more, NEW z \in more
                 PROVE  y = z \/ Precedes(y, z) \/ Precedes(z, y)
    OBVIOUS
  <2>2. PICK u \in past : y = Cut(e, u)
    BY <1>1
  <2>3. PICK v \in past : z = Cut(e, v)
    BY <1>1
  <2>4. u = v \/ Precedes(u, v) \/ Precedes(v, u)
    BY DEF Lawful, Sorted
  <2> QED BY <2>2, <2>3, <2>4, CutPrecedes
<1>6. \A y, z \in more : y.id = z.id /\ ~Extracted(y) => y = z
  <2>1. SUFFICES ASSUME NEW y \in more, NEW z \in more, y.id = z.id, ~Extracted(y)
                 PROVE  y = z
    OBVIOUS
  <2>2. PICK u \in past : y = Cut(e, u)
    BY <1>1
  <2>3. PICK v \in past : z = Cut(e, v)
    BY <1>1
  <2>4. u.id = v.id /\ ~Extracted(u)
    BY <1>3, <2>1, <2>2, <2>3, CutPrecedes DEF Alter
  <2>5. u = v
    BY <2>4 DEF Lawful
  <2> QED BY <2>2, <2>3, <2>5
<1>7. ASSUME NEW y \in more PROVE y \in ToolRow \cup SaidRow \cup AskedRow \/ Quotes(more, y)
  <2>1. PICK x \in past : y = Cut(e, x)
    BY <1>1
  <2>2. CASE x = e
    BY <1>3, <2>1, <2>2
  <2>3. CASE x # e
    <3>1. y = x
      BY <1>3, <2>1, <2>3
    <3>2. \A z \in past : z.source # "shell" => z \in more
      <4>1. e.source = "shell"
        BY SourcesOf
      <4> QED BY <1>1, <1>3, <4>1
    <3>3. Quotes(past, x) => Quotes(more, x)
      BY <3>2 DEF Quotes
    <3> QED BY <3>1, <3>3 DEF Lawful
  <2> QED BY <2>2, <2>3
<1>8. Lawful(more)
  BY <1>2, <1>4, <1>5, <1>6, <1>7 DEF Lawful, Sorted
<1> QED BY <1>8 DEF more

LEMMA CutEnds ==
  ASSUME NEW past, Lawful(past), NEW e \in past, e \in ToolRow,
         NEW R, R \subseteq past, R # {}
  PROVE  /\ LatestOf(R) \in R /\ LatestOf(CutAll(e, R)) = Cut(e, LatestOf(R))
         /\ EarliestOf(R) \in R /\ EarliestOf(CutAll(e, R)) = Cut(e, EarliestOf(R))
<1> DEFINE l == LatestOf(R)
           k == EarliestOf(R)
           C == CutAll(e, R)
           more == CutAll(e, past)
<1>1. Sorted(past) /\ Sorted(more)
  BY CutLawful DEF Lawful
<1>2. /\ l \in R /\ \A f \in R : f = l \/ Precedes(f, l)
      /\ k \in R /\ \A f \in R : f = k \/ Precedes(k, f)
  BY <1>1, LatestIs, EarliestIs
<1>3. C \subseteq more /\ \A y : y \in C <=> \E x \in R : y = Cut(e, x)
  BY DEF CutAll
<1> HIDE DEF l, k, C, more
<1>4. Cut(e, l) \in C /\ \A y \in C : y = Cut(e, l) \/ Precedes(y, Cut(e, l))
  BY <1>2, <1>3, CutPrecedes
<1>5. Cut(e, k) \in C /\ \A y \in C : y = Cut(e, k) \/ Precedes(Cut(e, k), y)
  BY <1>2, <1>3, CutPrecedes
<1>6. LatestOf(C) = Cut(e, l)
  BY <1>1, <1>3, <1>4, LatestUnique
<1>7. EarliestOf(C) = Cut(e, k)
  BY <1>1, <1>3, <1>5, EarliestUnique
<1> QED BY <1>2, <1>6, <1>7 DEF l, k, C

(* What is failing, and what a note is about, do not depend on outputs.    *)
LEMMA CutTask ==
  ASSUME NEW past, Lawful(past), NEW e \in past, e \in ToolRow,
         NEW more, more = CutAll(e, past), NEW n
  PROVE  /\ NoteTask(more, n) = NoteTask(past, n)
         /\ FailingSubjects(more) = FailingSubjects(past)
<1>1. \A x \in past : Alter(x, Cut(e, x))
  BY CutAlters
<1>2. \A y : y \in more <=> \E x \in past : y = Cut(e, x)
  BY DEF CutAll
<1>3. /\ Shells(past) \subseteq past
      /\ \A x \in past : x \in Shells(past) <=> Cut(e, x) \in Shells(more)
      /\ \A y : y \in Shells(more) <=> \E x \in Shells(past) : y = Cut(e, x)
  BY <1>1, <1>2 DEF Shells, Alter
<1>4. \A x \in Shells(past) : /\ Cut(e, x).command = x.command
                              /\ Cut(e, x).exit_code = x.exit_code
                              /\ Cut(e, x).session = x.session
  BY <1>1, <1>3 DEF Alter, Shells
<1>5. ASSUME NEW x \in Shells(past)
      PROVE  /\ Alike(more, Cut(e, x)) = CutAll(e, Alike(past, x))
             /\ Alike(past, x) \subseteq Shells(past) /\ x \in Alike(past, x)
  <2>1. Alike(past, x) \subseteq Shells(past) /\ x \in Alike(past, x)
    BY DEF Alike
  <2>2. ASSUME NEW y PROVE y \in Alike(more, Cut(e, x)) <=> y \in CutAll(e, Alike(past, x))
    <3>1. y \in Alike(more, Cut(e, x))
            <=> \E u \in Shells(past) : y = Cut(e, u) /\ u.session = x.session
                                        /\ Line[u.command] = Line[x.command]
      BY <1>3, <1>4 DEF Alike
    <3>2. y \in CutAll(e, Alike(past, x))
            <=> \E u \in Shells(past) : y = Cut(e, u) /\ u.session = x.session
                                        /\ Line[u.command] = Line[x.command]
      BY DEF CutAll, Alike
    <3> QED BY <3>1, <3>2
  <2>3. Alike(more, Cut(e, x)) = CutAll(e, Alike(past, x))
    BY <2>2
  <2> QED BY <2>1, <2>3
<1>6. ASSUME NEW x \in Shells(past)
      PROVE  /\ LatestOf(Alike(more, Cut(e, x))).exit_code = LatestOf(Alike(past, x)).exit_code
             /\ Cut(e, x) = EarliestOf(Alike(more, Cut(e, x))) <=> x = EarliestOf(Alike(past, x))
  <2> DEFINE R == Alike(past, x)
  <2>1. R \subseteq Shells(past) /\ R \subseteq past /\ R # {}
        /\ Alike(more, Cut(e, x)) = CutAll(e, R)
    BY <1>3, <1>5
  <2> HIDE DEF R
  <2>2. /\ LatestOf(R) \in R /\ LatestOf(CutAll(e, R)) = Cut(e, LatestOf(R))
        /\ EarliestOf(R) \in R /\ EarliestOf(CutAll(e, R)) = Cut(e, EarliestOf(R))
    BY <2>1, CutEnds
  <2>3. LatestOf(R) \in Shells(past) /\ EarliestOf(R) \in past /\ x \in past
    BY <1>3, <2>1, <2>2
  <2>4. Cut(e, LatestOf(R)).exit_code = LatestOf(R).exit_code
    BY <1>4, <2>3
  <2>5. Cut(e, x) = Cut(e, EarliestOf(R)) <=> x = EarliestOf(R)
    BY <2>3, CutOnce
  <2> QED BY <2>1, <2>2, <2>4, <2>5 DEF R
<1>7. StillFailing(more, n.session) = CutAll(e, StillFailing(past, n.session))
  <2> DEFINE Fails(L, x) == /\ x.session = n.session
                            /\ LatestOf(Alike(L, x)).exit_code \notin {NONE, 0}
                            /\ x = EarliestOf(Alike(L, x))
  <2>1. \A L : StillFailing(L, n.session) = {x \in Shells(L) : Fails(L, x)}
    BY DEF StillFailing
  <2>2. \A x \in Shells(past) : Fails(more, Cut(e, x)) <=> Fails(past, x)
    BY <1>4, <1>6
  <2> HIDE DEF Fails
  <2>3. ASSUME NEW y
        PROVE  y \in StillFailing(more, n.session)
                 <=> y \in CutAll(e, StillFailing(past, n.session))
    <3>1. y \in StillFailing(more, n.session)
            <=> \E x \in Shells(past) : y = Cut(e, x) /\ Fails(past, x)
      BY <1>3, <2>1, <2>2
    <3>2. y \in CutAll(e, StillFailing(past, n.session))
            <=> \E x \in Shells(past) : y = Cut(e, x) /\ Fails(past, x)
      BY <2>1 DEF CutAll
    <3> QED BY <3>1, <3>2
  <2> QED BY <2>3
<1>8. NoteTask(more, n) = NoteTask(past, n)
  <2> DEFINE F == StillFailing(past, n.session)
             G == StillFailing(more, n.session)
  <2>1. F \subseteq Shells(past) /\ F \subseteq past /\ G = CutAll(e, F)
    BY <1>3, <1>7 DEF StillFailing
  <2>2. /\ NoteTask(past, n) = IF F = {} THEN NONE ELSE EarliestOf(F).command
        /\ NoteTask(more, n) = IF G = {} THEN NONE ELSE EarliestOf(G).command
    BY DEF NoteTask
  <2> HIDE DEF F, G
  <2>3. F = {} <=> G = {}
    BY <2>1 DEF CutAll
  <2>4. F # {} => EarliestOf(G).command = EarliestOf(F).command
    <3>1. SUFFICES ASSUME F # {} PROVE EarliestOf(G).command = EarliestOf(F).command
      OBVIOUS
    <3>2. EarliestOf(F) \in F /\ EarliestOf(CutAll(e, F)) = Cut(e, EarliestOf(F))
      BY <2>1, <3>1, CutEnds
    <3> QED BY <1>4, <2>1, <3>2
  <2> QED BY <2>2, <2>3, <2>4
<1>9. FailingSubjects(more) = FailingSubjects(past)
  <2> DEFINE Of(L, c) == {x \in Shells(L) : x.command = c /\ x.exit_code # NONE}
  <2>1. \A L : FailingSubjects(L) = {c \in Command : Of(L, c) # {} /\ LatestOf(Of(L, c)).exit_code # 0}
    BY DEF FailingSubjects
  <2>2. ASSUME NEW c \in Command
        PROVE  /\ Of(past, c) # {} <=> Of(more, c) # {}
               /\ Of(past, c) # {} =>
                    LatestOf(Of(more, c)).exit_code = LatestOf(Of(past, c)).exit_code
    <3> DEFINE R == Of(past, c)
    <3>1. R \subseteq Shells(past) /\ R \subseteq past
      BY <1>3
    <3>2. Of(more, c) = CutAll(e, R)
      <4>1. ASSUME NEW y PROVE y \in Of(more, c) <=> y \in CutAll(e, R)
        <5>1. y \in Of(more, c)
                <=> \E x \in Shells(past) : y = Cut(e, x) /\ x.command = c /\ x.exit_code # NONE
          BY <1>3, <1>4
        <5>2. y \in CutAll(e, R)
                <=> \E x \in Shells(past) : y = Cut(e, x) /\ x.command = c /\ x.exit_code # NONE
          BY DEF CutAll
        <5> QED BY <5>1, <5>2
      <4> QED BY <4>1
    <3> HIDE DEF R, Of
    <3>3. R # {} => LatestOf(R) \in R /\ LatestOf(CutAll(e, R)) = Cut(e, LatestOf(R))
      BY <3>1, CutEnds
    <3>4. R # {} <=> CutAll(e, R) # {}
      BY DEF CutAll
    <3>5. R # {} => Cut(e, LatestOf(R)).exit_code = LatestOf(R).exit_code
      BY <1>4, <3>1, <3>3
    <3> QED BY <3>2, <3>3, <3>4, <3>5 DEF R
  <2> HIDE DEF Of
  <2> QED BY <2>1, <2>2
<1> QED BY <1>8, <1>9

LEMMA CutNames ==
  ASSUME NEW past, Lawful(past), NEW e \in past, e \in ToolRow,
         NEW more, more = CutAll(e, past), NEW id, id \in Run
  PROVE  /\ HasRow(more, id) <=> HasRow(past, id)
         /\ HasRow(past, id) => /\ RowById(past, id) \in past
                                /\ RowById(more, id) = Cut(e, RowById(past, id))
<1>1. \A x \in past : Alter(x, Cut(e, x)) /\ Cut(e, x) \in more
  BY CutAlters DEF CutAll
<1>2. \A y \in more : \E x \in past : y = Cut(e, x)
  BY DEF CutAll
<1>3. HasRow(more, id) <=> HasRow(past, id)
  BY <1>1, <1>2 DEF HasRow, Alter
<1>4. ASSUME HasRow(past, id)
      PROVE  RowById(past, id) \in past /\ RowById(more, id) = Cut(e, RowById(past, id))
  <2>1. PICK x \in past : x.id = id
    BY <1>4 DEF HasRow
  <2>2. ~Extracted(x) /\ ~Extracted(Cut(e, x)) /\ Cut(e, x).id = id
    BY <1>1, <2>1, HandoffAssumption DEF Extracted, Alter
  <2>3. RowById(past, id) = x
    BY <2>1, <2>2, NamedRow
  <2>4. Lawful(more)
    BY CutLawful
  <2>5. RowById(more, id) = Cut(e, x)
    BY <1>1, <2>1, <2>2, <2>4, NamedRow
  <2> QED BY <2>3, <2>5
<1> QED BY <1>3, <1>4

(* The support of a note is the same row, cut if it is the one.            *)
LEMMA CutSupport ==
  ASSUME NEW past, Lawful(past), NEW e \in past, e \in ToolRow,
         NEW more, more = CutAll(e, past), NEW n \in past, n \in SaidRow
  PROVE  \/ Support(more, n) = Support(past, n)
         \/ Support(past, n) = e /\ Support(more, n) = Cut(e, e)
<1>1. n.support = NONE \/ (n.support # NONE /\ n.support \in Run)
  BY DEF SaidRow
<1>2. \A x \in past : Cut(e, x) = x \/ x = e
  BY DEF Cut
<1>3. CASE n.support # NONE /\ n.support \in Run
  <2>1. /\ Support(past, n) = IF HasRow(past, n.support) THEN RowById(past, n.support) ELSE NONE
        /\ Support(more, n) = IF HasRow(more, n.support) THEN RowById(more, n.support) ELSE NONE
    BY <1>3 DEF Support, SupportById
  <2>2. /\ HasRow(more, n.support) <=> HasRow(past, n.support)
        /\ HasRow(past, n.support) =>
             /\ RowById(past, n.support) \in past
             /\ RowById(more, n.support) = Cut(e, RowById(past, n.support))
    BY <1>3, CutNames
  <2> QED BY <1>2, <2>1, <2>2
<1>4. CASE n.support = NONE
  <2> DEFINE R == {x \in past : Precedes(x, n)}
             S == {x \in more : Precedes(x, n)}
  <2>1. /\ Support(past, n) = IF R = {} THEN NONE ELSE LatestOf(R)
        /\ Support(more, n) = IF S = {} THEN NONE ELSE LatestOf(S)
    BY <1>4 DEF Support
  <2>2. S = CutAll(e, R)
    <3>1. \A y : y \in more <=> \E x \in past : y = Cut(e, x)
      BY DEF CutAll
    <3>2. Cut(e, n) = n
      BY SourcesOf DEF Cut
    <3>3. \A x \in past : Precedes(Cut(e, x), n) <=> Precedes(x, n)
      BY <3>2, CutPrecedes
    <3>4. \A y : y \in S <=> \E x \in past : y = Cut(e, x) /\ Precedes(x, n)
      BY <3>1, <3>3
    <3>5. \A y : y \in CutAll(e, R) <=> \E x \in past : y = Cut(e, x) /\ Precedes(x, n)
      BY DEF CutAll
    <3> HIDE DEF S, R
    <3> QED BY <3>4, <3>5
  <2>3. R \subseteq past
    OBVIOUS
  <2> HIDE DEF R, S
  <2>4. R # {} => LatestOf(R) \in R /\ LatestOf(CutAll(e, R)) = Cut(e, LatestOf(R))
    BY <2>3, CutEnds
  <2>5. R = {} <=> S = {}
    BY <2>2 DEF CutAll
  <2> QED BY <1>2, <2>1, <2>2, <2>3, <2>4, <2>5
<1> QED BY <1>1, <1>3, <1>4

(* Every sentence that a note's support grounds is a draft of it.          *)
LEMMA NaturalDraftsAll ==
  ASSUME NEW m \in SaidRow, NEW support, NEW i \in DOMAIN m.says, Natural(m.says[i], support)
  PROVE  \E k \in 1..Len(NaturalDrafts(m, support)) :
           NaturalDrafts(m, support)[k]
             = Draft(m, i, IF m.says[i].kind \in {"unknown", "next_action"}
                           THEN NONE ELSE ShellId(support))
<1> DEFINE s == [j \in DOMAIN m.says |-> j]
           keep == {j \in DOMAIN m.says : Natural(m.says[j], support)}
           kept == Sifted(s, keep)
           sup(j) == IF m.says[j].kind \in {"unknown", "next_action"}
                     THEN NONE ELSE ShellId(support)
           drafts == NaturalDrafts(m, support)
<1>1. s \in Seq(Nat) /\ DOMAIN m.says = 1..Len(m.says) /\ Len(s) = Len(m.says)
      /\ \A j \in 1..Len(s) : s[j] = j
  <2>1. m.says \in Seq(Sentence) /\ DOMAIN m.says = 1..Len(m.says) /\ Len(m.says) \in Nat
    BY SaysIs
  <2> QED BY <2>1
<1>2. i \in keep /\ i \in 1..Len(s) /\ s[i] = i
  BY <1>1
<1> HIDE DEF s, keep
<1>3. /\ Len(kept) \in Nat
      /\ \E k \in 1..Len(kept) : kept[k] = i
  <2>1. /\ Len(kept) \in Nat
        /\ \A j \in 1..Len(s) : s[j] \in keep => \E k \in 1..Len(kept) : kept[k] = s[j]
    BY <1>1, SiftedElements
  <2> HIDE DEF kept
  <2> QED BY <1>2, <2>1
<1>4. DOMAIN kept = 1..Len(kept)
  <2>1. kept \in Seq(Nat)
    BY <1>1, SiftedLeaves
  <2> QED BY <2>1
<1> HIDE DEF kept
<1>5. drafts = [k \in 1..Len(kept) |-> Draft(m, kept[k], sup(kept[k]))]
  BY <1>4 DEF NaturalDrafts, kept, keep, s
<1> HIDE DEF sup
<1>6. /\ Len(drafts) = Len(kept)
      /\ \A k \in 1..Len(kept) : drafts[k] = Draft(m, kept[k], sup(kept[k]))
  BY <1>3, <1>5
<1> HIDE DEF drafts
<1>7. \E k \in 1..Len(drafts) : drafts[k] = Draft(m, i, sup(i))
  BY <1>3, <1>6
<1> QED BY <1>7 DEF drafts, sup

(* With less output there are fewer drafts, and no others.                 *)
LEMMA CutDrafts ==
  ASSUME NEW past, Lawful(past), NEW e \in past, e \in ToolRow,
         NEW n \in past, n \in SaidRow, Quoting(n),
         NEW drafts, drafts = DraftsForNote(n, e),
         NEW fewer, fewer = DraftsForNote(n, Cut(e, e))
  PROVE  \A k \in 1..Len(fewer) : \E j \in 1..Len(drafts) : fewer[k] = drafts[j]
<1> DEFINE f == Cut(e, e)
<1>1. e \in ToolRow /\ f \in ToolRow /\ Alter(e, f) /\ f.output = {} /\ f \in CutAll(e, past)
  BY CutAlters DEF CutAll
<1> HIDE DEF f
<1>2. e # NONE /\ f # NONE /\ e.source = "shell" /\ f.source = "shell"
  BY <1>1, HandoffAssumption, SourcesOf
<1>3. ShellId(f) = ShellId(e) /\ Output(f) = {} /\ (IsSourceRead(f) <=> IsSourceRead(e))
  BY <1>1, <1>2 DEF ShellId, Output, IsSourceRead, Alter
<1>4. CASE n.speech
  BY <1>4 DEF DraftsForNote
<1>5. CASE ~n.speech /\ n.role = "conclusion"
  <2>1. drafts = NaturalDrafts(n, e) /\ fewer = NaturalDrafts(n, f)
    BY <1>5 DEF DraftsForNote, f
  <2>2. Lawful(CutAll(e, past))
    BY CutLawful
  <2>3. \A k \in 1..Len(fewer) :
          \E i \in DOMAIN n.says :
            /\ Natural(n.says[i], f)
            /\ fewer[k] = Draft(n, i, IF n.says[i].kind \in {"unknown", "next_action"}
                                      THEN NONE ELSE ShellId(f))
    BY <1>1, <2>1, <2>2, NaturalDraftsAre
  <2>4. \A i \in DOMAIN n.says : Natural(n.says[i], f) => Natural(n.says[i], e)
    BY <1>3 DEF Natural
  <2>5. SUFFICES ASSUME NEW k \in 1..Len(fewer)
                 PROVE  \E j \in 1..Len(drafts) : fewer[k] = drafts[j]
    OBVIOUS
  <2>6. PICK i \in DOMAIN n.says :
          /\ Natural(n.says[i], f)
          /\ fewer[k] = Draft(n, i, IF n.says[i].kind \in {"unknown", "next_action"}
                                    THEN NONE ELSE ShellId(f))
    BY <2>3
  <2>7. Natural(n.says[i], e)
    BY <2>4, <2>6
  <2> DEFINE sup(x) == IF n.says[i].kind \in {"unknown", "next_action"}
                       THEN NONE ELSE ShellId(x)
  <2>8. \E j \in 1..Len(NaturalDrafts(n, e)) : NaturalDrafts(n, e)[j] = Draft(n, i, sup(e))
    BY <2>7, NaturalDraftsAll
  <2>9. sup(e) = sup(f) /\ fewer[k] = Draft(n, i, sup(f))
    BY <1>3, <2>6
  <2> HIDE DEF sup
  <2> QED BY <2>1, <2>8, <2>9
<1>6. CASE ~n.speech /\ n.role # "conclusion"
  <2>1. fewer = <<>>
    BY <1>3, <1>6 DEF DraftsForNote, f
  <2> QED BY <2>1
<1> QED BY <1>4, <1>5, <1>6

LEMMA PassedCut ==
  ASSUME NEW past, Lawful(past), NEW e \in past, e \in ToolRow,
         NEW more, more = CutAll(e, past),
         NEW n \in past, n \in SaidRow, Quoting(n), PassedOver(past, n),
         SeedSeen(past) \subseteq SeedSeen(more)
  PROVE  PassedOver(more, n)
<1> DEFINE task   == NoteTask(past, n)
           drafts == DraftsForNote(n, Support(past, n))
           fewer  == DraftsForNote(n, Support(more, n))
<1>1. NoteTask(more, n) = task /\ FailingSubjects(more) = FailingSubjects(past)
  BY CutTask
<1>2. \A k \in 1..Len(fewer) : \E j \in 1..Len(drafts) : fewer[k] = drafts[j]
  <2>1. CASE Support(more, n) = Support(past, n)
    BY <2>1
  <2>2. CASE Support(past, n) = e /\ Support(more, n) = Cut(e, e)
    <3>1. drafts = DraftsForNote(n, e) /\ fewer = DraftsForNote(n, Cut(e, e))
      BY <2>2
    <3> HIDE DEF drafts, fewer
    <3> QED BY <3>1, CutDrafts
  <2> QED BY <2>1, <2>2, CutSupport
<1>3. \A j \in 1..Len(drafts) : DraftOf(past, n, drafts[j])
  BY SupportIsRow, DraftsAre DEF Quoting
<1>4. task = NONE \/ \A j \in 1..Len(drafts) : Blocked(past, drafts[j], task)
  BY DEF PassedOver
<1> HIDE DEF task, drafts, fewer
<1>5. ASSUME NEW j \in 1..Len(drafts), Blocked(past, drafts[j], task)
      PROVE  Blocked(more, drafts[j], task)
  <2> DEFINE d == drafts[j]
  <2>1. d.support = NONE \/ IsTool(past, d.support)
    BY <1>3 DEF DraftOf
  <2> HIDE DEF d
  <2>2. d.support = NONE
        \/ RowById(more, d.support).output \subseteq RowById(past, d.support).output
    <3>1. SUFFICES ASSUME d.support # NONE
                   PROVE  RowById(more, d.support).output \subseteq RowById(past, d.support).output
      OBVIOUS
    <3>2. PICK x \in past : x \in ToolRow /\ x.id = d.support
      BY <2>1, <3>1 DEF IsTool
    <3>3. ~Extracted(x) /\ d.support \in Run
      BY <3>2, SourcesOf
    <3>4. RowById(past, d.support) = x
      BY <3>2, <3>3, NamedRow
    <3>5. RowById(more, d.support) = Cut(e, x)
      BY <3>2, <3>3, <3>4, CutNames DEF HasRow
    <3>6. Alter(x, Cut(e, x)) /\ x.source = "shell"
      BY <3>2, CutAlters, SourcesOf
    <3> QED BY <3>4, <3>5, <3>6 DEF Alter
  <2>3. Blocked(past, d, task) => Blocked(more, d, task)
    BY <1>1, <2>2 DEF Blocked
  <2> QED BY <1>5, <2>3 DEF d
<1>6. task = NONE \/ \A k \in 1..Len(fewer) : Blocked(more, fewer[k], task)
  BY <1>2, <1>4, <1>5
<1> QED BY <1>1, <1>6 DEF PassedOver, fewer

LEMMA AllPassedCut ==
  ASSUME NEW past, Lawful(past), NEW e \in past, e \in ToolRow,
         NEW more, more = CutAll(e, past), AllPassed(past)
  PROVE  AllPassed(more)
<1>1. e.source = "shell" /\ Cut(e, e).source = "shell"
  BY CutAlters, SourcesOf DEF Alter
<1>2. \A x : x.source # "shell" => (x \in more <=> x \in past)
  BY <1>1 DEF CutAll, Cut
<1>3. ClaimRows(more) = ClaimRows(past)
  BY <1>2 DEF ClaimRows
<1>4. CitedNotes(more) = CitedNotes(past) /\ SeedSeen(more) = SeedSeen(past)
  BY <1>3 DEF CitedNotes, SeedSeen
<1>5. ASSUME NEW n \in Uncited(more), Quoting(n) PROVE PassedOver(more, n)
  <2>1. n \in past /\ n.source = "note" /\ n \in Uncited(past)
    BY <1>2, <1>4 DEF Uncited
  <2>2. n \in SaidRow
    BY <2>1, KindOf
  <2>3. PassedOver(past, n)
    BY <1>5, <2>1 DEF AllPassed
  <2> QED BY <1>4, <1>5, <2>1, <2>2, <2>3, PassedCut
<1> QED BY <1>5 DEF AllPassed

-----------------------------------------------------------------------------
(* The state.  A log is in order with what the handoff has still to        *)
(* insert; the tables tell of nothing that is not in it; and once an       *)
(* extraction is made, what is not quoted is passed over.                  *)

Coming == log \cup Queued(todo)

HandoffInv ==
  /\ phase \in {"idle", "insert", "down"}
  /\ clock \in Nat /\ \A e \in log : ~Extracted(e) => e.ts <= clock
  /\ Lawful(Coming) /\ todo \in Seq(Coming) /\ Increasing(todo)
  /\ \A e \in Queued(todo) : Extracted(e) /\ \A f \in log : Precedes(f, e)
  /\ phase # "insert" => todo = <<>>
  /\ phase = "insert" => foreseen = Folded(FoldRows(Coming)).claims
  /\ settled => phase = "idle" /\ noted = NONE
  /\ TaskMap(taskTable) /\ Told(log, claimTable)
  /\ phase = "insert" \/ settled => AllPassed(Coming)

LEMMA LawfulLog == HandoffInv => Lawful(log)
<1>1. SUFFICES ASSUME HandoffInv PROVE Lawful(log)
  OBVIOUS
<1>2. log \subseteq Coming
  BY DEF Coming
<1>3. ASSUME NEW e \in log, NEW f \in Coming, Precedes(f, e) PROVE f \in log
  <2>1. SUFFICES ASSUME f \notin log PROVE FALSE
    OBVIOUS
  <2>2. Precedes(e, f)
    BY <1>1, <2>1 DEF HandoffInv, Coming
  <2>3. e.ts \in Nat /\ f.ts \in Nat
    BY <1>1, <1>2 DEF HandoffInv, Lawful, Sorted
  <2> QED BY <1>3, <2>2, <2>3, PrecedesOnce
<1> QED BY <1>1, <1>2, <1>3, DownLawful DEF HandoffInv

LEMMA NothingQueued == Queued(<<>>) = {} /\ Increasing(<<>>)
BY DEF Queued, Increasing

LEMMA IdleLog ==
  ASSUME HandoffInv, phase # "insert"
  PROVE  todo = <<>> /\ Coming = log
BY NothingQueued DEF HandoffInv, Coming

LEMMA InitHandoff == Init => HandoffInv
<1>1. SUFFICES ASSUME Init PROVE HandoffInv
  OBVIOUS
<1>2. log = {} /\ todo = <<>> /\ Coming = {} /\ Queued(todo) = {} /\ Increasing(todo)
  BY <1>1, NothingQueued DEF Init, Coming
<1>3. Lawful({})
  BY FS_EmptySet DEF Lawful, Sorted
<1>4. Told({}, Empty) /\ TaskMap(Empty)
  BY EmptyMaps, FS_EmptySet DEF Told, HasReason, Empty
<1> QED BY <1>1, <1>2, <1>3, <1>4 DEF Init, HandoffInv

(* A rebuilt view tells of the log it is rebuilt from.                     *)
LEMMA RebuildTells ==
  ASSUME NEW lg, Lawful(lg), Rebuild(lg)
  PROVE  TaskMap(taskTable') /\ Told(lg, claimTable')
<1>1. FoldRows(lg) \subseteq FoldRows(lg)
  OBVIOUS
<1>2. Told(lg, Folded(FoldRows(lg)).claims) /\ TaskMap(Folded(FoldRows(lg)).tasks)
  BY <1>1, ViewTells
<1> QED BY <1>2 DEF Rebuild

(* What Begin makes of a lawful log.                                       *)
LEMMA BeginRuns ==
  ASSUME NEW lg, Lawful(lg), Begin(lg), lg = log'
  PROVE  /\ Lawful(Coming') /\ todo' \in Seq(Coming') /\ Increasing(todo')
         /\ \A e \in Queued(todo') : Extracted(e) /\ \A f \in lg : Precedes(f, e)
         /\ foreseen' = Folded(FoldRows(Coming')).claims
         /\ AllPassed(Coming')
<1> DEFINE st == Extraction(lg)
<1>1. Running(lg, st) /\ AllPassed(st.rows)
  BY ExtractionRuns
<1>2. todo' = st.todo /\ foreseen' = st.claims
  BY DEF Begin
<1> HIDE DEF st
<1>3. /\ Lawful(st.rows) /\ st.todo \in Seq(st.rows) /\ st.rows = lg \cup Queued(st.todo)
      /\ \A e \in Queued(st.todo) : Extracted(e) /\ \A f \in lg : Precedes(f, e)
      /\ Increasing(st.todo) /\ st.claims = Folded(FoldRows(st.rows)).claims
  BY <1>1 DEF Running, Extends
<1>4. Coming' = st.rows
  BY <1>2, <1>3 DEF Coming
<1> QED BY <1>1, <1>2, <1>3, <1>4

(* A row as people and tools write it joins the log.                       *)
LEMMA StoreKeeps ==
  ASSUME HandoffInv, NEW row \in ToolRow \cup SaidRow \cup AskedRow,
         row.ts \in Nat, row.ts > clock, Store(row)
  PROVE  HandoffInv'
<1>1. /\ phase = "idle" /\ phase' = "idle" /\ todo = <<>> /\ todo' = <<>> /\ Coming = log
      /\ log' = log \cup {row} /\ clock' = row.ts /\ settled' = FALSE
      /\ ~HasRow(log, row.id)
  BY IdleLog DEF Store
<1>2. Lawful(log) /\ Coming' = log'
  BY <1>1, LawfulLog, NothingQueued DEF Coming
<1>3. ~Extracted(row) /\ \A f \in log : f.id # row.id
  BY <1>1, SourcesOf DEF HasRow
<1>4. clock \in Nat /\ \A e \in log : ~Extracted(e) => e.ts <= clock
  BY DEF HandoffInv
<1>5. Sorted(log')
  <2>1. IsFiniteSet(log') /\ \A f \in log : f.ts \in Nat
    BY <1>1, <1>2, FS_AddElement DEF Lawful, Sorted
  <2>2. \A f \in log : Precedes(f, row) \/ Precedes(row, f)
    BY <1>3, <1>4, <2>1 DEF Precedes
  <2> QED BY <1>1, <1>2, <2>1, <2>2 DEF Lawful, Sorted
<1>6. Lawful(log')
  <2>1. \A e, f \in log' : e.id = f.id /\ ~Extracted(e) => e = f
    BY <1>1, <1>2, <1>3 DEF Lawful
  <2>2. \A e \in log' : e \in ToolRow \cup SaidRow \cup AskedRow \/ Quotes(log', e)
    <3>1. \A e \in log : Quotes(log, e) => Quotes(log', e)
      BY <1>1, QuotesGrow
    <3> QED BY <1>1, <1>2, <3>1 DEF Lawful
  <2> QED BY <1>5, <2>1, <2>2 DEF Lawful
<1>7. TaskMap(taskTable') /\ Told(log', claimTable')
  <2>1. CASE row.source = "note"
    <3>1. UNCHANGED <<taskTable, claimTable>>
      BY <2>1 DEF Store
    <3>2. Told(log, claimTable) /\ TaskMap(taskTable)
      BY DEF HandoffInv
    <3>3. Told(log', claimTable)
      BY <1>1, <1>2, <1>6, <3>2, ToldMoves
    <3> QED BY <3>1, <3>2, <3>3
  <2>2. CASE row.source # "note"
    <3>1. Rebuild(log')
      BY <2>2 DEF Store
    <3> QED BY <1>6, <3>1, RebuildTells
  <2> QED BY <2>1, <2>2
<1>8. \A e \in log' : ~Extracted(e) => e.ts <= clock'
  <2>1. \A e \in log : e.ts \in Nat
    BY <1>2 DEF Lawful, Sorted
  <2>2. \A e \in log : e.ts <= clock => e.ts <= row.ts
    BY <1>4, <2>1
  <2> QED BY <1>1, <1>4, <2>2
<1>9. Queued(todo') = {} /\ Increasing(todo') /\ todo' \in Seq(Coming')
  BY <1>1, NothingQueued
<1>10. clock' \in Nat
  BY <1>1
<1> QED BY <1>1, <1>2, <1>6, <1>7, <1>8, <1>9, <1>10 DEF HandoffInv

LEMMA StampsAreLater ==
  ASSUME clock \in Nat, NEW ts \in NextStamp
  PROVE  ts \in Nat /\ ts > clock
<1>1. AHEAD \in Nat
  BY HandoffAssumption
<1>2. ts \in {clock + 1, clock + AHEAD + 2}
  BY DEF NextStamp
<1> QED BY <1>1, <1>2

LEMMA AskedRows ==
  ASSUME NEW focal \in TaskId \cup {NONE}, NEW view, ClaimMap(view),
         NEW r \in Request, NEW i \in Input, NEW ts \in Nat,
         NEW b, b = Body(r, i, focal, view), b # NONE, Validate(b)
  PROVE  [id |-> r, ts |-> ts, source |-> "claim", body |-> b] \in AskedRow
<1> DEFINE row == [id |-> r, ts |-> ts, source |-> "claim", body |-> b]
<1>1. row \in Pending /\ row.body = b
  BY BodyRow DEF RowOf
<1>2. b.subject \notin Command
  BY BodySubject
<1> HIDE DEF row
<1>3. b.origin = "user" => b.kind # "next_action"
  <2>1. b.op # "assert" => b.kind = NONE
    BY <1>1 DEF Pending
  <2>2. b.op \in {"assert", "supersede", "close_task"}
    BY <1>1 DEF Pending, ClaimRow, ClaimEvent
  <2>3. NONE # "next_action"
    BY VocabularyAssumption DEF ClaimKind
  <2>4. b.op = "assert" => b.text # NONE
    BY <1>1 DEF Pending
  <2> QED BY <2>1, <2>2, <2>3, <2>4 DEF Validate
<1> QED BY <1>1, <1>2, <1>3 DEF AskedRow, Modest, row

LEMMA AppendsKeep ==
  ASSUME HandoffInv, NEW ts \in NextStamp
  PROVE  /\ \A x \in Run, report \in Report : ObserveTool(x, ts, report) => HandoffInv'
         /\ \A n \in Note, c \in Saying :
              ObserveNote(n, ts, c) \/ NoteLine(n, ts, c) => HandoffInv'
         /\ \A r \in Request, i \in Input : AuthorClaim(r, ts, i) => HandoffInv'
<1>1. ts \in Nat /\ ts > clock
  BY StampsAreLater DEF HandoffInv
<1>2. ASSUME NEW x \in Run, NEW report \in Report, ObserveTool(x, ts, report)
      PROVE  HandoffInv'
  <2> DEFINE row == [id |-> x, ts |-> ts, source |-> "shell", command |-> report.command,
                     exit_code |-> report.exit_code, session |-> report.session,
                     output |-> report.output, reads |-> report.reads, long |-> report.long]
  <2>1. Store(row) /\ row.ts = ts
    BY <1>2 DEF ObserveTool
  <2>2. report \in Observation
    BY HandoffAssumption
  <2>3. row \in ToolRow
    BY <1>1, <2>2 DEF Observation, ToolRow
  <2> HIDE DEF row
  <2> QED BY <1>1, <2>1, <2>3, StoreKeeps
<1>3. ASSUME NEW n \in Note, NEW c \in Saying, ObserveNote(n, ts, c) \/ NoteLine(n, ts, c)
      PROVE  HandoffInv'
  <2> DEFINE row == NoteRow(n, ts, c)
  <2>1. Store(row)
    BY <1>3 DEF ObserveNote, NoteLine
  <2>2. c \in Content /\ Len(c.says) <= MAX_SENTENCES /\ (c.role = "" => c.says # <<>>)
    BY HandoffAssumption
  <2>3. row \in SaidRow /\ row.ts = ts
    BY <1>1, <2>2 DEF NoteRow, SaidRow, Content
  <2> HIDE DEF row
  <2> QED BY <1>1, <2>1, <2>3, StoreKeeps
<1>4. ASSUME NEW r \in Request, NEW i \in Input, AuthorClaim(r, ts, i) PROVE HandoffInv'
  <2> DEFINE focal == FocalTask(taskTable, claimTable)
             b == Body(r, i, focal, claimTable)
             row == [id |-> r, ts |-> ts, source |-> "claim", body |-> b]
  <2>1. b # NONE /\ Validate(b) /\ Store(row) /\ row.ts = ts
    BY <1>4 DEF AuthorClaim
  <2>2. ClaimMap(claimTable) /\ focal \in TaskId \cup {NONE}
    BY FocalTaskType DEF HandoffInv, Told
  <2> HIDE DEF focal
  <2>3. row \in AskedRow
    BY <1>1, <2>1, <2>2, AskedRows
  <2> HIDE DEF row, b
  <2> QED BY <1>1, <2>1, <2>3, StoreKeeps
<1> QED BY <1>2, <1>3, <1>4

LEMMA CompactionKeeps ==
  ASSUME HandoffInv, NEW e \in log, CompactOutput(e)
  PROVE  HandoffInv'
<1>1. /\ phase = "idle" /\ e.source = "shell"
      /\ log' = (log \ {e}) \cup {[e EXCEPT !.output = {}]}
      /\ UNCHANGED <<taskTable, claimTable, todo, foreseen, phase, noted, settled, clock>>
  BY DEF CompactOutput
<1>2. todo = <<>> /\ Coming = log /\ Lawful(log)
  BY <1>1, IdleLog, LawfulLog
<1>3. e \in ToolRow
  BY <1>1, <1>2, KindOf
<1>4. log' = CutAll(e, log)
  BY <1>1 DEF CutAll, Cut
<1>5. Lawful(log')
  BY <1>2, <1>3, <1>4, CutLawful
<1>6. Coming' = log' /\ Queued(todo') = {} /\ todo' = <<>> /\ Increasing(todo')
  BY <1>1, <1>2, NothingQueued DEF Coming
<1>7. Told(log', claimTable')
  <2>1. \A x \in log : x.source # "shell" => x \in log'
    BY <1>1
  <2>2. Told(log, claimTable)
    BY DEF HandoffInv
  <2> QED BY <1>1, <1>2, <1>5, <2>1, <2>2, ToldMoves
<1>8. settled' => AllPassed(Coming')
  BY <1>1, <1>2, <1>3, <1>4, <1>6, AllPassedCut DEF HandoffInv
<1>9. \A y \in log' : ~Extracted(y) => y.ts <= clock'
  <2>1. SUFFICES ASSUME NEW y \in log', ~Extracted(y) PROVE y.ts <= clock
    BY <1>1
  <2>2. PICK x \in log : y = Cut(e, x)
    BY <1>4 DEF CutAll
  <2>3. Alter(x, y)
    BY <1>2, <1>3, <2>2, CutAlters
  <2>4. y.ts = x.ts /\ ~Extracted(x)
    BY <2>1, <2>3 DEF Alter, Extracted
  <2> QED BY <2>4 DEF HandoffInv
<1>10. /\ phase' = "idle" /\ clock' \in Nat /\ todo' \in Seq(Coming')
       /\ (settled' => noted' = NONE) /\ TaskMap(taskTable')
  BY <1>1, <1>6 DEF HandoffInv
<1> QED BY <1>5, <1>6, <1>7, <1>8, <1>9, <1>10 DEF HandoffInv

LEMMA StartKeeps == HandoffInv /\ (StartHandoff \/ Restart) => HandoffInv'
<1>1. SUFFICES ASSUME HandoffInv, StartHandoff \/ Restart PROVE HandoffInv'
  OBVIOUS
<1>2. /\ Begin(log) /\ phase # "insert" /\ phase' = "insert" /\ ~settled
      /\ UNCHANGED <<log, settled, clock>>
  BY <1>1 DEF StartHandoff, Restart, Begin, HandoffInv
<1>3. Lawful(log)
  BY <1>1, LawfulLog
<1>4. /\ Lawful(Coming') /\ todo' \in Seq(Coming') /\ Increasing(todo')
      /\ \A e \in Queued(todo') : Extracted(e) /\ \A f \in log : Precedes(f, e)
      /\ foreseen' = Folded(FoldRows(Coming')).claims
      /\ AllPassed(Coming')
  BY <1>2, <1>3, BeginRuns
<1>5. TaskMap(taskTable') /\ Told(log, claimTable')
  <2>1. CASE StartHandoff
    BY <1>1, <2>1 DEF StartHandoff, HandoffInv
  <2>2. CASE Restart
    BY <1>3, <2>2, RebuildTells DEF Restart
  <2> QED BY <1>1, <2>1, <2>2
<1> QED BY <1>1, <1>2, <1>4, <1>5 DEF HandoffInv

(* The first of what is queued.                                            *)
LEMMA TakeFirst ==
  ASSUME NEW S, NEW s \in Seq(S), s # <<>>, Increasing(s)
  PROVE  /\ Head(s) \in Queued(s) /\ Queued(s) = {Head(s)} \cup Queued(Tail(s))
         /\ Tail(s) \in Seq(S) /\ Increasing(Tail(s))
         /\ \A e \in Queued(Tail(s)) : Precedes(Head(s), e)
<1> DEFINE t == Tail(s)
<1>1. /\ Len(s) \in Nat /\ Len(s) >= 1 /\ Head(s) = s[1] /\ Len(t) = Len(s) - 1
      /\ \A k \in 1..Len(t) : t[k] = s[k + 1]
      /\ t \in Seq(S)
  OBVIOUS
<1> HIDE DEF t
<1>2. \A k \in 1..Len(t) : k + 1 \in 1..Len(s)
  BY <1>1
<1>3. 1 \in 1..Len(s) /\ \A k \in 1..Len(s) : k = 1 \/ k - 1 \in 1..Len(t)
  BY <1>1
<1>4. \A k \in 1..Len(s) : k = 1 \/ s[k] = t[k - 1]
  BY <1>1, <1>3
<1>5. Queued(s) = {Head(s)} \cup Queued(t)
  <2>1. \A x \in Queued(s) : x = Head(s) \/ x \in Queued(t)
    <3>1. SUFFICES ASSUME NEW k \in 1..Len(s) PROVE s[k] = Head(s) \/ s[k] \in Queued(t)
      BY DEF Queued
    <3>2. CASE k = 1
      BY <1>1, <3>2
    <3>3. CASE k # 1
      <4>1. k - 1 \in 1..Len(t) /\ s[k] = t[k - 1]
        BY <1>3, <1>4, <3>3
      <4> QED BY <4>1 DEF Queued
    <3> QED BY <3>2, <3>3
  <2>2. \A x \in Queued(t) : x \in Queued(s)
    BY <1>1, <1>2 DEF Queued
  <2>3. Head(s) \in Queued(s)
    BY <1>1, <1>3 DEF Queued
  <2> QED BY <2>1, <2>2, <2>3
<1>6. \A e \in Queued(t) : Precedes(Head(s), e)
  <2>1. SUFFICES ASSUME NEW k \in 1..Len(t) PROVE Precedes(s[1], t[k])
    BY <1>1 DEF Queued
  <2>2. k + 1 \in 1..Len(s) /\ 1 < k + 1 /\ t[k] = s[k + 1]
    BY <1>1, <1>2
  <2> QED BY <1>3, <2>2 DEF Increasing
<1>7. Increasing(t)
  <2>1. SUFFICES ASSUME NEW i \in 1..Len(t), NEW j \in 1..Len(t), i < j
                 PROVE  Precedes(t[i], t[j])
    BY DEF Increasing
  <2>2. i + 1 \in 1..Len(s) /\ j + 1 \in 1..Len(s) /\ i + 1 < j + 1
        /\ t[i] = s[i + 1] /\ t[j] = s[j + 1]
    BY <1>1, <1>2, <2>1
  <2> QED BY <2>2 DEF Increasing
<1>8. Head(s) \in Queued(s)
  BY <1>5
<1> QED BY <1>1, <1>5, <1>6, <1>7, <1>8 DEF t

LEMMA InsertKeeps == HandoffInv /\ InsertExtracted => HandoffInv'
<1>1. SUFFICES ASSUME HandoffInv, InsertExtracted PROVE HandoffInv'
  OBVIOUS
<1> DEFINE h == Head(todo)
<1>2. /\ phase = "insert" /\ todo # <<>> /\ log' = log \cup {h} /\ todo' = Tail(todo)
      /\ UNCHANGED <<taskTable, claimTable, foreseen, phase, noted, settled, clock>>
  BY <1>1 DEF InsertExtracted
<1>3. todo \in Seq(Coming) /\ Increasing(todo) /\ Lawful(Coming)
      /\ \A e \in Queued(todo) : Extracted(e) /\ \A f \in log : Precedes(f, e)
  BY <1>1 DEF HandoffInv
<1>4. /\ h \in Queued(todo) /\ Queued(todo) = {h} \cup Queued(todo')
      /\ todo' \in Seq(Coming) /\ Increasing(todo')
      /\ \A e \in Queued(todo') : Precedes(h, e)
  BY <1>2, <1>3, TakeFirst
<1> HIDE DEF h
<1>5. Coming' = Coming
  BY <1>2, <1>4 DEF Coming
<1>6. \A e \in Queued(todo') : Extracted(e) /\ \A f \in log' : Precedes(f, e)
  BY <1>2, <1>3, <1>4
<1>7. Extracted(h)
  BY <1>3, <1>4
<1>8. \A e \in log' : ~Extracted(e) => e.ts <= clock'
  BY <1>1, <1>2, <1>7 DEF HandoffInv
<1>9. Lawful(log) /\ Lawful(log')
  <2>1. log' \subseteq Coming
    BY <1>2, <1>4 DEF Coming
  <2>2. ASSUME NEW e \in log', NEW f \in Coming, Precedes(f, e) PROVE f \in log'
    <3>1. SUFFICES ASSUME f \notin log' PROVE FALSE
      OBVIOUS
    <3>2. f \in Queued(todo')
      BY <1>2, <1>4, <3>1 DEF Coming
    <3>3. Precedes(e, f)
      BY <1>6, <3>2
    <3>4. e.ts \in Nat /\ f.ts \in Nat
      BY <1>3, <2>1 DEF Lawful, Sorted
    <3> QED BY <2>2, <3>3, <3>4, PrecedesOnce
  <2>3. Lawful(log')
    BY <1>3, <2>1, <2>2, DownLawful
  <2> QED BY <1>1, <2>3, LawfulLog
<1>10. Told(log', claimTable')
  BY <1>1, <1>2, <1>9, ToldMoves DEF HandoffInv
<1>11. /\ phase' = "insert" /\ clock' \in Nat /\ TaskMap(taskTable') /\ ~settled'
       /\ foreseen' = Folded(FoldRows(Coming')).claims /\ AllPassed(Coming')
  BY <1>1, <1>2, <1>5 DEF HandoffInv
<1> QED BY <1>3, <1>4, <1>5, <1>6, <1>8, <1>10, <1>11 DEF HandoffInv

LEMMA FinishKeeps ==
  ASSUME HandoffInv, FinishHandoff
  PROVE  HandoffInv' /\ claimTable' = foreseen
<1>1. /\ phase = "insert" /\ todo = <<>> /\ Rebuild(log)
      /\ phase' = "idle" /\ settled' = TRUE /\ noted' = NONE
      /\ UNCHANGED <<log, todo, foreseen, clock>>
  BY DEF FinishHandoff
<1>2. Lawful(log)
  BY LawfulLog
<1>3. Coming = log /\ Coming' = log /\ Queued(todo') = {} /\ Increasing(todo')
  BY <1>1, NothingQueued DEF Coming
<1>4. claimTable' = foreseen
  BY <1>1, <1>3 DEF Rebuild, HandoffInv
<1>5. TaskMap(taskTable') /\ Told(log, claimTable')
  BY <1>1, <1>2, RebuildTells
<1>6. AllPassed(Coming')
  BY <1>1, <1>3 DEF HandoffInv
<1>7. todo' = <<>> /\ todo' \in Seq(Coming')
  BY <1>1
<1>8. clock' \in Nat /\ \A e \in log' : ~Extracted(e) => e.ts <= clock'
  BY <1>1 DEF HandoffInv
<1>9. HandoffInv'
  BY <1>1, <1>2, <1>3, <1>5, <1>6, <1>7, <1>8 DEF HandoffInv
<1> QED BY <1>4, <1>9

LEMMA CrashKeeps == HandoffInv /\ Crash => HandoffInv'
<1>1. SUFFICES ASSUME HandoffInv, Crash PROVE HandoffInv'
  OBVIOUS
<1>2. /\ phase' = "down" /\ todo' = <<>> /\ settled' = FALSE
      /\ UNCHANGED <<log, taskTable, claimTable, clock>>
  BY <1>1 DEF Crash
<1>3. Lawful(log)
  BY <1>1, LawfulLog
<1>4. Coming' = log /\ Queued(todo') = {} /\ Increasing(todo') /\ todo' \in Seq(Coming')
  BY <1>2, NothingQueued DEF Coming
<1> QED BY <1>1, <1>2, <1>3, <1>4 DEF HandoffInv

LEMMA HandoffInvInductive == HandoffInv /\ [Next]_vars => HandoffInv'
<1> SUFFICES ASSUME HandoffInv, [Next]_vars PROVE HandoffInv'
  OBVIOUS
<1>1. ASSUME NEW ts \in NextStamp,
             \/ \E x \in Run, report \in Report : ObserveTool(x, ts, report)
             \/ \E n \in Note, c \in Saying : ObserveNote(n, ts, c) \/ NoteLine(n, ts, c)
             \/ \E r \in Request, i \in Input : AuthorClaim(r, ts, i)
      PROVE  HandoffInv'
  BY <1>1, AppendsKeep
<1>2. CASE \E e \in log : CompactOutput(e)
  BY <1>2, CompactionKeeps
<1>3. CASE StartHandoff \/ Restart
  BY <1>3, StartKeeps
<1>4. CASE InsertExtracted
  BY <1>4, InsertKeeps
<1>5. CASE FinishHandoff
  BY <1>5, FinishKeeps
<1>6. CASE Crash
  BY <1>6, CrashKeeps
<1>7. CASE UNCHANGED vars
  <2>1. UNCHANGED <<log, taskTable, claimTable, todo, foreseen, phase, noted, settled, clock>>
    BY <1>7 DEF vars
  <2>2. Coming' = Coming
    BY <2>1 DEF Coming
  <2> QED BY <2>1, <2>2 DEF HandoffInv
<1> QED BY <1>1, <1>2, <1>3, <1>4, <1>5, <1>6, <1>7 DEF Next

LEMMA HandoffInvariance == Spec => []HandoffInv
<1> QED BY InitHandoff, HandoffInvInductive, PTL DEF Spec

(* ReportMatchesView is a property of the handoff: what run_handoff        *)
(* reports, from the projection it extends row by row in memory, is what   *)
(* is_current and the tables say when its rows have been stored and        *)
(* rebuilt, however many restarts there were.                              *)
THEOREM ReportsMatchTheView == Spec => ReportMatchesView
<1>1. HandoffInv /\ [Next]_vars => [FinishHandoff => claimTable' = foreseen]_vars
  BY FinishKeeps
<1> QED BY <1>1, HandoffInvariance, PTL DEF Spec, ReportMatchesView

(* RemovedForAReason is an invariant of the handoff: a claim of a person   *)
(* or an agent is superseded only when the log has a row that names it, an *)
(* extracted row whose note quotes its text, or a newer claim of its slot. *)
THEOREM RemovalsHaveReasons == Spec => []RemovedForAReason
<1>1. HandoffInv => RemovedForAReason
  BY DEF HandoffInv, Told, HasReason, RemovedForAReason
<1> QED BY <1>1, HandoffInvariance, PTL

(* RerunAddsNothing is an invariant of the handoff: when one has completed *)
(* and nothing was appended since, another finds nothing to quote, even if *)
(* the worker has compacted outputs in between.                            *)
THEOREM RerunsAddNothing == Spec => []RerunAddsNothing
<1>1. HandoffInv => RerunAddsNothing
  <2>1. SUFFICES ASSUME HandoffInv, settled, ~Retracts(log)
                 PROVE  Extraction(log).todo = <<>>
    BY DEF RerunAddsNothing
  <2>2. phase # "insert"
    BY <2>1 DEF HandoffInv
  <2>3. Lawful(log) /\ Coming = log
    BY <2>1, <2>2, LawfulLog, IdleLog
  <2>4. AllPassed(log)
    BY <2>1, <2>3 DEF HandoffInv
  <2> QED BY <2>1, <2>3, <2>4, NothingLeft
<1> QED BY <1>1, HandoffInvariance, PTL

=============================================================================
