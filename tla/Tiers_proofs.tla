----------------------------- MODULE Tiers_proofs -----------------------------
(***************************************************************************)
(* Proofs about Verdicts and Tiers: what the rules let in stays, and what  *)
(* the worker compacts can still be read; what the working set, the graph  *)
(* and its tables promise of each other.                                   *)
(***************************************************************************)
EXTENDS Tiers, Verdicts, Sieve_proofs, FiniteSetTheorems, TLAPS

-----------------------------------------------------------------------------
(* Verdicts.                                                               *)

(* A row the worker has not classified is as it arrived, with the score    *)
(* it arrived with, and that score did not keep it out.                    *)
Untouched == payload = original /\ weight = Score(original)
Admitted  == place = "stored" /\ ~Classified =>
               Untouched /\ ~ShouldDrop(original, weight)

VerdictInv ==
  /\ original \in Payload /\ payload \in Payload
  /\ payload.source = original.source
  /\ analysis.summary \in BOOLEAN
  /\ place \in {"observed", "refused", "stored", "archived"}
  /\ place = "observed" => payload = original
  /\ Admitted
  /\ CompactionIsInvisible

LEMMA CompactShape ==
  ASSUME NEW p \in Payload, NEW summary \in BOOLEAN
  PROVE  /\ Compact(p, summary) \in Payload
         /\ Compact(p, summary).source = p.source
         /\ p.keys \cap IDENTITY_KEYS \subseteq Compact(p, summary).keys
<1> DEFINE keys == KeptKeys(p) \cup (IF summary THEN {"text"} ELSE {})
           long == IF p.long \in keys /\ ~(summary /\ p.long = "text") THEN p.long ELSE "none"
           c == Compact(p, summary)
<1>1. keys \subseteq Key
  BY DEF Payload, KeptKeys, Key
<1>2. long \in Key \cup {"none"}
  BY DEF Payload
<1>3. c = [p EXCEPT !.keys = keys, !.errors = p.errors \cap keys, !.long = long]
  BY DEF Compact
<1>4. c.source = p.source /\ c.keys = keys
  BY <1>3 DEF Payload
<1>5. c \in Payload
  <2> HIDE DEF keys, long
  <2> QED BY <1>1, <1>2, <1>3 DEF Payload
<1> QED BY <1>4, <1>5 DEF KeptKeys

(* Nothing of a claim or a note scores as noise, so leaving them out of    *)
(* the verdict at the door leaves none for a later pass to drop.           *)
LEMMA DropMeansDrop ==
  ASSUME NEW p \in Payload, ~ShouldDrop(p, Score(p))
  PROVE  Decide(p, Score(p), Analyze(p)) # "drop"
<1>1. Decide(p, Score(p), Analyze(p)) = "drop" => Score(p) < NOISE_SCORE
  BY DEF Decide
<1>2. p.source \in {"claim", "note"} => Score(p) = 100
  BY DEF Score
<1>3. ~(100 < NOISE_SCORE)
  BY DEF NOISE_SCORE
<1> QED BY <1>1, <1>2, <1>3 DEF ShouldDrop

LEMMA ReadKeysSurvive ==
  ASSUME NEW source
  PROVE  KeysRead(source) \subseteq IDENTITY_KEYS
BY DEF KeysRead, IDENTITY_KEYS

LEMMA CompactKeepsReadable ==
  ASSUME VerdictInv, NEW summary \in BOOLEAN
  PROVE  original.keys \cap KeysRead(original.source) \subseteq Compact(payload, summary).keys
BY CompactShape, ReadKeysSurvive DEF VerdictInv, CompactionIsInvisible

LEMMA SummaryIsBoolean == \A p : HasSummary(p) \in BOOLEAN
<1> TAKE p
<1>1. \A key : Has(p, key) \in BOOLEAN
  BY DEF Has
<1> HIDE DEF Has
<1>2. CASE p.source = "shell"
  BY <1>1, <1>2 DEF HasSummary
<1>3. CASE p.source = "proc"
  <2>1. HasSummary(p) = (Has(p, "action") /\ (Has(p, "command") \/ Has(p, "process_name")))
    BY <1>3 DEF HasSummary
  <2> QED BY <2>1
<1>4. CASE p.source = "filesystem"
  BY <1>1, <1>4 DEF HasSummary
<1>5. CASE p.source = "git"
  BY <1>1, <1>5 DEF HasSummary
<1>6. CASE p.source = "manifest"
  BY <1>6 DEF HasSummary
<1>7. CASE p.source \notin {"shell", "proc", "filesystem", "git", "manifest"}
  BY <1>7 DEF HasSummary
<1> QED BY <1>2, <1>3, <1>4, <1>5, <1>6, <1>7

LEMMA VerdictStarts == VerdictInit => VerdictInv
<1> SUFFICES ASSUME VerdictInit PROVE VerdictInv
  OBVIOUS
<1>1. payload \in Payload /\ original = payload /\ place = "observed"
  BY VerdictsAssumption DEF VerdictInit
<1>2. analysis.summary = FALSE
  BY DEF VerdictInit
<1>3. analysis.summary \in BOOLEAN
  BY <1>2
<1> QED BY <1>1, <1>3 DEF VerdictInv, Admitted, CompactionIsInvisible

LEMMA VerdictSteps == VerdictInv /\ [VerdictNext]_verdictVars => VerdictInv'
<1> SUFFICES ASSUME VerdictInv, [VerdictNext]_verdictVars PROVE VerdictInv'
  OBVIOUS
<1> USE DEF VerdictInv
<1>1. CASE IngestOne
  <2>1. payload = original
    BY <1>1 DEF IngestOne
  <2>2. weight' = Score(original) /\ payload' = original /\ original' = original /\ analysis' = analysis
    BY <1>1, <2>1 DEF IngestOne
  <2>3. place' = "stored" => ~ShouldDrop(original', weight')
    BY <1>1, <2>1, <2>2 DEF IngestOne
  <2>4. place' \in {"refused", "stored"}
    BY <1>1 DEF IngestOne
  <2>5. CompactionIsInvisible'
    BY <2>2 DEF CompactionIsInvisible
  <2>6. Score(original)' = Score(original)
    BY <2>2 DEF Score, CommandScore, ProcScore, Has
  <2> QED BY <2>1, <2>2, <2>3, <2>4, <2>5, <2>6 DEF Admitted, Untouched
<1>2. CASE FirstPass
  <2>1. payload = original /\ weight = Score(original) /\ ~ShouldDrop(original, weight)
    BY <1>2 DEF FirstPass, Admitted, Untouched
  <2>2. Decide(payload, weight, Analyze(payload)) # "drop"
    BY <2>1, DropMeansDrop
  <2>3. /\ place' = "stored" /\ weight' = weight /\ original' = original
        /\ \/ /\ analysis' = Analyze(payload)
              /\ payload' \in {payload, Compact(payload, Analyze(payload).summary)}
           \/ analysis' = analysis /\ payload' = payload
    BY <1>2, <2>2 DEF FirstPass
  <2>4. Analyze(payload).summary \in BOOLEAN /\ Analyze(payload).use_case = UseCase(payload)
    <3>1. Analyze(payload).summary = HasSummary(payload) /\ Analyze(payload).use_case = UseCase(payload)
      BY DEF Analyze
    <3> QED BY <3>1, SummaryIsBoolean
  <2>5. UseCase(payload) # ""
    BY DEF UseCase, Payload, Command, File, Work
  <2>6. CASE analysis' = Analyze(payload) /\ payload' \in {payload, Compact(payload, Analyze(payload).summary)}
    <3>1. Classified'
      BY <2>4, <2>5, <2>6 DEF Classified
    <3>2. payload' \in Payload /\ payload'.source = original'.source
      BY <2>3, <2>4, <2>6, CompactShape
    <3>3. CompactionIsInvisible'
      BY <2>3, <2>4, <2>6, CompactKeepsReadable DEF CompactionIsInvisible
    <3>4. analysis'.summary \in BOOLEAN
      BY <2>4, <2>6
    <3> QED BY <2>3, <3>1, <3>2, <3>3, <3>4 DEF Admitted
  <2>7. CASE analysis' = analysis /\ payload' = payload
    <3>1. CompactionIsInvisible'
      BY <2>3, <2>7 DEF CompactionIsInvisible
    <3>2. Score(original)' = Score(original)
      BY <2>3 DEF Score, CommandScore, ProcScore, Has
    <3>3. ShouldDrop(original, weight)' <=> ShouldDrop(original, weight)
      BY <2>3
    <3> QED BY <2>1, <2>3, <2>7, <3>1, <3>2, <3>3 DEF Admitted, Untouched
  <2> QED BY <2>3, <2>6, <2>7
<1>3. CASE LaterPass
  <2>1. /\ place' = "stored" /\ original' = original /\ analysis' = analysis /\ Classified
        /\ payload' \in {payload, Compact(payload, analysis.summary)}
    BY <1>3 DEF LaterPass
  <2>2. payload' \in Payload /\ payload'.source = original'.source
    BY <2>1, CompactShape
  <2>3. CompactionIsInvisible'
    BY <2>1, CompactKeepsReadable DEF CompactionIsInvisible
  <2>4. Admitted'
    BY <2>1 DEF Admitted, Classified
  <2>5. analysis'.summary \in BOOLEAN
    BY <2>1
  <2> QED BY <2>1, <2>2, <2>3, <2>4, <2>5
<1>4. CASE ArchiveOne
  BY <1>4 DEF ArchiveOne, Admitted, CompactionIsInvisible
<1>5. CASE UNCHANGED verdictVars
  <2>1. Admitted' /\ CompactionIsInvisible'
    BY <1>5 DEF verdictVars, Admitted, CompactionIsInvisible, Untouched, Classified
  <2> QED BY <1>5, <2>1 DEF verdictVars
<1> QED BY <1>1, <1>2, <1>3, <1>4, <1>5 DEF VerdictNext

LEMMA VerdictInductive == VerdictSpec => []VerdictInv
BY VerdictStarts, VerdictSteps, PTL DEF VerdictSpec

(* What was let into the log is never dropped later: whatever the rules    *)
(* find in a payload, and whatever the passes before left of it, the       *)
(* worker's verdict on a stored row is the one that was taken at the door. *)
THEOREM StoredIsKept == VerdictSpec => []NothingStoredIsDropped
<1>1. VerdictInv => NothingStoredIsDropped
  BY DEF VerdictInv, NothingStoredIsDropped
<1> QED BY <1>1, VerdictInductive, PTL

(* Any number of passes over a row leaves of it what the projector and the *)
(* handoff read.                                                           *)
THEOREM CompactedIsReadable == VerdictSpec => []CompactionIsInvisible
<1>1. VerdictInv => CompactionIsInvisible
  BY DEF VerdictInv
<1> QED BY <1>1, VerdictInductive, PTL
-----------------------------------------------------------------------------
(* The working set.                                                        *)

(* An event that no CAPACITY events came after, and that was not taken     *)
(* out, is in the working set, and no further from its end.                *)
Reaches(k) ==
  recorded[k] \notin forgotten /\ Len(recorded) - k < CAPACITY =>
    \E i \in 1..Len(working) : working[i] = recorded[k]
                               /\ Len(working) - i <= Len(recorded) - k

WorkingInv ==
  /\ working \in Seq(Event) /\ Len(working) <= CAPACITY
  /\ recorded \in Seq(Event)
  /\ dropping \in Event \cup {NONE}
  /\ \A k \in 1..Len(recorded) : Reaches(k)

(* The last n elements of a sequence, which is all of a shorter one.       *)
LEMMA LastOfShape ==
  ASSUME NEW S, NEW s \in Seq(S), NEW n \in Nat
  PROVE  /\ LastOf(s, n) \in Seq(S) /\ Len(LastOf(s, n)) <= n
         /\ \E cut \in Nat : /\ cut = IF Len(s) > n THEN Len(s) - n ELSE 0
                             /\ Len(LastOf(s, n)) + cut = Len(s)
                             /\ \A i \in 1..Len(LastOf(s, n)) : LastOf(s, n)[i] = s[cut + i]
<1>1. Len(s) \in Nat
  OBVIOUS
<1>2. CASE Len(s) > n
  <2> DEFINE cut == Len(s) - n
             t == SubSeq(s, cut + 1, Len(s))
  <2>1. LastOf(s, n) = t
    BY <1>2 DEF LastOf
  <2>2. cut \in Nat /\ t \in Seq(S) /\ Len(t) = n
    BY <1>1, <1>2
  <2>3. \A i \in 1..n : t[i] = s[cut + i]
    BY <1>1, <1>2
  <2>4. n + cut = Len(s) /\ cut = IF Len(s) > n THEN Len(s) - n ELSE 0
    BY <1>1, <1>2
  <2> HIDE DEF cut, t
  <2>5. Len(t) + cut = Len(s) /\ \A i \in 1..Len(t) : t[i] = s[cut + i]
    BY <2>2, <2>3, <2>4
  <2>6. Len(t) <= n
    BY <2>2
  <2> QED BY <2>1, <2>2, <2>4, <2>5, <2>6
<1>3. CASE ~(Len(s) > n)
  <2>1. LastOf(s, n) = SubSeq(s, 1, Len(s))
    BY <1>3 DEF LastOf
  <2>2. SubSeq(s, 1, Len(s)) = s
    OBVIOUS
  <2> DEFINE cut == 0
  <2>3. \A i \in 1..Len(s) : s[i] = s[cut + i]
    OBVIOUS
  <2>4. /\ cut \in Nat /\ cut = IF Len(s) > n THEN Len(s) - n ELSE 0
        /\ Len(s) + cut = Len(s) /\ Len(s) <= n
    BY <1>1, <1>3
  <2> HIDE DEF cut
  <2>5. LastOf(s, n) = s
    BY <2>1, <2>2
  <2> QED BY <2>3, <2>4, <2>5
<1> QED BY <1>2, <1>3

LEMMA RecordKeeps ==
  ASSUME NEW e \in Event, WorkingInv,
         working' = Record(working, e), recorded' = Append(recorded, e),
         forgotten' = forgotten, dropping' = dropping
  PROVE  WorkingInv'
<1> DEFINE w == Append(working, e)
           N == Len(working)
           M == Len(recorded)
<1>1. /\ w \in Seq(Event) /\ Len(w) = N + 1 /\ N \in Nat /\ M \in Nat
      /\ w[N + 1] = e /\ \A i \in 1..N : w[i] = working[i]
      /\ CAPACITY \in Nat /\ CAPACITY > 0
  BY TiersAssumption DEF WorkingInv
<1>2. /\ recorded' \in Seq(Event) /\ Len(recorded') = M + 1
      /\ recorded'[M + 1] = e /\ \A k \in 1..M : recorded'[k] = recorded[k]
  BY DEF WorkingInv
<1>3. working' = LastOf(w, CAPACITY)
  BY DEF Record
<1> HIDE DEF w
<1>4. working' \in Seq(Event) /\ Len(working') <= CAPACITY
  BY <1>1, <1>3, LastOfShape
<1>5. PICK cut \in Nat : /\ cut = IF N + 1 > CAPACITY THEN N + 1 - CAPACITY ELSE 0
                         /\ Len(working') + cut = N + 1
                         /\ \A i \in 1..Len(working') : working'[i] = w[cut + i]
  <2> DEFINE v == LastOf(w, CAPACITY)
  <2>1. \E cut \in Nat : /\ cut = IF Len(w) > CAPACITY THEN Len(w) - CAPACITY ELSE 0
                         /\ Len(v) + cut = Len(w)
                         /\ \A i \in 1..Len(v) : v[i] = w[cut + i]
    BY <1>1, LastOfShape
  <2>2. v = working'
    BY <1>3
  <2> HIDE DEF v
  <2>3. PICK cut \in Nat : /\ cut = IF Len(w) > CAPACITY THEN Len(w) - CAPACITY ELSE 0
                           /\ Len(v) + cut = Len(w)
                           /\ \A i \in 1..Len(v) : v[i] = w[cut + i]
    BY <2>1
  <2>4. cut = IF N + 1 > CAPACITY THEN N + 1 - CAPACITY ELSE 0
    BY <1>1, <2>3
  <2>5. Len(working') + cut = N + 1
    BY <1>1, <2>2, <2>3
  <2>6. \A i \in 1..Len(working') : working'[i] = w[cut + i]
    BY <2>2, <2>3
  <2> QED BY <2>4, <2>5, <2>6
<1>6. Len(working') \in Nat
  BY <1>4
<1>7. ASSUME NEW j \in 1..(N + 1), (N + 1) - j < CAPACITY
      PROVE  \E i \in 1..Len(working') : /\ working'[i] = w[j]
                                         /\ Len(working') - i = (N + 1) - j
  <2>1. cut < j
    BY <1>1, <1>5, <1>6, <1>7, <1>4
  <2>2. j - cut \in 1..Len(working') /\ cut + (j - cut) = j
        /\ Len(working') - (j - cut) = (N + 1) - j
    BY <1>1, <1>5, <1>6, <2>1
  <2> QED BY <1>5, <2>2
<1>8. ASSUME NEW k \in 1..Len(recorded'), recorded'[k] \notin forgotten,
             Len(recorded') - k < CAPACITY
      PROVE  \E i \in 1..Len(working') : /\ working'[i] = recorded'[k]
                                         /\ Len(working') - i <= Len(recorded') - k
  <2>1. CASE k = M + 1
    <3>1. N + 1 \in 1..(N + 1) /\ (N + 1) - (N + 1) < CAPACITY
      BY <1>1
    <3>2. PICK i \in 1..Len(working') : /\ working'[i] = w[N + 1]
                                        /\ Len(working') - i = (N + 1) - (N + 1)
      BY <1>7, <3>1
    <3>3. Len(working') - i <= Len(recorded') - k
      BY <1>1, <1>2, <1>6, <2>1, <3>2
    <3> QED BY <1>1, <1>2, <2>1, <3>2, <3>3
  <2>2. CASE k # M + 1
    <3>1. k \in 1..M /\ M - k < CAPACITY /\ recorded'[k] = recorded[k]
      BY <1>1, <1>2, <1>8, <2>2
    <3>2. PICK j \in 1..N : working[j] = recorded[k] /\ N - j <= M - k
      BY <1>8, <3>1 DEF WorkingInv, Reaches
    <3>3. j \in 1..(N + 1) /\ (N + 1) - j < CAPACITY /\ w[j] = recorded[k]
      BY <1>1, <1>2, <1>8, <3>1, <3>2
    <3>4. PICK i \in 1..Len(working') : /\ working'[i] = w[j]
                                        /\ Len(working') - i = (N + 1) - j
      BY <1>7, <3>3
    <3>5. Len(working') - i <= Len(recorded') - k
      BY <1>1, <1>2, <1>6, <3>1, <3>2, <3>4
    <3> QED BY <3>1, <3>3, <3>4, <3>5
  <2> QED BY <2>1, <2>2
<1>9. \A k \in 1..Len(recorded') : Reaches(k)'
  BY <1>8 DEF Reaches
<1> QED BY <1>2, <1>4, <1>9 DEF WorkingInv

LEMMA ForgetKeeps ==
  ASSUME WorkingInv, ForgetDropped
  PROVE  WorkingInv'
<1> DEFINE keep == Event \ {dropping}
<1>1. /\ working' = Sifted(working, keep) /\ recorded' = recorded
      /\ forgotten' = forgotten \cup {dropping} /\ dropping' = NONE
  BY DEF ForgetDropped, Forget
<1>2. working \in Seq(Event) /\ recorded \in Seq(Event) /\ Len(working) <= CAPACITY
  BY DEF WorkingInv
<1>3. working' \in Seq(Event) /\ \E from : Leave(working, Len(working), keep, working', from)
  <2> HIDE DEF keep
  <2> QED BY <1>1, <1>2, SiftedLeaves
<1>4. PICK from : Leave(working, Len(working), keep, working', from)
  BY <1>3
<1>5. Len(working') <= CAPACITY
  <2>1. Len(working') <= Len(working) /\ Len(working') \in Nat /\ Len(working) \in Nat
    BY <1>2, <1>3, <1>4 DEF Leave
  <2>2. CAPACITY \in Nat
    BY TiersAssumption
  <2> QED BY <1>2, <2>1, <2>2
<1>6. ASSUME NEW k \in 1..Len(recorded), recorded[k] \notin forgotten',
             Len(recorded) - k < CAPACITY
      PROVE  \E i \in 1..Len(working') : /\ working'[i] = recorded[k]
                                         /\ Len(working') - i <= Len(recorded) - k
  <2>1. PICK i \in 1..Len(working) : /\ working[i] = recorded[k]
                                     /\ Len(working) - i <= Len(recorded) - k
    BY <1>1, <1>6 DEF WorkingInv, Reaches
  <2>2. working[i] \in keep
    BY <1>1, <1>2, <1>6, <2>1
  <2>3. PICK j \in 1..Len(working') : from[j] = i
    BY <1>4, <2>1, <2>2 DEF Leave
  <2>4. working'[j] = recorded[k] /\ Len(working') - j <= Len(working) - i
    BY <1>4, <2>1, <2>3 DEF Leave
  <2>5. Len(working') \in Nat /\ Len(working) \in Nat /\ Len(recorded) \in Nat
    BY <1>2, <1>3
  <2>6. Len(working') - j <= Len(recorded) - k
    BY <2>1, <2>4, <2>5
  <2> QED BY <2>4, <2>6
<1>7. \A k \in 1..Len(recorded') : Reaches(k)'
  BY <1>1, <1>6 DEF Reaches
<1> QED BY <1>1, <1>2, <1>3, <1>5, <1>7 DEF WorkingInv

LEMMA WorkingElsewhere ==
  ASSUME WorkingInv, UNCHANGED <<working, recorded, forgotten>>,
         dropping' \in Event \cup {NONE}
  PROVE  WorkingInv'
BY DEF WorkingInv, Reaches

LEMMA WorkingStarts ==
  ASSUME working = <<>>, recorded = <<>>, dropping = NONE
  PROVE  WorkingInv
<1>1. working \in Seq(Event) /\ recorded \in Seq(Event) /\ Len(working) = 0 /\ Len(recorded) = 0
  OBVIOUS
<1>2. Len(working) <= CAPACITY
  BY <1>1, TiersAssumption
<1> QED BY <1>1, <1>2 DEF WorkingInv

LEMMA WorkingSteps == WorkingInv /\ [Next]_vars => WorkingInv'
<1> SUFFICES ASSUME WorkingInv, [Next]_vars PROVE WorkingInv'
  OBVIOUS
<1>0. dropping \in Event \cup {NONE}
  BY DEF WorkingInv
<1>1. ASSUME NEW e \in Event, Insert(e) PROVE WorkingInv'
  BY <1>0, <1>1, WorkingElsewhere DEF Insert
<1>2. ASSUME NEW e \in Event, RecordEvent(e) PROVE WorkingInv'
  BY <1>2, RecordKeeps DEF RecordEvent
<1>3. ASSUME NEW e \in Event, ObserveEvent(e) PROVE WorkingInv'
  BY <1>0, <1>3, WorkingElsewhere DEF ObserveEvent
<1>4. ASSUME NEW e \in Event, DropRow(e) PROVE WorkingInv'
  BY <1>4, WorkingElsewhere DEF DropRow
<1>5. CASE ForgetDropped
  BY <1>5, ForgetKeeps
<1>6. CASE CopyGraph
  BY <1>0, <1>6, WorkingElsewhere DEF CopyGraph
<1>7. CASE SaveGraph
  BY <1>0, <1>7, WorkingElsewhere DEF SaveGraph
<1>8. CASE Crash
  <2>1. working' = <<>> /\ recorded' = <<>> /\ dropping' = NONE
    BY <1>8 DEF Crash
  <2>2. working' \in Seq(Event) /\ recorded' \in Seq(Event)
        /\ Len(working') = 0 /\ Len(recorded') = 0
    BY <2>1
  <2>3. Len(working') <= CAPACITY
    BY <2>2, TiersAssumption
  <2> QED BY <2>1, <2>2, <2>3 DEF WorkingInv
<1>9. CASE Restart
  BY <1>0, <1>9, WorkingElsewhere DEF Restart
<1>10. CASE UNCHANGED vars
  BY <1>0, <1>10, WorkingElsewhere DEF vars
<1> QED BY <1>1, <1>2, <1>3, <1>4, <1>5, <1>6, <1>7, <1>8, <1>9, <1>10 DEF Next

LEMMA WorkingIsComplete == WorkingInv => RecentIsComplete
<1> SUFFICES ASSUME WorkingInv, NEW k \in DOMAIN recorded, NEW now \in {Stamp[e] : e \in Event},
                    recorded[k] \notin forgotten, Len(recorded) - k < CAPACITY,
                    Stamp[recorded[k]] >= now - HORIZON
             PROVE  recorded[k] \in ToSet(Recent(working, now, CAPACITY))
  BY DEF RecentIsComplete
<1> DEFINE fresh == {e \in Event : Stamp[e] >= now - HORIZON}
           r == Reverse(working)
           t == Sifted(r, fresh)
           N == Len(working)
<1>1. /\ working \in Seq(Event) /\ N \in Nat /\ N <= CAPACITY /\ CAPACITY \in Nat
      /\ recorded \in Seq(Event) /\ k \in 1..Len(recorded) /\ recorded[k] \in Event
  BY TiersAssumption DEF WorkingInv
<1>2. r \in Seq(Event) /\ Len(r) = N /\ \A i \in 1..N : r[i] = working[(N - i) + 1]
  BY <1>1 DEF Reverse
<1>3. PICK i \in 1..N : working[i] = recorded[k]
  BY <1>1 DEF WorkingInv, Reaches
<1>4. (N - i) + 1 \in 1..N /\ r[(N - i) + 1] = recorded[k]
  <2>1. (N - i) + 1 \in 1..N /\ (N - ((N - i) + 1)) + 1 = i
    BY <1>1
  <2> QED BY <1>2, <1>3, <2>1
<1>5. recorded[k] \in fresh
  BY <1>1
<1> HIDE DEF r, fresh
<1>6. t \in Seq(Event) /\ Len(t) \in Nat /\ Len(t) <= N
  BY <1>2, SiftedLeaves, SiftedElements
<1>7. \E j \in 1..Len(t) : t[j] = recorded[k]
  <2>1. r \in Seq(Event)
    BY <1>2
  <2>2. \E from : Leave(r, Len(r), fresh, t, from)
    BY <2>1, SiftedLeaves
  <2> HIDE DEF t
  <2>3. PICK from : Leave(r, Len(r), fresh, t, from)
    BY <2>2
  <2>4. PICK m \in 1..Len(t) : from[m] = (N - i) + 1
    BY <1>2, <1>4, <1>5, <2>3 DEF Leave
  <2>5. t[m] = r[from[m]]
    BY <2>3 DEF Leave
  <2> QED BY <1>4, <2>4, <2>5
<1>8. Recent(working, now, CAPACITY) = FirstOf(t, CAPACITY)
  BY DEF Recent, r, fresh
<1> HIDE DEF t
<1>9. FirstOf(t, CAPACITY) = SubSeq(t, 1, Len(t))
  BY <1>1, <1>6 DEF FirstOf
<1>10. SubSeq(t, 1, Len(t)) = t
  BY <1>6
<1>11. Recent(working, now, CAPACITY) = t
  BY <1>8, <1>9, <1>10
<1>12. PICK j \in DOMAIN t : t[j] = recorded[k]
  BY <1>6, <1>7
<1> QED BY <1>11, <1>12 DEF ToSet

(* Whatever the worker takes out meanwhile, the working set gives every    *)
(* fresh event of this session that was not taken out, unless CAPACITY     *)
(* others came after it: for any capacity and horizon.                     *)
THEOREM RecentEventsAreThere == Spec => []RecentIsComplete
<1>1. Init => WorkingInv
  BY WorkingStarts DEF Init
<1> QED BY <1>1, WorkingSteps, WorkingIsComplete, PTL DEF Spec
-----------------------------------------------------------------------------
(* The graph and its tables.                                               *)

IsGraph(g) ==
  /\ g = [nodes |-> g.nodes, weight |-> g.weight]
  /\ g.weight \in [DOMAIN g.weight -> Nat]
  /\ \A x \in DOMAIN g.weight : x \subseteq g.nodes

(* Tables that were always read hold what the graph still has; so does a   *)
(* copy, which is between the two.                                         *)
FlushInv ==
  /\ IsGraph(graph) /\ IsGraph(disk) /\ (copied # NONE => IsGraph(copied))
  /\ unreadable \in Nat
  /\ ~up => copied = NONE
  /\ unreadable = 0 /\ up => Below(disk, graph)
  /\ unreadable = 0 /\ copied # NONE => Below(disk, copied) /\ Below(copied, graph)

LEMMA NoGraphIsGraph == IsGraph(NoGraph)
<1> DEFINE none == [edge \in {} |-> 0]
<1>1. DOMAIN none = {} /\ none \in [{} -> Nat]
  OBVIOUS
<1>2. NoGraph.nodes = {} /\ NoGraph.weight = none /\ NoGraph = [nodes |-> {}, weight |-> none]
  BY DEF NoGraph
<1> HIDE DEF none
<1> QED BY <1>1, <1>2 DEF IsGraph

LEMMA BelowSelf ==
  ASSUME NEW g, IsGraph(g)
  PROVE  Below(g, g)
BY DEF IsGraph, Below, WeightOf

LEMMA BelowTransitive ==
  ASSUME NEW g, IsGraph(g), NEW h, IsGraph(h), NEW k, IsGraph(k), Below(g, h), Below(h, k)
  PROVE  Below(g, k)
<1>1. g.nodes \subseteq k.nodes
  BY DEF Below
<1>2. ASSUME NEW x \in DOMAIN g.weight PROVE g.weight[x] <= WeightOf(k, x)
  <2>1. g.weight[x] \in Nat /\ g.weight[x] <= WeightOf(h, x)
    BY DEF Below, IsGraph
  <2>2. WeightOf(k, x) \in Nat
    BY DEF WeightOf, IsGraph
  <2>3. CASE x \in DOMAIN h.weight
    <3>1. WeightOf(h, x) = h.weight[x] /\ h.weight[x] \in Nat
      BY <2>3 DEF WeightOf, IsGraph
    <3>2. h.weight[x] <= WeightOf(k, x)
      BY <2>3 DEF Below
    <3> QED BY <2>1, <2>2, <3>1, <3>2
  <2>4. CASE x \notin DOMAIN h.weight
    <3>1. WeightOf(h, x) = 0
      BY <2>4 DEF WeightOf
    <3> QED BY <2>1, <2>2, <3>1
  <2> QED BY <2>3, <2>4
<1> QED BY <1>1, <1>2 DEF Below

LEMMA NothingBelowNoGraph ==
  ASSUME NEW g, IsGraph(g)
  PROVE  Below(NoGraph, g)
<1>1. NoGraph.nodes = {} /\ DOMAIN NoGraph.weight = {}
  BY DEF NoGraph
<1> QED BY <1>1 DEF Below

(* Of a graph, every edge has its nodes: none is skipped.                  *)
LEMMA LoadIsWhole ==
  ASSUME NEW d, IsGraph(d)
  PROVE  Load(d) = d
<1>1. {y \in DOMAIN d.weight : y \subseteq d.nodes} = DOMAIN d.weight
  BY DEF IsGraph
<1>2. [x \in DOMAIN d.weight |-> d.weight[x]] = d.weight
  BY DEF IsGraph
<1>3. Load(d) = [d EXCEPT !.weight = d.weight]
  BY <1>1, <1>2 DEF Load
<1>4. [d EXCEPT !.weight = d.weight] = d
  BY DEF IsGraph
<1> QED BY <1>3, <1>4

LEMMA EntitiesAreEntities ==
  ASSUME NEW e \in Event
  PROVE  EntitiesOf(e) \in Seq(Entity)
<1> DEFINE thing == [kind |-> KindOf(Source[e]), name |-> Thing[e]]
           error == [kind |-> "error", name |-> Error[e]]
           a == IF Source[e] = "note" \/ Thing[e] = NONE THEN <<>> ELSE <<thing>>
           b == IF Error[e] = NONE THEN <<>> ELSE <<error>>
<1>1. /\ Source[e] \in {"shell", "proc", "filesystem", "editor", "manifest", "git", "note"}
      /\ Thing[e] \in Nat \cup {NONE} /\ Error[e] \in Nat \cup {NONE}
  BY TiersAssumption
<1>2. Source[e] # "note" => KindOf(Source[e]) \in EntityKind
  BY <1>1 DEF KindOf, EntityKind
<1>3. Source[e] # "note" /\ Thing[e] # NONE => thing \in Entity
  BY <1>1, <1>2 DEF Entity
<1>4. Error[e] # NONE => error \in Entity
  BY <1>1 DEF Entity, EntityKind
<1> HIDE DEF thing, error
<1>5. a \in Seq(Entity) /\ b \in Seq(Entity)
  BY <1>3, <1>4
<1>6. EntitiesOf(e) = a \o b
  BY DEF EntitiesOf, thing, error
<1> HIDE DEF a, b
<1> QED BY <1>5, <1>6, ConcatProperties

(* What an observation meets: a finite set of pairs of places.             *)
Met(new, near) == {p \in (DOMAIN new) \X (DOMAIN near) : new[p[1]] # near[p[2]][1]}
EdgeAt(new, near, p) == Edge(new[p[1]], near[p[2]][1])

LEMMA MetIsFinite ==
  ASSUME NEW S, NEW new \in Seq(S), NEW R, NEW near \in Seq(R)
  PROVE  \A T \in SUBSET Met(new, near) : IsFiniteSet(T) /\ Cardinality(T) \in Nat
<1>1. DOMAIN new = 1..Len(new) /\ DOMAIN near = 1..Len(near) /\ Len(new) \in Nat /\ Len(near) \in Nat
  OBVIOUS
<1>2. IsFiniteSet(1..Len(new)) /\ IsFiniteSet(1..Len(near))
  BY <1>1, FS_Interval
<1>3. IsFiniteSet((1..Len(new)) \X (1..Len(near)))
  BY <1>2, FS_Product
<1>4. Met(new, near) \subseteq (1..Len(new)) \X (1..Len(near))
  BY <1>1 DEF Met
<1>5. ASSUME NEW T \in SUBSET Met(new, near)
      PROVE  IsFiniteSet(T) /\ Cardinality(T) \in Nat
  <2>1. T \in SUBSET ((1..Len(new)) \X (1..Len(near)))
    BY <1>4
  <2>2. IsFiniteSet(T)
    BY <1>3, <2>1, FS_Subset
  <2> QED BY <2>2, FS_CardinalityType
<1> QED BY <1>5

(* Linking adds nodes and weight, and takes none.                          *)
LEMMA LinkShape ==
  ASSUME NEW g, IsGraph(g), NEW S, NEW new \in Seq(S), NEW R, NEW near \in Seq(R)
  PROVE  /\ IsGraph(Link(g, new, near)) /\ Below(g, Link(g, new, near))
         /\ \A x \in DOMAIN Link(g, new, near).weight :
              Link(g, new, near).weight[x] =
                WeightOf(g, x) + Cardinality({p \in Met(new, near) : EdgeAt(new, near, p) = x})
<1> DEFINE met == Met(new, near)
           edges == {EdgeAt(new, near, p) : p \in met}
           count(x) == Cardinality({p \in met : EdgeAt(new, near, p) = x})
           nodes == g.nodes \cup ToSet(new) \cup UNION edges
           weigh == [x \in DOMAIN g.weight \cup edges |-> WeightOf(g, x) + count(x)]
           h == Link(g, new, near)
<1>1. h = [nodes |-> nodes, weight |-> weigh]
  BY DEF Link, Met, EdgeAt
<1>2. \A x : count(x) \in Nat
  BY MetIsFinite
<1>3. \A x : WeightOf(g, x) \in Nat
  BY DEF WeightOf, IsGraph
<1> HIDE DEF met
<1>4. DOMAIN weigh = DOMAIN g.weight \cup edges
      /\ \A x \in DOMAIN g.weight \cup edges : weigh[x] = WeightOf(g, x) + count(x)
  OBVIOUS
<1> HIDE DEF count, weigh
<1>5. \A x \in DOMAIN weigh : weigh[x] \in Nat /\ WeightOf(g, x) <= weigh[x]
  BY <1>2, <1>3, <1>4
<1>6. h.nodes = nodes /\ h.weight = weigh
  BY <1>1
<1>7. weigh \in [DOMAIN weigh -> Nat]
  <2>1. weigh = [x \in DOMAIN weigh |-> weigh[x]]
    BY DEF weigh
  <2> QED BY <1>5, <2>1
<1>8. \A x \in DOMAIN weigh : x \subseteq nodes
  <2>1. \A x \in DOMAIN g.weight : x \subseteq g.nodes
    BY DEF IsGraph
  <2> HIDE DEF edges
  <2> QED BY <1>4, <2>1
<1>9. IsGraph(h)
  <2> HIDE DEF nodes, h
  <2> QED BY <1>1, <1>6, <1>7, <1>8 DEF IsGraph
<1>10. Below(g, h)
  <2>1. \A x \in DOMAIN g.weight : g.weight[x] = WeightOf(g, x) /\ WeightOf(h, x) = weigh[x]
    BY <1>4, <1>6 DEF WeightOf
  <2>2. \A x \in DOMAIN g.weight : g.weight[x] <= WeightOf(h, x)
    BY <1>4, <1>5, <2>1
  <2>3. g.nodes \subseteq h.nodes
    BY <1>6
  <2> QED BY <2>2, <2>3 DEF Below
<1>11. \A x \in DOMAIN h.weight : h.weight[x] = WeightOf(g, x) + count(x)
  BY <1>4, <1>6
<1> QED BY <1>9, <1>10, <1>11 DEF count, met
-----------------------------------------------------------------------------
(* What the graph has seen.                                                *)

Seen     == Entity \X Nat
Sighting == Entity \X Nat \X Event

(* Each remembered entity comes from a sighting of its own.                *)
Recalls(seen, s, m) ==
  /\ m \in [1..Len(seen) -> 1..Len(s)]
  /\ \A i, j \in 1..Len(seen) : m[i] = m[j] => i = j
  /\ \A i \in 1..Len(seen) : s[m[i]][1] = seen[i][1] /\ s[m[i]][2] = seen[i][2]

TogetherIn(s, x) ==
  {p \in (DOMAIN s) \X (DOMAIN s) :
     /\ p[1] < p[2] /\ s[p[1]][3] # s[p[2]][3]
     /\ {s[p[1]][1], s[p[2]][1]} = x
     /\ s[p[2]][2] - s[p[1]][2] <= CO_OCCURRENCE_WINDOW}

EarnedBy(s, g) == \A x \in DOMAIN g.weight : g.weight[x] <= Cardinality(TogetherIn(s, x))

Sights(e) == [i \in DOMAIN EntitiesOf(e) |-> <<EntitiesOf(e)[i], Stamp[e], e>>]
Memories(e) == [i \in DOMAIN EntitiesOf(e) |-> <<EntitiesOf(e)[i], Stamp[e]>>]

LEMMA TogetherIsFinite ==
  ASSUME NEW S, NEW s \in Seq(S), NEW x
  PROVE  IsFiniteSet(TogetherIn(s, x)) /\ Cardinality(TogetherIn(s, x)) \in Nat
<1>1. Len(s) \in Nat /\ DOMAIN s = 1..Len(s)
  OBVIOUS
<1>2. IsFiniteSet(1..Len(s))
  BY <1>1, FS_Interval
<1>3. IsFiniteSet((1..Len(s)) \X (1..Len(s)))
  BY <1>2, FS_Product
<1>4. TogetherIn(s, x) \in SUBSET ((1..Len(s)) \X (1..Len(s)))
  BY <1>1 DEF TogetherIn
<1>5. IsFiniteSet(TogetherIn(s, x))
  BY <1>3, <1>4, FS_Subset
<1> QED BY <1>5, FS_CardinalityType

LEMMA SightsShape ==
  ASSUME NEW e \in Event
  PROVE  /\ Sights(e) \in Seq(Sighting) /\ Len(Sights(e)) = Len(EntitiesOf(e))
         /\ \A i \in 1..Len(EntitiesOf(e)) : /\ Sights(e)[i][1] = EntitiesOf(e)[i]
                                             /\ Sights(e)[i][2] = Stamp[e]
                                             /\ Sights(e)[i][3] = e
<1> DEFINE new == EntitiesOf(e)
<1>1. new \in Seq(Entity) /\ DOMAIN new = 1..Len(new) /\ Len(new) \in Nat
  BY EntitiesAreEntities
<1>2. Stamp[e] \in Nat
  BY TiersAssumption
<1>3. \A i \in 1..Len(new) : new[i] \in Entity
  BY <1>1
<1>4. \A i \in 1..Len(new) : <<new[i], Stamp[e], e>> \in Sighting
  BY <1>2, <1>3 DEF Sighting
<1>5. Sights(e) = [i \in 1..Len(new) |-> <<new[i], Stamp[e], e>>]
  BY <1>1 DEF Sights
<1> HIDE DEF new
<1>6. Sights(e) \in Seq(Sighting) /\ Len(Sights(e)) = Len(new)
  BY <1>1, <1>4, <1>5
<1>7. \A i \in 1..Len(new) : Sights(e)[i] = <<new[i], Stamp[e], e>>
  BY <1>5
<1> QED BY <1>6, <1>7 DEF new

LEMMA MemoriesShape ==
  ASSUME NEW e \in Event
  PROVE  /\ Memories(e) \in Seq(Seen) /\ Len(Memories(e)) = Len(EntitiesOf(e))
         /\ \A i \in 1..Len(EntitiesOf(e)) : /\ Memories(e)[i][1] = EntitiesOf(e)[i]
                                             /\ Memories(e)[i][2] = Stamp[e]
<1> DEFINE new == EntitiesOf(e)
<1>1. new \in Seq(Entity) /\ DOMAIN new = 1..Len(new) /\ Len(new) \in Nat
  BY EntitiesAreEntities
<1>2. Stamp[e] \in Nat
  BY TiersAssumption
<1>3. \A i \in 1..Len(new) : new[i] \in Entity
  BY <1>1
<1>4. \A i \in 1..Len(new) : <<new[i], Stamp[e]>> \in Seen
  BY <1>2, <1>3 DEF Seen
<1>5. Memories(e) = [i \in 1..Len(new) |-> <<new[i], Stamp[e]>>]
  BY <1>1 DEF Memories
<1> HIDE DEF new
<1>6. Memories(e) \in Seq(Seen) /\ Len(Memories(e)) = Len(new)
  BY <1>1, <1>4, <1>5
<1>7. \A i \in 1..Len(new) : Memories(e)[i] = <<new[i], Stamp[e]>>
  BY <1>5
<1> QED BY <1>6, <1>7 DEF new

LEMMA KeptShape ==
  ASSUME NEW seen \in Seq(Seen), NEW ts
  PROVE  /\ Kept(seen, ts) \in Seq(Seen)
         /\ \E from : /\ from \in [1..Len(Kept(seen, ts)) -> 1..Len(seen)]
                      /\ \A i, j \in 1..Len(Kept(seen, ts)) : from[i] = from[j] => i = j
                      /\ \A i \in 1..Len(Kept(seen, ts)) :
                           /\ Kept(seen, ts)[i] = seen[from[i]]
                           /\ ts - Kept(seen, ts)[i][2] <= CO_OCCURRENCE_WINDOW
<1> DEFINE keep == {s \in ToSet(seen) : ts - s[2] <= CO_OCCURRENCE_WINDOW}
           t == Kept(seen, ts)
<1>1. t = Sifted(seen, keep)
  BY DEF Kept
<1>2. \A s \in keep : ts - s[2] <= CO_OCCURRENCE_WINDOW
  OBVIOUS
<1> HIDE DEF keep
<1>3. t \in Seq(Seen) /\ \E from : Leave(seen, Len(seen), keep, t, from)
  BY <1>1, SiftedLeaves
<1> HIDE DEF t
<1>4. PICK from : Leave(seen, Len(seen), keep, t, from)
  BY <1>3
<1>5. from \in [1..Len(t) -> 1..Len(seen)] /\ Len(t) \in Nat /\ Len(seen) \in Nat
  BY <1>3, <1>4 DEF Leave
<1>6. \A i, j \in 1..Len(t) : from[i] = from[j] => i = j
  <2>1. SUFFICES ASSUME NEW i \in 1..Len(t), NEW j \in 1..Len(t), i < j PROVE from[i] # from[j]
    BY <1>5
  <2>2. from[i] < from[j]
    BY <1>4, <2>1 DEF Leave
  <2>3. from[i] \in 1..Len(seen) /\ from[j] \in 1..Len(seen)
    BY <1>5
  <2> QED BY <1>5, <2>2, <2>3
<1>7. \A i \in 1..Len(t) : t[i] = seen[from[i]] /\ ts - t[i][2] <= CO_OCCURRENCE_WINDOW
  BY <1>2, <1>4 DEF Leave
<1> QED BY <1>3, <1>5, <1>6, <1>7 DEF t

LEMMA NearShape ==
  ASSUME NEW seen \in Seq(Seen), NEW ts, NEW near,
         near = LastOf(Kept(seen, ts), RECENT_ENTITY_WINDOW)
  PROVE  /\ near \in Seq(Seen)
         /\ \E from : /\ from \in [1..Len(near) -> 1..Len(seen)]
                      /\ \A i, j \in 1..Len(near) : from[i] = from[j] => i = j
                      /\ \A i \in 1..Len(near) :
                           /\ near[i] = seen[from[i]]
                           /\ ts - near[i][2] <= CO_OCCURRENCE_WINDOW
<1> DEFINE t == Kept(seen, ts)
           W == RECENT_ENTITY_WINDOW
<1>1. t \in Seq(Seen)
  BY KeptShape
<1>2. PICK from : /\ from \in [1..Len(t) -> 1..Len(seen)]
                  /\ \A i, j \in 1..Len(t) : from[i] = from[j] => i = j
                  /\ \A i \in 1..Len(t) : /\ t[i] = seen[from[i]]
                                          /\ ts - t[i][2] <= CO_OCCURRENCE_WINDOW
  BY KeptShape
<1> HIDE DEF t
<1>3. W \in Nat
  BY TiersAssumption
<1> HIDE DEF W
<1>4. near = LastOf(t, W)
  BY DEF t, W
<1>5. near \in Seq(Seen)
      /\ \E cut \in Nat : /\ Len(near) + cut = Len(t)
                          /\ \A i \in 1..Len(near) : near[i] = t[cut + i]
  <2> DEFINE l == LastOf(t, W)
  <2>1. l \in Seq(Seen)
        /\ \E cut \in Nat : /\ cut = IF Len(t) > W THEN Len(t) - W ELSE 0
                            /\ Len(l) + cut = Len(t)
                            /\ \A i \in 1..Len(l) : l[i] = t[cut + i]
    BY <1>1, <1>3, LastOfShape
  <2> HIDE DEF l
  <2>2. near = l
    BY <1>4 DEF l
  <2>3. PICK cut \in Nat : /\ Len(l) + cut = Len(t)
                           /\ \A i \in 1..Len(l) : l[i] = t[cut + i]
    BY <2>1
  <2>4. Len(near) + cut = Len(t) /\ \A i \in 1..Len(near) : near[i] = t[cut + i]
    BY <2>2, <2>3
  <2>5. near \in Seq(Seen)
    BY <2>1, <2>2
  <2> QED BY <2>4, <2>5
<1>6. PICK cut \in Nat : /\ Len(near) + cut = Len(t)
                         /\ \A i \in 1..Len(near) : near[i] = t[cut + i]
  BY <1>5
<1>7. Len(near) \in Nat /\ Len(t) \in Nat
  BY <1>1, <1>5
<1>8. \A i \in 1..Len(near) : cut + i \in 1..Len(t)
  BY <1>6, <1>7
<1> DEFINE g == [i \in 1..Len(near) |-> from[cut + i]]
<1>9. g \in [1..Len(near) -> 1..Len(seen)]
  BY <1>2, <1>8
<1>10. \A i, j \in 1..Len(near) : g[i] = g[j] => i = j
  <2>1. SUFFICES ASSUME NEW i \in 1..Len(near), NEW j \in 1..Len(near), g[i] = g[j] PROVE i = j
    OBVIOUS
  <2>2. cut + i = cut + j
    BY <1>2, <1>8, <2>1
  <2> QED BY <1>7, <2>2
<1>11. \A i \in 1..Len(near) : near[i] = seen[g[i]] /\ ts - near[i][2] <= CO_OCCURRENCE_WINDOW
  BY <1>2, <1>6, <1>8
<1> HIDE DEF g
<1> QED BY <1>5, <1>9, <1>10, <1>11

(* More sightings bring no two things less often together.                 *)
LEMMA EarnedStays ==
  ASSUME NEW s \in Seq(Sighting), NEW t \in Seq(Sighting), NEW g, IsGraph(g), EarnedBy(s, g)
  PROVE  EarnedBy(s \o t, g)
<1> DEFINE u == s \o t
<1>1. /\ u \in Seq(Sighting) /\ DOMAIN s \subseteq DOMAIN u
      /\ \A i \in DOMAIN s : u[i] = s[i]
  <2>1. u \in Seq(Sighting) /\ Len(u) = Len(s) + Len(t)
        /\ \A i \in 1..Len(s) + Len(t) : u[i] = IF i <= Len(s) THEN s[i] ELSE t[i - Len(s)]
    BY ConcatProperties
  <2>2. Len(s) \in Nat /\ Len(t) \in Nat /\ DOMAIN s = 1..Len(s)
    OBVIOUS
  <2> HIDE DEF u
  <2>3. DOMAIN u = 1..Len(u)
    BY <2>1
  <2> QED BY <2>1, <2>2, <2>3
<1> HIDE DEF u
<1>2. ASSUME NEW x \in DOMAIN g.weight PROVE g.weight[x] <= Cardinality(TogetherIn(u, x))
  <2>1. TogetherIn(s, x) \subseteq TogetherIn(u, x)
    BY <1>1 DEF TogetherIn
  <2>2. Cardinality(TogetherIn(s, x)) <= Cardinality(TogetherIn(u, x))
    BY <1>1, <2>1, TogetherIsFinite, FS_Subset
  <2>3. g.weight[x] <= Cardinality(TogetherIn(s, x)) /\ g.weight[x] \in Nat
    BY DEF EarnedBy, IsGraph
  <2>4. Cardinality(TogetherIn(s, x)) \in Nat /\ Cardinality(TogetherIn(u, x)) \in Nat
    BY <1>1, TogetherIsFinite
  <2> QED BY <2>2, <2>3, <2>4
<1> QED BY <1>2 DEF EarnedBy, u

(* An event adds to an edge once for each remembered entity it meets, and  *)
(* each of those was a sighting of its own, in the window, of another      *)
(* event.                                                                  *)
LEMMA ObserveEarns ==
  ASSUME NEW s \in Seq(Sighting), NEW seen \in Seq(Seen), NEW m, Recalls(seen, s, m),
         NEW e \in Event, \A i \in 1..Len(s) : s[i][3] # e,
         NEW g, IsGraph(g), EarnedBy(s, g)
  PROVE  /\ IsGraph(Observe(g, seen, e)) /\ Below(g, Observe(g, seen, e))
         /\ EarnedBy(s \o Sights(e), Observe(g, seen, e))
<1> DEFINE new == EntitiesOf(e)
           near == LastOf(Kept(seen, Stamp[e]), RECENT_ENTITY_WINDOW)
           t == Sights(e)
           u == s \o t
           h == Observe(g, seen, e)
           N == Len(s)
<1>1. new \in Seq(Entity) /\ DOMAIN new = 1..Len(new) /\ Len(new) \in Nat /\ N \in Nat
  BY EntitiesAreEntities
<1>2. near \in Seq(Seen)
  BY NearShape
<1>3. PICK from : /\ from \in [1..Len(near) -> 1..Len(seen)]
                  /\ \A i, j \in 1..Len(near) : from[i] = from[j] => i = j
                  /\ \A i \in 1..Len(near) :
                       /\ near[i] = seen[from[i]]
                       /\ Stamp[e] - near[i][2] <= CO_OCCURRENCE_WINDOW
  BY NearShape
<1>4. DOMAIN near = 1..Len(near)
  <2> HIDE DEF near
  <2> QED BY <1>2
<1>5. h = Link(g, new, near)
  BY DEF Observe
<1>6. t \in Seq(Sighting) /\ Len(t) = Len(new)
      /\ \A i \in 1..Len(new) : t[i][1] = new[i] /\ t[i][2] = Stamp[e] /\ t[i][3] = e
  BY SightsShape
<1> HIDE DEF new, near, t
<1>u. u = s \o t
  OBVIOUS
<1> HIDE DEF u
<1>7. /\ u \in Seq(Sighting) /\ Len(u) = N + Len(new)
      /\ \A i \in 1..N : u[i] = s[i]
      /\ \A i \in 1..Len(new) : u[N + i] = t[i]
  <2>1. /\ u \in Seq(Sighting) /\ Len(u) = Len(s) + Len(t)
        /\ \A i \in 1..Len(s) : u[i] = s[i]
        /\ \A i \in 1..Len(t) : u[Len(s) + i] = t[i]
    <3>1. t \in Seq(Sighting)
      BY <1>6
    <3> QED BY <1>u, <3>1, ConcatParts
  <2> QED BY <1>6, <2>1
<1>8. DOMAIN u = 1..(N + Len(new)) /\ DOMAIN s = 1..N
  BY <1>7
<1>9. /\ IsGraph(h) /\ Below(g, h)
      /\ \A x \in DOMAIN h.weight :
           h.weight[x] = WeightOf(g, x)
                         + Cardinality({p \in Met(new, near) : EdgeAt(new, near, p) = x})
  <2> HIDE DEF h
  <2>1. new \in Seq(Entity)
    BY <1>1
  <2> QED BY ONLY <1>2, <1>5, <2>1, IsGraph(g), LinkShape
<1> HIDE DEF h
<1>10. ASSUME NEW x \in DOMAIN h.weight
       PROVE  h.weight[x] <= Cardinality(TogetherIn(u, x))
  <2> DEFINE P == {p \in Met(new, near) : EdgeAt(new, near, p) = x}
             A == TogetherIn(s, x)
             B == TogetherIn(u, x)
             f == [p \in P |-> <<m[from[p[2]]], N + p[1]>>]
  <2>1. \A p \in P : /\ p = <<p[1], p[2]>> /\ p[1] \in 1..Len(new) /\ p[2] \in 1..Len(near)
                     /\ {new[p[1]], near[p[2]][1]} = x
    BY <1>1, <1>4 DEF Met, EdgeAt, Edge
  <2>2. \A p \in P : m[from[p[2]]] \in 1..N
    BY <1>3, <2>1 DEF Recalls
  <2>3. A \subseteq B
    <3>1. DOMAIN s \subseteq DOMAIN u /\ \A i \in DOMAIN s : u[i] = s[i]
      BY <1>1, <1>7, <1>8
    <3> QED BY <3>1 DEF TogetherIn
  <2>4. IsFiniteSet(A) /\ IsFiniteSet(B) /\ Cardinality(A) \in Nat /\ Cardinality(B) \in Nat
    BY <1>7, TogetherIsFinite
  <2>5. ASSUME NEW p \in P PROVE f[p] \in B \ A
    <3> DEFINE i == m[from[p[2]]]
               j == N + p[1]
    <3>1. i \in 1..N /\ j \in 1..(N + Len(new)) /\ i < j /\ i \in DOMAIN u /\ j \in DOMAIN u
      BY <1>1, <1>8, <2>1, <2>2
    <3>2. u[j][1] = new[p[1]] /\ u[j][2] = Stamp[e] /\ u[j][3] = e
      <4>1. p[1] \in 1..Len(new) /\ u[N + p[1]] = t[p[1]]
        BY <1>7, <2>1
      <4> QED BY <1>6, <4>1
    <3>3. u[i] = s[i] /\ u[i][3] # e
      BY <1>7, <3>1
    <3>4. s[i][1] = near[p[2]][1] /\ s[i][2] = near[p[2]][2]
      <4>1. from[p[2]] \in 1..Len(seen) /\ near[p[2]] = seen[from[p[2]]]
        BY <1>3, <2>1
      <4> QED BY <4>1 DEF Recalls
    <3>5. u[j][2] - u[i][2] <= CO_OCCURRENCE_WINDOW
      BY <1>3, <2>1, <3>2, <3>3, <3>4
    <3>6. {u[i][1], u[j][1]} = x
      BY <2>1, <3>2, <3>3, <3>4
    <3>7. j \notin DOMAIN s
      BY <1>1, <1>8, <2>1
    <3>8. f[p] = <<i, j>>
      OBVIOUS
    <3> HIDE DEF i, j, f
    <3>9. <<i, j>> \in B
      BY <3>1, <3>2, <3>3, <3>5, <3>6 DEF TogetherIn
    <3>10. <<i, j>> \notin A
      BY <3>7 DEF TogetherIn
    <3> QED BY <3>8, <3>9, <3>10
  <2>6. \A p, q \in P : f[p] = f[q] => p = q
    <3>1. SUFFICES ASSUME NEW p \in P, NEW q \in P, f[p] = f[q] PROVE p = q
      OBVIOUS
    <3>2. m[from[p[2]]] = m[from[q[2]]] /\ N + p[1] = N + q[1]
      BY <3>1
    <3>3. p[1] = q[1]
      BY <1>1, <2>1, <3>2
    <3>4. from[p[2]] \in 1..Len(seen) /\ from[q[2]] \in 1..Len(seen)
      BY <1>3, <2>1
    <3>5. from[p[2]] = from[q[2]]
      BY <3>2, <3>4 DEF Recalls
    <3>6. p[2] = q[2]
      BY <1>3, <2>1, <3>5
    <3> QED BY <2>1, <3>3, <3>6
  <2>7. f \in [P -> B \ A]
    BY <2>5
  <2> HIDE DEF f, P, A, B
  <2>8. f \in Injection(P, B \ A)
    BY <2>6, <2>7 DEF Injection, IsInjective
  <2>9. IsFiniteSet(B \ A) /\ Cardinality(B \ A) = Cardinality(B) - Cardinality(A)
    <3>1. B \cap A = A
      BY <2>3
    <3> QED BY <2>4, <3>1, FS_Difference
  <2>10. Cardinality(P) <= Cardinality(B \ A) /\ Cardinality(P) \in Nat
    <3>1. Cardinality(P) <= Cardinality(B \ A) /\ IsFiniteSet(P)
      BY <2>8, <2>9, FS_Injection
    <3> QED BY <3>1, FS_CardinalityType
  <2>11. WeightOf(g, x) \in Nat /\ WeightOf(g, x) <= Cardinality(A)
    <3>1. x \in DOMAIN g.weight => g.weight[x] <= Cardinality(A) /\ g.weight[x] \in Nat
      BY DEF EarnedBy, IsGraph, A
    <3> QED BY <2>4, <3>1 DEF WeightOf
  <2>12. h.weight[x] = WeightOf(g, x) + Cardinality(P)
    BY <1>9 DEF P
  <2>13. h.weight[x] <= Cardinality(B)
    BY <2>4, <2>9, <2>10, <2>11, <2>12
  <2> QED BY <2>13 DEF B
<1> QED BY <1>9, <1>10 DEF EarnedBy, h, u, t

(* What the graph remembers after an event, it has seen.                   *)
LEMMA RememberRecalls ==
  ASSUME NEW s \in Seq(Sighting), NEW seen \in Seq(Seen), NEW m, Recalls(seen, s, m),
         NEW e \in Event
  PROVE  /\ Remember(seen, e) \in Seq(Seen)
         /\ \E l : Recalls(Remember(seen, e), s \o Sights(e), l)
<1> DEFINE new == EntitiesOf(e)
           kept == Kept(seen, Stamp[e])
           t == Sights(e)
           v == Memories(e)
           N == Len(s)
           K == Len(kept)
           u == s \o t
           w == kept \o v
<1>1. new \in Seq(Entity) /\ Len(new) \in Nat /\ N \in Nat
  BY EntitiesAreEntities
<1>2. t \in Seq(Sighting) /\ Len(t) = Len(new)
      /\ \A i \in 1..Len(new) : t[i][1] = new[i] /\ t[i][2] = Stamp[e]
  BY SightsShape
<1>3. v \in Seq(Seen) /\ Len(v) = Len(new)
      /\ \A i \in 1..Len(new) : v[i][1] = new[i] /\ v[i][2] = Stamp[e]
  BY MemoriesShape
<1>4. kept \in Seq(Seen)
  BY KeptShape
<1>5. PICK from : /\ from \in [1..K -> 1..Len(seen)]
                  /\ \A i, j \in 1..K : from[i] = from[j] => i = j
                  /\ \A i \in 1..K : kept[i] = seen[from[i]]
  <2>1. \E from : /\ from \in [1..K -> 1..Len(seen)]
                  /\ \A i, j \in 1..K : from[i] = from[j] => i = j
                  /\ \A i \in 1..K : /\ kept[i] = seen[from[i]]
                                      /\ Stamp[e] - kept[i][2] <= CO_OCCURRENCE_WINDOW
    BY KeptShape
  <2> HIDE DEF kept
  <2> QED BY <2>1
<1>6. Remember(seen, e) = IF new = <<>> THEN seen ELSE w
  BY DEF Remember, Memories
<1> HIDE DEF new, kept, t, v
<1>7. CASE new = <<>>
  <2>1. t = <<>>
    BY <1>2, <1>7
  <2>2. u = s
    BY <2>1
  <2> QED BY <1>6, <1>7, <2>2 DEF t
<1>8. CASE new # <<>>
  <2>u. u = s \o t /\ w = kept \o v
    OBVIOUS
  <2> HIDE DEF u, w
  <2>1. /\ u \in Seq(Sighting) /\ Len(u) = N + Len(new)
        /\ \A i \in 1..N : u[i] = s[i]
        /\ \A i \in 1..Len(new) : u[N + i] = t[i]
    <3>1. /\ u \in Seq(Sighting) /\ Len(u) = Len(s) + Len(t)
          /\ \A i \in 1..Len(s) : u[i] = s[i]
          /\ \A i \in 1..Len(t) : u[Len(s) + i] = t[i]
      <4>1. t \in Seq(Sighting)
        BY <1>2
      <4> QED BY <2>u, <4>1, ConcatParts
    <3> QED BY <1>2, <3>1
  <2>2. /\ w \in Seq(Seen) /\ Len(w) = K + Len(new) /\ K \in Nat
        /\ \A i \in 1..K : w[i] = kept[i]
        /\ \A i \in 1..Len(new) : w[K + i] = v[i]
    <3>1. /\ w \in Seq(Seen) /\ Len(w) = Len(kept) + Len(v) /\ Len(kept) \in Nat
          /\ \A i \in 1..Len(kept) : w[i] = kept[i]
          /\ \A i \in 1..Len(v) : w[Len(kept) + i] = v[i]
      <4>1. v \in Seq(Seen)
        BY <1>3
      <4> QED BY <1>4, <2>u, <4>1, ConcatParts
    <3> QED BY <1>3, <3>1
  <2> DEFINE l == [i \in 1..(K + Len(new)) |-> IF i <= K THEN m[from[i]] ELSE N + (i - K)]
  <2>3. \A i \in 1..K : m[from[i]] \in 1..N
    BY <1>5 DEF Recalls
  <2>4. \A i \in 1..(K + Len(new)) : i <= K => i \in 1..K
    BY <2>2
  <2>5. \A i \in 1..(K + Len(new)) : ~(i <= K) => i - K \in 1..Len(new) /\ K + (i - K) = i
                                                  /\ N + (i - K) \in 1..(N + Len(new))
    BY <1>1, <2>2
  <2>6. l \in [1..(K + Len(new)) -> 1..(N + Len(new))]
    <3>1. \A i \in 1..K : m[from[i]] \in 1..(N + Len(new))
      BY <1>1, <2>3
    <3> QED BY <2>4, <2>5, <3>1
  <2>7. \A i \in 1..(K + Len(new)) : l[i] = IF i <= K THEN m[from[i]] ELSE N + (i - K)
    OBVIOUS
  <2> HIDE DEF l
  <2>8. ASSUME NEW i \in 1..(K + Len(new)), NEW j \in 1..(K + Len(new)), l[i] = l[j]
        PROVE  i = j
    <3>1. CASE i <= K /\ j <= K
      <4>1. i \in 1..K /\ j \in 1..K /\ m[from[i]] = m[from[j]]
        BY <2>4, <2>7, <2>8, <3>1
      <4>2. from[i] \in 1..Len(seen) /\ from[j] \in 1..Len(seen)
        BY <1>5, <4>1
      <4>3. from[i] = from[j]
        BY <4>1, <4>2 DEF Recalls
      <4> QED BY <1>5, <4>1, <4>3
    <3>2. CASE ~(i <= K) /\ ~(j <= K)
      <4>1. N + (i - K) = N + (j - K)
        BY <2>7, <2>8, <3>2
      <4> QED BY <1>1, <2>2, <4>1
    <3>3. CASE i <= K /\ ~(j <= K)
      <4>1. l[i] \in 1..N /\ l[j] = N + (j - K) /\ j - K \in 1..Len(new)
        BY <2>3, <2>4, <2>5, <2>7, <3>3
      <4> QED BY <1>1, <2>8, <4>1
    <3>4. CASE ~(i <= K) /\ j <= K
      <4>1. l[j] \in 1..N /\ l[i] = N + (i - K) /\ i - K \in 1..Len(new)
        BY <2>3, <2>4, <2>5, <2>7, <3>4
      <4> QED BY <1>1, <2>8, <4>1
    <3> QED BY <3>1, <3>2, <3>3, <3>4
  <2>9. ASSUME NEW i \in 1..(K + Len(new))
        PROVE  u[l[i]][1] = w[i][1] /\ u[l[i]][2] = w[i][2]
    <3>1. CASE i <= K
      <4>1. i \in 1..K /\ l[i] = m[from[i]] /\ l[i] \in 1..N /\ from[i] \in 1..Len(seen)
        BY <1>5, <2>3, <2>4, <2>7, <3>1
      <4>2. u[l[i]] = s[m[from[i]]] /\ w[i] = seen[from[i]]
        BY <1>5, <2>1, <2>2, <4>1
      <4> QED BY <4>1, <4>2 DEF Recalls
    <3>2. CASE ~(i <= K)
      <4>1. i - K \in 1..Len(new) /\ K + (i - K) = i /\ l[i] = N + (i - K)
        BY <2>5, <2>7, <3>2
      <4>2. u[l[i]] = t[i - K] /\ w[i] = v[i - K]
        BY <2>1, <2>2, <4>1
      <4> QED BY <1>2, <1>3, <4>1, <4>2
    <3> QED BY <3>1, <3>2
  <2>10. Recalls(w, u, l)
    BY <2>1, <2>2, <2>6, <2>8, <2>9 DEF Recalls
  <2>11. Remember(seen, e) = w
    BY <1>6, <1>8
  <2> QED BY <2>2, <2>10, <2>11 DEF u, t
<1> QED BY <1>7, <1>8

-----------------------------------------------------------------------------
(* The graph, its copy and its tables have earned their weight, from       *)
(* sightings that were each recorded once.                                 *)
SightInv ==
  /\ recent \in Seq(Seen) /\ sighted \in Seq(Sighting)
  /\ \E m : Recalls(recent, sighted, m)
  /\ DOMAIN step = Event
  /\ \A i \in 1..Len(sighted) : step[sighted[i][3]] = "done"
  /\ EarnedBy(sighted, graph) /\ EarnedBy(sighted, disk)
  /\ copied # NONE => EarnedBy(sighted, copied)

GraphInv == FlushInv /\ SightInv

LEMMA NothingEarned == \A s : EarnedBy(s, NoGraph)
BY DEF EarnedBy, NoGraph

LEMMA NothingRecalled ==
  ASSUME NEW s
  PROVE  <<>> \in Seq(Seen) /\ \E m : Recalls(<<>>, s, m)
<1> DEFINE m == [i \in 1..0 |-> 0]
<1>1. Recalls(<<>>, s, m)
  BY DEF Recalls
<1> QED BY <1>1

LEMMA GraphStarts == Init => GraphInv
<1> SUFFICES ASSUME Init PROVE GraphInv
  OBVIOUS
<1>1. /\ graph = NoGraph /\ disk = NoGraph /\ copied = NONE /\ up = TRUE /\ unreadable = 0
      /\ recent = <<>> /\ sighted = <<>> /\ DOMAIN step = Event
  BY DEF Init
<1>2. FlushInv
  <2>1. Below(NoGraph, NoGraph) /\ IsGraph(NoGraph)
    BY NoGraphIsGraph, BelowSelf
  <2> QED BY <1>1, <2>1 DEF FlushInv
<1>3. sighted \in Seq(Sighting) /\ \A i \in 1..Len(sighted) : FALSE
  BY <1>1
<1>4. SightInv
  BY <1>1, <1>3, NothingEarned, NothingRecalled DEF SightInv
<1> QED BY <1>2, <1>4 DEF GraphInv

(* Steps that touch neither the graph nor what becomes of it.              *)
LEMMA GraphElsewhere ==
  ASSUME GraphInv, UNCHANGED <<graph, recent, disk, copied, up, unreadable, sighted>>,
         DOMAIN step' = Event, \A e \in Event : step[e] = "done" => step'[e] = "done"
  PROVE  GraphInv'
<1>1. FlushInv'
  BY DEF GraphInv, FlushInv
<1>2. \A i \in 1..Len(sighted) : sighted[i] \in Sighting
  BY DEF GraphInv, SightInv
<1>3. \A i \in 1..Len(sighted) : step'[sighted[i][3]] = "done"
  BY <1>2 DEF GraphInv, SightInv, Sighting
<1>4. SightInv'
  BY <1>3 DEF GraphInv, SightInv
<1> QED BY <1>1, <1>4 DEF GraphInv

LEMMA ObserveKeeps ==
  ASSUME GraphInv, NEW e \in Event, ObserveEvent(e)
  PROVE  GraphInv'
<1> DEFINE h == Observe(graph, recent, e)
           u == sighted \o Sights(e)
<1>1. /\ graph' = h /\ recent' = Remember(recent, e) /\ sighted' = u
      /\ step' = [step EXCEPT ![e] = "done"] /\ step[e] = "recorded" /\ up
      /\ UNCHANGED <<disk, copied, up, unreadable>>
  BY DEF ObserveEvent, Sights
<1>2. PICK m : Recalls(recent, sighted, m)
  BY DEF GraphInv, SightInv
<1>3. /\ recent \in Seq(Seen) /\ sighted \in Seq(Sighting) /\ DOMAIN step = Event
      /\ \A i \in 1..Len(sighted) : step[sighted[i][3]] = "done"
      /\ IsGraph(graph) /\ EarnedBy(sighted, graph)
      /\ IsGraph(disk) /\ EarnedBy(sighted, disk)
      /\ copied # NONE => IsGraph(copied) /\ EarnedBy(sighted, copied)
  BY DEF GraphInv, SightInv, FlushInv
<1>4. \A i \in 1..Len(sighted) : sighted[i][3] # e
  BY <1>1, <1>3
<1>5. IsGraph(h) /\ Below(graph, h) /\ EarnedBy(u, h)
  BY <1>2, <1>3, <1>4, ObserveEarns
<1>6. Remember(recent, e) \in Seq(Seen) /\ \E l : Recalls(Remember(recent, e), u, l)
  BY <1>2, <1>3, RememberRecalls
<1>7. Sights(e) \in Seq(Sighting) /\ \A i \in 1..Len(Sights(e)) : Sights(e)[i][3] = e
  BY SightsShape
<1>8. EarnedBy(u, disk) /\ (copied # NONE => EarnedBy(u, copied))
  BY <1>3, <1>7, EarnedStays
<1>9. /\ u \in Seq(Sighting) /\ Len(u) = Len(sighted) + Len(Sights(e))
      /\ Len(sighted) \in Nat /\ Len(Sights(e)) \in Nat
      /\ \A i \in 1..Len(sighted) : u[i] = sighted[i]
      /\ \A i \in 1..Len(Sights(e)) : u[Len(sighted) + i] = Sights(e)[i]
  BY <1>3, <1>7, ConcatParts
<1> HIDE DEF h, u
<1>10. ASSUME NEW i \in 1..Len(u) PROVE step'[u[i][3]] = "done"
  <2>1. CASE i \in 1..Len(sighted)
    <3>1. u[i] = sighted[i] /\ sighted[i] \in Sighting
      BY <1>3, <1>9, <2>1
    <3>2. sighted[i][3] \in Event
      BY <3>1 DEF Sighting
    <3> QED BY <1>1, <1>3, <2>1, <3>1, <3>2
  <2>2. CASE i \notin 1..Len(sighted)
    <3>1. i - Len(sighted) \in 1..Len(Sights(e)) /\ Len(sighted) + (i - Len(sighted)) = i
      BY <1>9, <2>2
    <3> DEFINE j == i - Len(sighted)
    <3> HIDE DEF j
    <3>2. j \in 1..Len(Sights(e)) /\ Len(sighted) + j = i
      BY <3>1 DEF j
    <3>3. u[Len(sighted) + j] = Sights(e)[j]
      BY <1>9, <3>2
    <3>4. u[i] = Sights(e)[j]
      BY <3>2, <3>3
    <3>5. u[i][3] = e
      BY <1>7, <3>2, <3>4
    <3> QED BY <1>1, <1>3, <3>5
  <2> QED BY <2>1, <2>2
<1>11. SightInv'
  <2>1. DOMAIN step' = Event
    BY <1>1, <1>3
  <2> QED BY <1>1, <1>5, <1>6, <1>8, <1>9, <1>10, <2>1 DEF SightInv
<1>12. FlushInv'
  <2>1. Below(disk, graph) => Below(disk, h)
    BY <1>3, <1>5, BelowTransitive
  <2>2. copied # NONE /\ Below(copied, graph) => Below(copied, h)
    BY <1>3, <1>5, BelowTransitive
  <2> QED BY <1>1, <1>5, <2>1, <2>2 DEF GraphInv, FlushInv
<1> QED BY <1>11, <1>12 DEF GraphInv

LEMMA RestartKeeps ==
  ASSUME GraphInv, Restart
  PROVE  GraphInv'
<1>1. /\ ~up /\ up' = TRUE /\ UNCHANGED <<step, recent, disk, copied, sighted>>
      /\ \/ graph' = Load(disk) /\ unreadable' = unreadable
         \/ graph' = NoGraph /\ unreadable' = unreadable + 1
  BY DEF Restart
<1>2. IsGraph(disk) /\ copied = NONE /\ unreadable \in Nat /\ EarnedBy(sighted, disk)
  BY <1>1 DEF GraphInv, FlushInv, SightInv
<1>3. \/ graph' = disk /\ unreadable' = unreadable
      \/ graph' = NoGraph /\ unreadable' = unreadable + 1
  <2>1. Load(disk) = disk
    BY <1>2, LoadIsWhole
  <2> QED BY <1>1, <2>1
<1>4. FlushInv'
  <2>1. CASE graph' = disk /\ unreadable' = unreadable
    BY <1>1, <1>2, <2>1, BelowSelf DEF FlushInv
  <2>2. CASE graph' = NoGraph /\ unreadable' = unreadable + 1
    <3>1. unreadable' \in Nat /\ unreadable' # 0
      BY <1>2, <2>2
    <3> QED BY <1>1, <1>2, <2>2, <3>1, NoGraphIsGraph DEF FlushInv
  <2> QED BY <1>3, <2>1, <2>2
<1>5. SightInv'
  BY <1>1, <1>2, <1>3, NothingEarned DEF GraphInv, SightInv
<1> QED BY <1>4, <1>5 DEF GraphInv

LEMMA CrashKeeps ==
  ASSUME GraphInv, Crash
  PROVE  GraphInv'
<1>1. /\ up' = FALSE /\ graph' = NoGraph /\ recent' = <<>> /\ copied' = NONE
      /\ step' = [e \in Event |-> IF step[e] = "new" THEN "new" ELSE "done"]
      /\ UNCHANGED <<disk, unreadable, sighted>>
  BY DEF Crash
<1>2. FlushInv'
  BY <1>1, NoGraphIsGraph DEF GraphInv, FlushInv
<1>3. \A i \in 1..Len(sighted) : sighted[i] \in Sighting
  BY DEF GraphInv, SightInv
<1>4. \A i \in 1..Len(sighted) : step'[sighted[i][3]] = "done"
  BY <1>1, <1>3 DEF GraphInv, SightInv, Sighting
<1>5. SightInv'
  BY <1>1, <1>4, NothingEarned, NothingRecalled DEF GraphInv, SightInv
<1> QED BY <1>2, <1>5 DEF GraphInv

LEMMA FlushKeeps ==
  ASSUME GraphInv, CopyGraph \/ SaveGraph
  PROVE  GraphInv'
<1>1. CASE CopyGraph
  <2>1. up /\ copied' = graph /\ UNCHANGED <<step, graph, recent, disk, up, unreadable, sighted>>
    BY <1>1 DEF CopyGraph
  <2>2. IsGraph(graph) /\ Below(graph, graph)
    BY BelowSelf DEF GraphInv, FlushInv
  <2>3. FlushInv'
    BY <2>1, <2>2 DEF GraphInv, FlushInv
  <2>4. SightInv'
    BY <2>1 DEF GraphInv, SightInv
  <2> QED BY <2>3, <2>4 DEF GraphInv
<1>2. CASE SaveGraph
  <2>1. /\ up /\ copied # NONE /\ copied' = NONE /\ disk' \in {copied, disk}
        /\ UNCHANGED <<step, graph, recent, up, unreadable, sighted>>
    BY <1>2 DEF SaveGraph
  <2>2. FlushInv'
    BY <2>1 DEF GraphInv, FlushInv
  <2>3. SightInv'
    BY <2>1 DEF GraphInv, SightInv
  <2> QED BY <2>2, <2>3 DEF GraphInv
<1> QED BY <1>1, <1>2

LEMMA GraphSteps == GraphInv /\ [Next]_vars => GraphInv'
<1> SUFFICES ASSUME GraphInv, [Next]_vars PROVE GraphInv'
  OBVIOUS
<1>0. DOMAIN step = Event
  BY DEF GraphInv, SightInv
<1>1. ASSUME NEW e \in Event, Insert(e) PROVE GraphInv'
  <2>1. step[e] = "new" /\ step' = [step EXCEPT ![e] = "stored"]
        /\ UNCHANGED <<graph, recent, disk, copied, up, unreadable, sighted>>
    BY <1>1 DEF Insert
  <2> QED BY <1>0, <2>1, GraphElsewhere
<1>2. ASSUME NEW e \in Event, RecordEvent(e) PROVE GraphInv'
  <2>1. step[e] = "stored" /\ step' = [step EXCEPT ![e] = "recorded"]
        /\ UNCHANGED <<graph, recent, disk, copied, up, unreadable, sighted>>
    BY <1>2 DEF RecordEvent
  <2> QED BY <1>0, <2>1, GraphElsewhere
<1>3. ASSUME NEW e \in Event, ObserveEvent(e) PROVE GraphInv'
  BY <1>3, ObserveKeeps
<1>4. ASSUME NEW e \in Event, DropRow(e) PROVE GraphInv'
  BY <1>0, <1>4, GraphElsewhere DEF DropRow
<1>5. CASE ForgetDropped
  BY <1>0, <1>5, GraphElsewhere DEF ForgetDropped
<1>6. CASE CopyGraph \/ SaveGraph
  BY <1>6, FlushKeeps
<1>7. CASE Crash
  BY <1>7, CrashKeeps
<1>8. CASE Restart
  BY <1>8, RestartKeeps
<1>9. CASE UNCHANGED vars
  BY <1>0, <1>9, GraphElsewhere DEF vars
<1> QED BY <1>1, <1>2, <1>3, <1>4, <1>5, <1>6, <1>7, <1>8, <1>9 DEF Next

LEMMA GraphInductive == Spec => []GraphInv
BY GraphStarts, GraphSteps, PTL DEF Spec

(* However flushes, failed flushes, crashes and reloads follow each other, *)
(* an edge weighs no more than the times its ends were seen together: for  *)
(* any events, windows and number of crashes.                              *)
THEOREM WeightsAreEarned == Spec => []WeightIsEarned
<1>1. GraphInv => WeightIsEarned
  BY DEF GraphInv, SightInv, EarnedBy, WeightIsEarned, Together, TogetherIn
<1> QED BY <1>1, GraphInductive, PTL

(* While the tables can be read at start-up, no flush and no crash takes   *)
(* anything that was learnt off disk.                                      *)
THEOREM DiskOnlyGrows == Spec => DiskGrows
<1>1. ASSUME GraphInv, [Next]_vars PROVE [unreadable' = 0 => Below(disk, disk')]_vars
  <2> SUFFICES ASSUME unreadable' = 0 PROVE Below(disk, disk')
    OBVIOUS
  <2>1. IsGraph(disk) /\ Below(disk, disk)
    BY <1>1, BelowSelf DEF GraphInv, FlushInv
  <2>2. CASE SaveGraph
    <3>1. copied # NONE /\ disk' \in {copied, disk} /\ unreadable = 0
      BY <2>2 DEF SaveGraph
    <3> QED BY <1>1, <2>1, <3>1 DEF GraphInv, FlushInv
  <2>3. CASE ~SaveGraph
    <3>1. disk' = disk
      BY <1>1, <2>3 DEF Next, Insert, RecordEvent, ObserveEvent, DropRow, ForgetDropped,
                        CopyGraph, Crash, Restart, vars
    <3> QED BY <2>1, <3>1
  <2> QED BY <2>2, <2>3
<1> QED BY <1>1, GraphInductive, PTL DEF Spec, DiskGrows

-----------------------------------------------------------------------------
(* What is foremost.                                                       *)

(* A strict order of S that leaves no two elements apart.                  *)
Ranks(R, S) == IsOrder(R, S) /\ \A r, s \in S : r # s => <<r, s>> \in R \/ <<s, r>> \in R

LEMMA ForemostShape ==
  ASSUME NEW S, IsFiniteSet(S), NEW R, Ranks(R, S), NEW limit \in Nat
  PROVE  /\ Foremost(S, R, limit) \subseteq S
         /\ IsFiniteSet(Foremost(S, R, limit))
         /\ Cardinality(Foremost(S, R, limit)) \in Nat
         /\ Cardinality(Foremost(S, R, limit)) <= limit
         /\ \A r \in S \ Foremost(S, R, limit) :
              /\ Cardinality(Foremost(S, R, limit)) = limit
              /\ \A f \in Foremost(S, R, limit) : <<f, r>> \in R
<1> DEFINE F == Foremost(S, R, limit)
           rank(r) == Cardinality(Preceding(R, S, r))
<1>1. F = {r \in S : rank(r) < limit}
  BY DEF Foremost, Preceding
<1>2. \A r \in S : /\ IsFiniteSet(Preceding(R, S, r)) /\ rank(r) \in Nat
                   /\ \A p \in Preceding(R, S, r) : rank(p) \in Nat /\ rank(p) < rank(r)
  BY FewerPreceding DEF Ranks
<1> HIDE DEF rank, F
<1>3. F \subseteq S /\ IsFiniteSet(F) /\ Cardinality(F) \in Nat
  <2>1. F \in SUBSET S
    BY <1>1
  <2> QED BY <2>1, FS_Subset, FS_CardinalityType
<1>4. ASSUME NEW r \in S \ F, NEW f \in F PROVE <<f, r>> \in R
  <2>1. CASE <<r, f>> \in R
    <3>1. r \in Preceding(R, S, f) /\ f \in S
      BY <1>3, <2>1 DEF Preceding
    <3>2. rank(r) \in Nat /\ rank(f) \in Nat /\ rank(r) < rank(f) /\ rank(f) < limit
      BY <1>1, <1>2, <3>1
    <3>3. rank(r) < limit
      BY <3>2
    <3> QED BY <1>1, <3>3
  <2> QED BY <1>3, <2>1 DEF Ranks
(* The last of F has every other element of F before it.                   *)
<1>5. Cardinality(F) <= limit
  <2>1. CASE F = {}
    BY <2>1, FS_EmptySet
  <2>2. CASE F # {}
    <3> DEFINE room == {limit - rank(r) : r \in F}
    <3>1. room \subseteq Nat /\ room # {}
      BY <1>1, <1>2, <2>2
    <3>2. PICK n \in room : \A m \in room : n <= m
      <4> HIDE DEF room
      <4> QED BY <3>1, LeastNatural
    <3>3. PICK r \in F : n = limit - rank(r)
      BY <3>2
    <3>4. r \in S /\ rank(r) \in Nat /\ rank(r) < limit
      BY <1>1, <1>2
    <3>5. ASSUME NEW f \in F \ {r} PROVE f \in Preceding(R, S, r)
      <4>1. f \in S /\ rank(f) \in Nat
        BY <1>2, <1>3
      <4>2. limit - rank(r) <= limit - rank(f)
        BY <3>2, <3>3
      <4>3. ~(rank(r) < rank(f))
        BY <3>4, <4>1, <4>2
      <4>4. r \notin Preceding(R, S, f)
        BY <1>2, <4>1, <4>3
      <4>5. <<r, f>> \notin R
        BY <3>4, <4>4 DEF Preceding
      <4> QED BY <3>4, <4>1, <4>5 DEF Preceding, Ranks
    <3>6. Cardinality(F \ {r}) <= rank(r)
      <4>1. F \ {r} \in SUBSET Preceding(R, S, r)
        BY <3>5
      <4> QED BY <1>2, <3>4, <4>1, FS_Subset DEF rank
    <3>7. Cardinality(F \ {r}) = Cardinality(F) - 1
      BY <1>3, FS_RemoveElement
    <3> QED BY <1>3, <3>4, <3>6, <3>7
  <2> QED BY <2>1, <2>2
(* Whatever is left out first has just F before it.                        *)
<1>6. ASSUME NEW x \in S \ F PROVE Cardinality(F) = limit
  <2>1. S \ F \subseteq S /\ S \ F # {}
    OBVIOUS
  <2>2. PICK r \in S \ F : \A s \in S \ F : <<s, r>> \notin R
    <3>1. IsOrder(R, S)
      BY DEF Ranks
    <3> DEFINE T == S \ F
    <3> HIDE DEF T
    <3>2. T \subseteq S /\ T # {}
      BY <2>1 DEF T
    <3>3. \E r \in T : \A s \in T : <<s, r>> \notin R
      BY ONLY IsFiniteSet(S), <3>1, <3>2, FirstInOrder
    <3> QED BY <3>3 DEF T
  <2>3. Preceding(R, S, r) = F
    BY <1>3, <1>4, <2>2 DEF Preceding
  <2>4. rank(r) = Cardinality(F) /\ ~(rank(r) < limit)
    BY <1>1, <2>3 DEF rank
  <2> QED BY <1>3, <1>5, <2>4
<1> QED BY <1>3, <1>4, <1>5, <1>6 DEF F

(* Edges join two entities, and there are finitely many.                   *)
Joins(x, a, b) == a \in Entity /\ b \in Entity /\ a # b /\ x = {a, b}
Drawn(g) == /\ IsFiniteSet(DOMAIN g.weight)
            /\ \A x \in DOMAIN g.weight : \E a, b : Joins(x, a, b)

(* What is related, and what orders it.                                    *)
Relation == [entity : Entity, weight : Nat]

LEMMA KindsRank ==
  /\ \A k \in EntityKind : KindRank(k) \in Nat
  /\ \A k, l \in EntityKind : KindRank(k) = KindRank(l) => k = l
<1>1. /\ KindRank("command") = 1 /\ KindRank("error") = 2 /\ KindRank("file") = 3
      /\ KindRank("intent") = 4 /\ KindRank("repo") = 5
  BY DEF KindRank
<1> QED BY <1>1 DEF EntityKind

LEMMA EntityOrder ==
  ASSUME NEW a \in Entity, NEW b \in Entity, a # b
  PROVE  /\ a.name \in Nat /\ b.name \in Nat
         /\ KindRank(a.kind) \in Nat /\ KindRank(b.kind) \in Nat
         /\ a.name # b.name \/ KindRank(a.kind) # KindRank(b.kind)
         /\ a.kind = b.kind <=> KindRank(a.kind) = KindRank(b.kind)
<1>1. a.kind \in EntityKind /\ b.kind \in EntityKind /\ a.name \in Nat /\ b.name \in Nat
  BY DEF Entity
<1>2. a.kind # b.kind \/ a.name # b.name
  BY DEF Entity
<1> QED BY <1>1, <1>2, KindsRank

(* Relations that each name another entity.                                *)
Apart(S) == S \subseteq Relation /\ \A r, s \in S : r.entity = s.entity => r = s

LEMMA ByNameRanks ==
  ASSUME NEW S, Apart(S)
  PROVE  Ranks(InOrderOf(S, ByName), S)
<1> DEFINE R == InOrderOf(S, ByName)
<1>1. \A r, s \in S : <<r, s>> \in R <=> ByName(r, s)
  BY DEF InOrderOf
<1>2. \A r \in S : /\ r.weight \in Nat /\ r.entity.name \in Nat
                   /\ KindRank(r.entity.kind) \in Nat
  BY KindsRank DEF Apart, Relation, Entity
<1>3. \A r, s \in S : r # s => \/ r.entity.name # s.entity.name
                               \/ KindRank(r.entity.kind) # KindRank(s.entity.kind)
  <2>1. SUFFICES ASSUME NEW r \in S, NEW s \in S, r # s
                 PROVE  \/ r.entity.name # s.entity.name
                        \/ KindRank(r.entity.kind) # KindRank(s.entity.kind)
    OBVIOUS
  <2>2. r.entity \in Entity /\ s.entity \in Entity /\ r.entity # s.entity
    BY <2>1 DEF Apart, Relation
  <2> QED BY <2>2, EntityOrder
<1> HIDE DEF R
<1>4. \A r \in S : <<r, r>> \notin R
  BY <1>1, <1>2 DEF ByName
<1>5. \A r, s, t \in S : <<r, s>> \in R /\ <<s, t>> \in R => <<r, t>> \in R
  <2>1. SUFFICES ASSUME NEW r \in S, NEW s \in S, NEW t \in S, ByName(r, s), ByName(s, t)
                 PROVE  ByName(r, t)
    BY <1>1
  <2> QED BY <1>2, <2>1 DEF ByName
<1>6. \A r, s \in S : r # s => <<r, s>> \in R \/ <<s, r>> \in R
  <2>1. SUFFICES ASSUME NEW r \in S, NEW s \in S, r # s PROVE ByName(r, s) \/ ByName(s, r)
    BY <1>1
  <2> QED BY <1>2, <1>3, <2>1 DEF ByName
<1> QED BY <1>4, <1>5, <1>6 DEF Ranks, IsOrder, R

LEMMA ByKeyRanks ==
  ASSUME NEW S, Apart(S)
  PROVE  Ranks(InOrderOf(S, ByKey), S)
<1> DEFINE R == InOrderOf(S, ByKey)
<1>1. \A r, s \in S : <<r, s>> \in R <=> ByKey(r, s)
  BY DEF InOrderOf
<1>2. \A r \in S : /\ r.weight \in Nat /\ r.entity.name \in Nat
                   /\ KindRank(r.entity.kind) \in Nat /\ r.entity.kind \in EntityKind
  BY KindsRank DEF Apart, Relation, Entity
<1>3. \A r, s \in S : r.entity.kind = s.entity.kind
                        <=> KindRank(r.entity.kind) = KindRank(s.entity.kind)
  BY <1>2, KindsRank
<1>4. \A r, s \in S : r # s => \/ r.entity.name # s.entity.name
                               \/ KindRank(r.entity.kind) # KindRank(s.entity.kind)
  <2>1. SUFFICES ASSUME NEW r \in S, NEW s \in S, r # s
                 PROVE  \/ r.entity.name # s.entity.name
                        \/ KindRank(r.entity.kind) # KindRank(s.entity.kind)
    OBVIOUS
  <2>2. r.entity \in Entity /\ s.entity \in Entity /\ r.entity # s.entity
    BY <2>1 DEF Apart, Relation
  <2> QED BY <2>2, EntityOrder
<1> HIDE DEF R
<1>5. \A r \in S : <<r, r>> \notin R
  BY <1>1, <1>2 DEF ByKey
<1>6. \A r, s, t \in S : <<r, s>> \in R /\ <<s, t>> \in R => <<r, t>> \in R
  <2>1. SUFFICES ASSUME NEW r \in S, NEW s \in S, NEW t \in S, ByKey(r, s), ByKey(s, t)
                 PROVE  ByKey(r, t)
    BY <1>1
  <2> QED BY <1>2, <1>3, <2>1 DEF ByKey
<1>7. \A r, s \in S : r # s => <<r, s>> \in R \/ <<s, r>> \in R
  <2>1. SUFFICES ASSUME NEW r \in S, NEW s \in S, r # s PROVE ByKey(r, s) \/ ByKey(s, r)
    BY <1>1
  <2> QED BY <1>2, <1>3, <1>4, <2>1 DEF ByKey
<1> QED BY <1>5, <1>6, <1>7 DEF Ranks, IsOrder, R

(* An entity's relations name each neighbour once.                         *)
LEMMA RelatedShape ==
  ASSUME NEW g, IsGraph(g), Drawn(g), NEW a \in Entity
  PROVE  /\ Apart(RelatedTo(g, a)) /\ IsFiniteSet(RelatedTo(g, a))
         /\ \A b \in Entity : a # b /\ {a, b} \in DOMAIN g.weight
              => [entity |-> b, weight |-> g.weight[{a, b}]] \in RelatedTo(g, a)
         /\ \A r \in RelatedTo(g, a) : /\ a # r.entity /\ {a, r.entity} \in DOMAIN g.weight
                                       /\ r.weight = g.weight[{a, r.entity}]
<1> DEFINE edges == {x \in DOMAIN g.weight : a \in x}
           other(x) == CHOOSE b \in x : b # a
           rel(x) == [entity |-> other(x), weight |-> g.weight[x]]
<1>1. RelatedTo(g, a) = {rel(x) : x \in edges}
  BY DEF RelatedTo
<1>2. ASSUME NEW x \in edges
      PROVE  other(x) \in Entity /\ other(x) # a /\ x = {a, other(x)} /\ g.weight[x] \in Nat
  <2>1. PICK b, c : Joins(x, b, c)
    BY DEF Drawn
  <2>2. \E d \in x : d # a
    BY <2>1 DEF Joins
  <2>3. other(x) \in x /\ other(x) # a
    BY <2>2
  <2>4. g.weight[x] \in Nat
    BY DEF IsGraph
  <2> HIDE DEF other
  <2> QED BY <2>1, <2>3, <2>4 DEF Joins
<1>3. IsFiniteSet(RelatedTo(g, a))
  <2>1. edges \in SUBSET DOMAIN g.weight
    OBVIOUS
  <2>2. IsFiniteSet(edges)
    BY <2>1, FS_Subset DEF Drawn
  <2> DEFINE f == [x \in edges |-> rel(x)]
  <2>3. DOMAIN f = edges /\ \A x \in edges : f[x] = rel(x)
    OBVIOUS
  <2> HIDE DEF edges, rel, f
  <2>4. IsFiniteSet({f[x] : x \in edges})
    BY <2>2, <2>3, ImagesAreFinite
  <2>5. {f[x] : x \in edges} = {rel(x) : x \in edges}
    BY <2>3
  <2> QED BY <1>1, <2>4, <2>5
<1>8. \A r \in RelatedTo(g, a) : \E x \in edges : r = [entity |-> other(x), weight |-> g.weight[x]]
  BY <1>1
<1> HIDE DEF other, edges
<1>4. \A r \in RelatedTo(g, a) : /\ r \in Relation
                               /\ a # r.entity /\ {a, r.entity} \in DOMAIN g.weight
                               /\ r.weight = g.weight[{a, r.entity}]
  <2>1. SUFFICES ASSUME NEW x \in edges, NEW r, r = [entity |-> other(x), weight |-> g.weight[x]]
                 PROVE  /\ r \in Relation
                        /\ a # r.entity /\ {a, r.entity} \in DOMAIN g.weight
                        /\ r.weight = g.weight[{a, r.entity}]
    BY <1>8
  <2>2. x \in DOMAIN g.weight
    BY DEF edges
  <2> QED BY <1>2, <2>1, <2>2 DEF Relation
<1>5. \A r, s \in RelatedTo(g, a) : r.entity = s.entity => r = s
  <2>1. SUFFICES ASSUME NEW r \in RelatedTo(g, a), NEW s \in RelatedTo(g, a),
                        r.entity = s.entity
                 PROVE  r = s
    OBVIOUS
  <2>2. /\ r \in Relation /\ r.weight = g.weight[{a, r.entity}]
        /\ s \in Relation /\ s.weight = g.weight[{a, s.entity}]
    BY <1>4
  <2>3. r.weight = s.weight
    BY <2>1, <2>2
  <2> QED BY ONLY <2>1, <2>2, <2>3 DEF Relation
<1>6. ASSUME NEW b \in Entity, a # b, {a, b} \in DOMAIN g.weight
      PROVE  [entity |-> b, weight |-> g.weight[{a, b}]] \in RelatedTo(g, a)
  <2>1. {a, b} \in edges
    BY <1>6 DEF edges
  <2>2. other({a, b}) = b
    BY <1>2, <2>1
  <2> QED BY <1>1, <2>1, <2>2
<1> QED BY <1>3, <1>4, <1>5, <1>6 DEF Apart

(* The strongest of what is listed, per entity.                            *)
Best(L) == {r \in L : \A s \in L : s.entity = r.entity => s.weight <= r.weight}

LEMMA BestShape ==
  ASSUME NEW L, IsFiniteSet(L), L \subseteq Relation
  PROVE  /\ Apart(Best(L)) /\ IsFiniteSet(Best(L))
         /\ \A r \in L : \E b \in Best(L) : b.entity = r.entity /\ r.weight <= b.weight
<1>1. \A r \in L : r.entity \in Entity /\ r.weight \in Nat /\ r = [entity |-> r.entity, weight |-> r.weight]
  BY DEF Relation
<1>2. Best(L) \in SUBSET L
  BY DEF Best
<1>3. IsFiniteSet(Best(L))
  BY <1>2, FS_Subset
<1>4. Apart(Best(L))
  <2>1. ASSUME NEW r \in Best(L), NEW s \in Best(L), r.entity = s.entity PROVE r = s
    <3>1. r \in L /\ s \in L /\ r.weight <= s.weight /\ s.weight <= r.weight
      BY <2>1 DEF Best
    <3>2. r.weight = s.weight
      BY <1>1, <3>1
    <3> QED BY <1>1, <2>1, <3>1, <3>2
  <2> QED BY <1>2, <2>1 DEF Apart
<1>5. ASSUME NEW r \in L PROVE \E b \in Best(L) : b.entity = r.entity /\ r.weight <= b.weight
  <2> DEFINE R == {p \in L \X L : p[1].weight > p[2].weight}
             T == {s \in L : s.entity = r.entity}
  <2>1. \A s, t \in L : <<s, t>> \in R <=> s.weight > t.weight
    OBVIOUS
  <2>2. T \subseteq L /\ r \in T
    OBVIOUS
  <2> HIDE DEF R, T
  <2>3. IsOrder(R, L)
    <3>1. \A s \in L : <<s, s>> \notin R
      BY <1>1, <2>1
    <3>2. \A s, t, u \in L : <<s, t>> \in R /\ <<t, u>> \in R => <<s, u>> \in R
      <4>1. SUFFICES ASSUME NEW s \in L, NEW t \in L, NEW u \in L,
                            s.weight > t.weight, t.weight > u.weight
                     PROVE  s.weight > u.weight
        BY <2>1
      <4> QED BY <1>1, <4>1
    <3> QED BY <3>1, <3>2 DEF IsOrder
  <2>4. PICK b \in T : \A s \in T : <<s, b>> \notin R
    <3>1. T # {}
      BY <2>2
    <3> QED BY <2>2, <2>3, <3>1, FirstInOrder
  <2>5. b \in L /\ b.entity = r.entity /\ \A s \in L : s.entity = r.entity => ~(s.weight > b.weight)
    <3>1. b \in L /\ b.entity = r.entity
      BY <2>4 DEF T
    <3>2. \A s \in L : s.entity = r.entity => s \in T
      BY DEF T
    <3> QED BY <2>1, <2>4, <3>1, <3>2
  <2>6. \A s \in L : s.entity = r.entity => s.weight <= b.weight
    BY <1>1, <2>5
  <2>7. b \in Best(L)
    BY <2>5, <2>6 DEF Best
  <2> QED BY <2>5, <2>6, <2>7
<1> QED BY <1>3, <1>4, <1>5

(* What an event is related to, from the lists of what it is about: each   *)
(* weight w that relates it to an entity has a set B of the best relations *)
(* to answer for it, none of them weaker, which is the entity's own or is  *)
(* as large as the limit.                                                  *)
Listed(g, e, limit) == UNION {Neighbours(g, a, limit) : a \in ToSet(EntitiesOf(e))}
WeightsFrom(g, e, entity) ==
  {g.weight[x] : x \in {x \in DOMAIN g.weight :
                           \E a \in ToSet(EntitiesOf(e)) : a # entity /\ x = {a, entity}}}

LEMMA ListedShape ==
  ASSUME NEW g, IsGraph(g), Drawn(g), NEW e \in Event, NEW limit \in Nat
  PROVE  IsFiniteSet(Listed(g, e, limit)) /\ Listed(g, e, limit) \subseteq Relation
<1> DEFINE ents == ToSet(EntitiesOf(e))
           lists == {Neighbours(g, a, limit) : a \in ents}
<1>1. ents \subseteq Entity /\ IsFiniteSet(ents)
  <2>1. EntitiesOf(e) \in Seq(Entity)
    BY EntitiesAreEntities
  <2>2. DOMAIN EntitiesOf(e) = 1..Len(EntitiesOf(e)) /\ Len(EntitiesOf(e)) \in Nat
        /\ \A i \in DOMAIN EntitiesOf(e) : EntitiesOf(e)[i] \in Entity
    BY <2>1
  <2>3. IsFiniteSet(DOMAIN EntitiesOf(e))
    BY <2>2, FS_Interval
  <2>4. IsFiniteSet({EntitiesOf(e)[i] : i \in DOMAIN EntitiesOf(e)})
    BY <2>3, ImagesAreFinite
  <2> QED BY <2>2, <2>4 DEF ToSet
<1>2. ASSUME NEW a \in ents
      PROVE  IsFiniteSet(Neighbours(g, a, limit)) /\ Neighbours(g, a, limit) \subseteq Relation
  <2>1. Apart(RelatedTo(g, a)) /\ IsFiniteSet(RelatedTo(g, a))
    BY <1>1, RelatedShape
  <2>2. Neighbours(g, a, limit) \in SUBSET RelatedTo(g, a)
    BY DEF Neighbours, Foremost
  <2> QED BY <2>1, <2>2, FS_Subset DEF Apart
<1>3. IsFiniteSet(lists)
  <2> DEFINE f == [a \in ents |-> Neighbours(g, a, limit)]
  <2>1. DOMAIN f = ents /\ {f[a] : a \in ents} = lists
    OBVIOUS
  <2> HIDE DEF ents, f
  <2>2. IsFiniteSet({f[a] : a \in ents})
    BY <1>1, <2>1, ImagesAreFinite
  <2> QED BY <2>1, <2>2
<1>4. IsFiniteSet(UNION lists)
  <2>1. \A T \in lists : IsFiniteSet(T)
    BY <1>2
  <2> HIDE DEF lists
  <2> QED BY <1>3, <2>1, FS_UNION
<1> QED BY <1>2, <1>4 DEF Listed

LEMMA Answered ==
  ASSUME NEW g, IsGraph(g), Drawn(g), NEW e \in Event, NEW limit \in Nat,
         NEW entity, NEW w \in WeightsFrom(g, e, entity)
  PROVE  /\ w \in Nat
         /\ \E B \in SUBSET Best(Listed(g, e, limit)) :
              /\ \A b \in B : w <= b.weight
              /\ (\E b \in B : b.entity = entity) \/ Cardinality(B) = limit
<1> DEFINE L == Listed(g, e, limit)
<1>1. IsFiniteSet(L) /\ L \subseteq Relation
  BY ListedShape
<1>2. /\ IsFiniteSet(Best(L)) /\ Apart(Best(L))
      /\ \A r \in L : \E b \in Best(L) : b.entity = r.entity /\ r.weight <= b.weight
  BY <1>1, BestShape
<1>3. PICK a \in ToSet(EntitiesOf(e)) : /\ a # entity /\ {a, entity} \in DOMAIN g.weight
                                       /\ w = g.weight[{a, entity}]
  BY DEF WeightsFrom
<1>4. a \in Entity
  <2>1. EntitiesOf(e) \in Seq(Entity)
    BY EntitiesAreEntities
  <2> QED BY <2>1 DEF ToSet
<1>5. entity \in Entity /\ w \in Nat
  <2>1. PICK b, c : Joins({a, entity}, b, c)
    BY <1>3 DEF Drawn
  <2>2. entity \in {b, c}
    BY <2>1 DEF Joins
  <2> QED BY <1>3, <2>1, <2>2 DEF Joins, IsGraph
<1> DEFINE S == RelatedTo(g, a)
           N == Neighbours(g, a, limit)
           q == [entity |-> entity, weight |-> w]
           R == InOrderOf(S, ByName)
<1>6. Apart(S) /\ IsFiniteSet(S) /\ q \in S
  BY <1>3, <1>4, <1>5, RelatedShape
<1>7. N = Foremost(S, R, limit) /\ N \subseteq L
  BY <1>3 DEF Neighbours, Listed
<1>8. Ranks(R, S)
  BY <1>6, ByNameRanks
<1>9. /\ N \subseteq S /\ IsFiniteSet(N)
      /\ q \notin N => Cardinality(N) = limit /\ \A f \in N : <<f, q>> \in R
  BY <1>6, <1>7, <1>8, ForemostShape
<1>10. q.entity = entity /\ q.weight = w
  OBVIOUS
<1>11. CASE q \in N
  <2>1. PICK b \in Best(L) : b.entity = entity /\ w <= b.weight
    BY <1>2, <1>7, <1>10, <1>11
  <2>2. {b} \in SUBSET Best(L)
    OBVIOUS
  <2> QED BY <1>5, <2>1, <2>2
<1>12. CASE q \notin N
  <2> DEFINE best(n) == CHOOSE b \in Best(L) : b.entity = n.entity /\ n.weight <= b.weight
             B == {best(n) : n \in N}
  <2>1. \A n \in N : best(n) \in Best(L) /\ best(n).entity = n.entity /\ n.weight <= best(n).weight
    BY <1>2, <1>7
  <2>2. \A n \in N : n.weight \in Nat /\ w <= n.weight
    <3>1. SUFFICES ASSUME NEW n \in N PROVE n.weight \in Nat /\ w <= n.weight
      OBVIOUS
    <3>2. ByName(n, q)
      BY <1>9, <1>12 DEF InOrderOf
    <3>3. n.weight \in Nat
      BY <1>6, <1>9 DEF Apart, Relation
    <3> HIDE DEF N
    <3> QED BY <1>5, <3>2, <3>3 DEF ByName
  <2>3. \A b \in Best(L) : b.weight \in Nat
    BY <1>2 DEF Apart, Relation
  <2> HIDE DEF best, N, L
  <2>4. \A b \in B : w <= b.weight
    <3>1. SUFFICES ASSUME NEW n \in N PROVE w <= best(n).weight
      OBVIOUS
    <3> QED BY <1>5, <2>1, <2>2, <2>3
  <2>5. Cardinality(B) = limit
    <3> DEFINE f == [n \in N |-> best(n)]
    <3>1. f \in [N -> B] /\ \A b \in B : \E n \in N : f[n] = b
      OBVIOUS
    <3>2. \A m, n \in N : f[m] = f[n] => m = n
      <4>1. SUFFICES ASSUME NEW m \in N, NEW n \in N, best(m) = best(n) PROVE m = n
        OBVIOUS
      <4>2. m.entity = n.entity /\ m \in S /\ n \in S
        BY <1>9, <2>1, <4>1
      <4> QED BY <1>6, <4>2 DEF Apart
    <3> HIDE DEF f, B
    <3>3. f \in Bijection(N, B)
      BY <3>1, <3>2 DEF Bijection, Injection, Surjection, IsInjective
    <3>4. Cardinality(B) = Cardinality(N)
      BY <1>9, <3>3, FS_Bijection DEF ExistsBijection
    <3> QED BY <1>9, <1>12, <3>4
  <2>6. B \in SUBSET Best(L)
    BY <2>1
  <2> HIDE DEF B
  <2> QED BY <1>5, <2>4, <2>5, <2>6 DEF L
<1> QED BY <1>11, <1>12

LEMMA StrongestAreFound ==
  ASSUME NEW g, IsGraph(g), Drawn(g), NEW e \in Event, NEW limit \in Nat, NEW found,
         found = RelatedToEvent(g, e, limit),
         NEW entity, NEW w \in WeightsFrom(g, e, entity)
  PROVE  /\ \A r \in found : r.entity = entity => w <= r.weight
         /\ entity \notin {r.entity : r \in found} =>
              Cardinality(found) = limit /\ \A r \in found : w <= r.weight
<1>0. \E B \in SUBSET Best(Listed(g, e, limit)) :
        /\ \A b \in B : w <= b.weight
        /\ (\E b \in B : b.entity = entity) \/ Cardinality(B) = limit
  BY ONLY IsGraph(g), Drawn(g), e \in Event, limit \in Nat, w \in WeightsFrom(g, e, entity),
          Answered
<1> DEFINE L == Listed(g, e, limit)
           S == Best(L)
           R == InOrderOf(S, ByKey)
<1>1. IsFiniteSet(S) /\ Apart(S)
  BY ListedShape, BestShape
<1>2. found = Foremost(S, R, limit)
  BY DEF RelatedToEvent, CollapseRelated, Best, Listed
<1>3. Ranks(R, S)
  BY <1>1, ByKeyRanks
<1>4. PICK B \in SUBSET S : /\ \A b \in B : w <= b.weight
                            /\ (\E b \in B : b.entity = entity) \/ Cardinality(B) = limit
  BY <1>0
<1>5. w \in Nat
  BY Answered
<1>6. \A r, s \in S : /\ r.weight \in Nat
                      /\ <<r, s>> \in R => r.weight >= s.weight
  <2>1. \A r \in S : r.weight \in Nat
    BY <1>1 DEF Apart, Relation
  <2>2. \A r, s \in S : <<r, s>> \in R => ByKey(r, s)
    BY DEF InOrderOf
  <2> HIDE DEF S, R
  <2>3. SUFFICES ASSUME NEW r \in S, NEW s \in S, ByKey(r, s) PROVE r.weight >= s.weight
    BY <2>1, <2>2
  <2> QED BY <2>1, <2>3 DEF ByKey
<1> HIDE DEF S, R, L
<1>7. /\ found \subseteq S /\ IsFiniteSet(found) /\ Cardinality(found) \in Nat
      /\ Cardinality(found) <= limit
      /\ \A r \in S \ found : Cardinality(found) = limit /\ \A f \in found : <<f, r>> \in R
  BY <1>1, <1>2, <1>3, ForemostShape
(* Whatever of B is left out, w is outdone by all that is found.           *)
<1>8. ASSUME NEW b \in B \ found
      PROVE  Cardinality(found) = limit /\ \A r \in found : w <= r.weight
  <2>1. b \in S /\ w <= b.weight /\ b.weight \in Nat
    BY <1>4, <1>6
  <2>2. Cardinality(found) = limit /\ \A r \in found : <<r, b>> \in R
    BY <1>7, <2>1
  <2>3. ASSUME NEW r \in found PROVE w <= r.weight
    <3>1. r.weight \in Nat /\ r.weight >= b.weight
      BY <1>6, <1>7, <2>1, <2>2
    <3> QED BY <1>5, <2>1, <3>1
  <2> QED BY <2>2, <2>3
<1>9. CASE B \subseteq found /\ Cardinality(B) = limit
  <2>1. Cardinality(B) <= Cardinality(found)
    BY <1>7, <1>9, FS_Subset
  <2>2. Cardinality(found) = Cardinality(B)
    BY <1>7, <1>9, <2>1
  <2>3. found = B
    BY <1>7, <1>9, <2>2, FS_Subset
  <2> QED BY <1>4, <1>9, <2>3
<1>10. CASE B \subseteq found /\ \E b \in B : b.entity = entity
  <2>1. PICK b \in B : b.entity = entity
    BY <1>10
  <2>2. \A r \in found : r.entity = entity => r = b
    BY <1>1, <1>7, <1>10, <2>1 DEF Apart
  <2>3. w <= b.weight /\ b \in found
    BY <1>4, <1>10
  <2> QED BY <2>1, <2>2, <2>3
<1> QED BY <1>4, <1>8, <1>9, <1>10

-----------------------------------------------------------------------------
(* The graph, its copy and its tables are drawn.                           *)
DrawnInv ==
  /\ GraphInv
  /\ Drawn(graph) /\ Drawn(disk) /\ (copied # NONE => Drawn(copied))

LEMMA NoGraphIsDrawn == Drawn(NoGraph)
BY FS_EmptySet DEF Drawn, NoGraph

LEMMA LinkDraws ==
  ASSUME NEW g, Drawn(g), NEW new \in Seq(Entity), NEW near \in Seq(Seen)
  PROVE  Drawn(Link(g, new, near))
<1> DEFINE met == Met(new, near)
           edge == [p \in met |-> EdgeAt(new, near, p)]
           edges == {edge[p] : p \in met}
           h == Link(g, new, near)
<1>1. DOMAIN h.weight = DOMAIN g.weight \cup edges
  BY DEF Link, Met, EdgeAt
<1>2. IsFiniteSet(edges)
  <2>1. IsFiniteSet(met)
    BY MetIsFinite
  <2> HIDE DEF met
  <2>2. DOMAIN edge = met
    OBVIOUS
  <2> HIDE DEF edge
  <2> QED BY <2>1, <2>2, ImagesAreFinite
<1>3. IsFiniteSet(DOMAIN h.weight)
  <2>1. IsFiniteSet(DOMAIN g.weight)
    BY DEF Drawn
  <2> HIDE DEF edges, h
  <2> QED BY ONLY <1>1, <1>2, <2>1, FS_Union
<1>4. ASSUME NEW p \in met PROVE Joins(edge[p], new[p[1]], near[p[2]][1])
  <2>1. p[1] \in DOMAIN new /\ p[2] \in DOMAIN near /\ new[p[1]] # near[p[2]][1]
    BY DEF Met
  <2>2. new[p[1]] \in Entity /\ near[p[2]] \in Seen
    BY <2>1
  <2>3. near[p[2]][1] \in Entity
    BY <2>2 DEF Seen
  <2>4. edge[p] = Edge(new[p[1]], near[p[2]][1])
    BY DEF EdgeAt
  <2> QED BY <2>1, <2>2, <2>3, <2>4 DEF Joins, Edge
<1>5. \A x \in edges : \E a, b : Joins(x, a, b)
  BY <1>4
<1> HIDE DEF edges, h
<1>6. \A x \in DOMAIN h.weight : \E a, b : Joins(x, a, b)
  BY <1>1, <1>5 DEF Drawn
<1> QED BY <1>3, <1>6 DEF Drawn, h

LEMMA DrawnSteps == DrawnInv /\ [Next]_vars => DrawnInv'
<1> SUFFICES ASSUME DrawnInv, [Next]_vars PROVE DrawnInv'
  OBVIOUS
<1>1. GraphInv'
  BY GraphSteps DEF DrawnInv
<1>2. ASSUME NEW e \in Event, ObserveEvent(e) PROVE DrawnInv'
  <2> DEFINE near == LastOf(Kept(recent, Stamp[e]), RECENT_ENTITY_WINDOW)
  <2>1. graph' = Link(graph, EntitiesOf(e), near) /\ UNCHANGED <<disk, copied>>
    BY <1>2 DEF ObserveEvent, Observe
  <2>2. recent \in Seq(Seen) /\ Drawn(graph)
    BY DEF DrawnInv, GraphInv, SightInv
  <2>3. near \in Seq(Seen) /\ EntitiesOf(e) \in Seq(Entity)
    BY <2>2, NearShape, EntitiesAreEntities
  <2> HIDE DEF near
  <2>4. Drawn(graph')
    BY <2>1, <2>2, <2>3, LinkDraws
  <2> QED BY <1>1, <2>1, <2>4 DEF DrawnInv
<1>3. CASE CopyGraph
  BY <1>1, <1>3 DEF DrawnInv, CopyGraph
<1>4. CASE SaveGraph
  BY <1>1, <1>4 DEF DrawnInv, SaveGraph
<1>5. CASE Crash
  BY <1>1, <1>5, NoGraphIsDrawn DEF DrawnInv, Crash
<1>6. CASE Restart
  <2>1. Load(disk) = disk
    BY LoadIsWhole DEF DrawnInv, GraphInv, FlushInv
  <2> QED BY <1>1, <1>6, <2>1, NoGraphIsDrawn DEF DrawnInv, Restart
<1>7. ASSUME UNCHANGED <<graph, disk, copied>> PROVE DrawnInv'
  BY <1>1, <1>7 DEF DrawnInv
<1> QED BY <1>2, <1>3, <1>4, <1>5, <1>6, <1>7
        DEF Next, Insert, RecordEvent, DropRow, ForgetDropped, vars

(* What surrounds an event is told from its strongest relations: however   *)
(* many entities the graph has, cutting each list, merging and cutting     *)
(* again loses no stronger one, and a list is short only when nothing is   *)
(* left out.                                                               *)
THEOREM RelatedAreStrongest == Spec => []RelatedIsStrongest
<1>1. Init => DrawnInv
  <2>1. Init => graph = NoGraph /\ disk = NoGraph /\ copied = NONE
    BY DEF Init
  <2> QED BY <2>1, GraphStarts, NoGraphIsDrawn DEF DrawnInv
<1>2. DrawnInv => RelatedIsStrongest
  <2> SUFFICES ASSUME DrawnInv, NEW e \in Event, NEW limit \in Limits, NEW found,
                      found = RelatedToEvent(graph, e, limit)
               PROVE  /\ \A r \in found : \A w \in Surrounds(e, r.entity) : w <= r.weight
                      /\ \A entity \in graph.nodes \ {r.entity : r \in found} :
                           \A w \in Surrounds(e, entity) :
                             Cardinality(found) = limit /\ \A r \in found : w <= r.weight
    BY DEF RelatedIsStrongest
  <2>1. IsGraph(graph) /\ Drawn(graph) /\ limit \in Nat
    BY DEF DrawnInv, GraphInv, FlushInv, Limits
  <2>2. \A entity : Surrounds(e, entity) = WeightsFrom(graph, e, entity)
    BY DEF Surrounds, WeightsFrom
  <2>3. ASSUME NEW entity, NEW w \in Surrounds(e, entity)
        PROVE  /\ \A r \in found : r.entity = entity => w <= r.weight
               /\ entity \notin {r.entity : r \in found} =>
                    Cardinality(found) = limit /\ \A r \in found : w <= r.weight
    <3>1. w \in WeightsFrom(graph, e, entity)
      BY <2>2
    <3> QED BY <2>1, <3>1, StrongestAreFound
  <2> QED BY <2>3
<1> QED BY <1>1, <1>2, DrawnSteps, PTL DEF Spec

===============================================================================
