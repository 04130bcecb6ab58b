---------------------------- MODULE Claims_proofs ----------------------------
(***************************************************************************)
(* What one fold does to the views, and the rows that requests build, for  *)
(* any commands, events, requests and asks.  A fold retires some claims    *)
(* and adds some (Step); what is proved of the state machines that fold is *)
(* proved from that account and not from the definition of the fold.       *)
(***************************************************************************)
EXTENDS Requests, Sieve_proofs, TLAPS

-----------------------------------------------------------------------------
(* Operators on the claim table.                                           *)

LEMMA NoneIsNoClaim == NONE \notin ClaimId
BY VocabularyAssumption DEF Subject

LEMMA PutClaim ==
  ASSUME NEW f, ClaimMap(f), NEW k \in ClaimId, NEW v \in Claim
  PROVE  ClaimMap(Put(f, k, v))
BY DEF Put, ClaimMap

LEMMA PutTask ==
  ASSUME NEW f, TaskMap(f), NEW k \in TaskId, NEW v \in Task
  PROVE  TaskMap(Put(f, k, v))
BY DEF Put, TaskMap

LEMMA EmptyMaps == ClaimMap(Empty) /\ TaskMap(Empty) /\ SlotUnique(Empty)
BY DEF Empty, ClaimMap, TaskMap, SlotUnique

LEMMA OccupantType ==
  ASSUME NEW claims, ClaimMap(claims), NEW task, NEW kind, NEW subject
  PROVE  LET i == Occupant(claims, task, kind, subject) IN
         /\ i \in ClaimId \cup {NONE}
         /\ i # NONE => i \in CurrentSlot(claims, task, kind, subject)
         /\ i = NONE => CurrentSlot(claims, task, kind, subject) = {}
BY NoneIsNoClaim DEF Occupant, CurrentSlot, ClaimMap

(* What a claim keeps when it is retired.                                  *)
Same(a, b) == /\ a.kind = b.kind /\ a.task_id = b.task_id
              /\ a.subject = b.subject /\ a.origin = b.origin
              /\ a.confidence = b.confidence /\ a.outcome = b.outcome
              /\ a.text = b.text /\ a.evidence = b.evidence

(* d is c with the claims A added or replaced and the claims R retired.    *)
Step(c, d, A, R) ==
  /\ DOMAIN d = DOMAIN c \cup A
  /\ \A j \in DOMAIN c \ A :
       /\ Same(d[j], c[j])
       /\ d[j].status = IF j \in R THEN "superseded" ELSE c[j].status

LEMMA StepNone ==
  ASSUME NEW c
  PROVE  Step(c, c, {}, {})
BY DEF Step, Same

LEMMA StepPut ==
  ASSUME NEW c, NEW k, NEW v
  PROVE  Step(c, Put(c, k, v), {k}, {})
BY DEF Step, Same, Put

LEMMA StepTwice ==
  ASSUME NEW c, NEW d, NEW e, NEW A, NEW B, NEW R, NEW Q,
         Step(c, d, A, R), Step(d, e, B, Q)
  PROVE  Step(c, e, A \cup B, R \cup Q)
BY DEF Step, Same

LEMMA RetiredClaim ==
  ASSUME NEW a \in Claim, NEW ts \in Nat
  PROVE  LET b == [a EXCEPT !.status = "superseded", !.updated_at = ts] IN
         b \in Claim /\ b.status = "superseded" /\ Same(b, a)
<1> DEFINE b == [a EXCEPT !.status = "superseded", !.updated_at = ts]
<1>1. b \in Claim
  BY DEF Claim
<1>2. b.status = "superseded" /\ Same(b, a)
  BY DEF Claim, Same
<1> QED BY <1>1, <1>2

LEMMA SupersedeClaimStep ==
  ASSUME NEW claims, ClaimMap(claims), NEW id, NEW ts \in Nat
  PROVE  /\ ClaimMap(SupersedeClaim(claims, id, ts))
         /\ Step(claims, SupersedeClaim(claims, id, ts), {}, {id})
<1>1. CASE id \in DOMAIN claims
  <2> DEFINE d == [claims EXCEPT ![id].status = "superseded", ![id].updated_at = ts]
  <2>1. SupersedeClaim(claims, id, ts) = d
    BY <1>1 DEF SupersedeClaim
  <2>2. DOMAIN d = DOMAIN claims /\ \A j \in DOMAIN claims : j # id => d[j] = claims[j]
    BY Zenon
  <2>3. d[id] = [claims[id] EXCEPT !.status = "superseded", !.updated_at = ts]
    BY <1>1
  <2>4. claims[id] \in Claim
    BY <1>1 DEF ClaimMap
  <2>5. d[id] \in Claim /\ d[id].status = "superseded" /\ Same(d[id], claims[id])
    BY <2>3, <2>4, RetiredClaim
  <2> HIDE DEF d
  <2>6. ClaimMap(d)
    BY <2>2, <2>5 DEF ClaimMap
  <2>7. Step(claims, d, {}, {id})
    BY <2>2, <2>5 DEF Step, Same
  <2> QED BY <2>1, <2>6, <2>7
<1>2. CASE id \notin DOMAIN claims
  BY <1>2 DEF SupersedeClaim, Step, Same
<1> QED BY <1>1, <1>2

LEMMA SupersedeSlotStep ==
  ASSUME NEW claims, ClaimMap(claims), NEW task, NEW kind, NEW subject,
         NEW ts \in Nat
  PROVE  LET d == SupersedeSlot(claims, task, kind, subject, ts)
             i == Occupant(claims, task, kind, subject)
         IN  ClaimMap(d) /\ Step(claims, d, {}, {i})
<1> DEFINE i == Occupant(claims, task, kind, subject)
<1>1. CASE i = NONE
  BY <1>1, NoneIsNoClaim DEF SupersedeSlot, Step, Same, ClaimMap
<1>2. CASE i # NONE
  BY <1>2, SupersedeClaimStep DEF SupersedeSlot
<1> QED BY <1>1, <1>2

LEMMA SlotRetire ==
  ASSUME NEW c, NEW d, NEW R, SlotUnique(c), Step(c, d, {}, R)
  PROVE  SlotUnique(d)
<1>1. SUFFICES ASSUME NEW i \in DOMAIN d, NEW j \in DOMAIN d,
                      d[i].kind \in UniqueSlot,
                      d[i].status = "current", d[j].status = "current",
                      d[i].task_id = d[j].task_id, d[i].kind = d[j].kind,
                      d[i].subject = d[j].subject
               PROVE  i = j
  BY DEF SlotUnique
<1>2. /\ i \in DOMAIN c /\ j \in DOMAIN c
      /\ Same(d[i], c[i]) /\ Same(d[j], c[j])
      /\ c[i].status = "current" /\ c[j].status = "current"
  BY <1>1 DEF Step
<1> QED BY <1>1, <1>2 DEF SlotUnique, Same

LEMMA SlotPut ==
  ASSUME NEW c, SlotUnique(c), NEW k, NEW v,
         v.kind \in UniqueSlot => CurrentSlot(c, v.task_id, v.kind, v.subject) = {}
  PROVE  SlotUnique(Put(c, k, v))
<1> DEFINE d == Put(c, k, v)
<1>1. /\ DOMAIN d = DOMAIN c \cup {k} /\ d[k] = v
      /\ \A x \in DOMAIN c : x # k => d[x] = c[x]
  BY DEF Put
<1> HIDE DEF d
<1> QED BY <1>1 DEF SlotUnique, CurrentSlot, d

(* A slot that had one occupant is free once it is superseded.             *)
LEMMA SlotFreed ==
  ASSUME NEW claims, ClaimMap(claims), SlotUnique(claims), NEW task,
         NEW kind \in UniqueSlot, NEW subject, NEW ts \in Nat
  PROVE  CurrentSlot(SupersedeSlot(claims, task, kind, subject, ts),
                     task, kind, subject) = {}
<1> DEFINE d == SupersedeSlot(claims, task, kind, subject, ts)
           i == Occupant(claims, task, kind, subject)
<1>1. Step(claims, d, {}, {i})
  BY SupersedeSlotStep
<1>2. /\ i # NONE => i \in CurrentSlot(claims, task, kind, subject)
      /\ i = NONE => CurrentSlot(claims, task, kind, subject) = {}
  BY OccupantType
<1> HIDE DEF d, i
<1>3. SUFFICES ASSUME NEW j \in CurrentSlot(d, task, kind, subject)
               PROVE  FALSE
  BY DEF d
<1>4. j \in CurrentSlot(claims, task, kind, subject) /\ j # i
  BY <1>1, <1>3 DEF Step, Same, CurrentSlot
<1> QED BY <1>2, <1>4 DEF CurrentSlot, SlotUnique

-----------------------------------------------------------------------------
(* One fold.                                                               *)

(* Why a fold of e may retire claim j of c.                                *)
Caused(c, e, j) ==
  \/ /\ e.source = "shell" /\ c[j].task_id = e.command
     /\ \/ c[j].kind = "reality" /\ c[j].subject = e.command
        \/ c[j].kind = "next_action" /\ c[j].subject = FRONTIER_SUBJECT
  \/ /\ e.source = "claim"
     /\ \/ Target(e.body) = j
        \/ /\ e.body.kind \in UniqueSlot /\ c[j].kind = e.body.kind
           /\ c[j].task_id = e.body.task_id /\ c[j].subject = e.body.subject

(* The claims a fold of e adds.                                            *)
RealityOf(e, a) ==
  /\ a.kind = "reality" /\ a.origin = "projector"
  /\ a.confidence = "observed" /\ a.outcome = e.exit_code /\ a.outcome # NONE
  /\ a.task_id = e.command /\ a.subject = e.command /\ a.evidence = {e.id}
FrontierOf(e, a) ==
  /\ a.kind = "next_action" /\ a.origin = "projector"
  /\ a.confidence = "inferred" /\ a.task_id = e.command
  /\ a.subject = FRONTIER_SUBJECT
AuthoredOf(e, a) ==
  /\ a.kind = e.body.kind /\ a.origin = e.body.origin
  /\ a.confidence = e.body.confidence /\ a.task_id = e.body.task_id
  /\ a.subject = e.body.subject /\ a.text = e.body.text /\ a.outcome = NONE

Describes(e, i, a) ==
  \/ e.source = "shell" /\ i = <<"reality", e.id>> /\ RealityOf(e, a)
  \/ e.source = "shell" /\ i = <<"frontier", e.id>> /\ FrontierOf(e, a)
  \/ e.source = "claim" /\ i = e.body.claim_id /\ AuthoredOf(e, a)

(* What the fold of e makes of c: d.                                       *)
FoldEffect(c, d, e) ==
  /\ ClaimMap(d)
  /\ SlotUnique(c) => SlotUnique(d)
  /\ \E A, R :
       /\ Step(c, d, A, R)
       /\ A \subseteq Asserts(e)
       /\ e.source = "shell" => <<"reality", e.id>> \in A
       /\ e.source = "claim" /\ e.body.text # NONE => e.body.claim_id \in A
       /\ e.source = "claim" => Target(e.body) \in R \/ Target(e.body) = NONE
       /\ \A i \in A : Describes(e, i, d[i]) /\ d[i].status = "current"
       /\ \A j \in (DOMAIN c \ A) \cap R : Caused(c, e, j)

LEMMA EnsureFrontierEffect ==
  ASSUME NEW c, ClaimMap(c), NEW e \in ShellRow
  PROVE  LET d == EnsureProjectorFrontier(c, e)
             i == Occupant(c, e.command, "next_action", FRONTIER_SUBJECT)
         IN  /\ ClaimMap(d)
             /\ SlotUnique(c) => SlotUnique(d)
             /\ \E A, R : /\ Step(c, d, A, R)
                          /\ A \subseteq {<<"frontier", e.id>>} /\ R \subseteq {i}
                          /\ \A k \in A : FrontierOf(e, d[k]) /\ d[k].status = "current"
<1> DEFINE d == EnsureProjectorFrontier(c, e)
           i == Occupant(c, e.command, "next_action", FRONTIER_SUBJECT)
           k == <<"frontier", e.id>>
           b == SupersedeSlot(c, e.command, "next_action", FRONTIER_SUBJECT, e.ts)
           v == [task_id |-> e.command, kind |-> "next_action",
                 subject |-> FRONTIER_SUBJECT, status |-> "current",
                 confidence |-> "inferred", origin |-> "projector",
                 text |-> NONE, outcome |-> NONE, evidence |-> {e.id},
                 supersedes |-> i, updated_at |-> e.ts]
<1>1. CASE i # NONE /\ c[i].origin # "projector"
  <2>1. d = c
    BY <1>1 DEF EnsureProjectorFrontier
  <2> QED BY <2>1, StepNone
<1>2. CASE ~ (i # NONE /\ c[i].origin # "projector")
  <2>1. d = Put(b, k, v)
    BY <1>2 DEF EnsureProjectorFrontier
  <2>2. ClaimMap(b) /\ Step(c, b, {}, {i})
    BY SupersedeSlotStep DEF ShellRow
  <2>3. i \in ClaimId \cup {NONE} /\ k \in ClaimId
    BY OccupantType DEF ClaimId, ShellRow
  <2>4. v \in Claim
    BY <2>3 DEF Claim, ShellRow, TaskId, Subject, ClaimKind, ClaimConfidence,
                ClaimOrigin
  <2>5. FrontierOf(e, v) /\ v.status = "current" /\ v.kind = "next_action"
        /\ v.task_id = e.command /\ v.subject = FRONTIER_SUBJECT
    BY DEF FrontierOf
  <2> HIDE DEF v, b, k, i, d
  <2>6. ClaimMap(d)
    BY <2>1, <2>2, <2>3, <2>4, PutClaim
  <2>7. SlotUnique(c) => SlotUnique(d)
    <3>1. SUFFICES ASSUME SlotUnique(c) PROVE SlotUnique(d)
      OBVIOUS
    <3>2. SlotUnique(b)
      BY <2>2, <3>1, SlotRetire
    <3>3. CurrentSlot(b, e.command, "next_action", FRONTIER_SUBJECT) = {}
      BY <3>1, SlotFreed DEF b, ShellRow, UniqueSlot
    <3> QED BY <2>1, <2>5, <3>2, <3>3, SlotPut
  <2>8. Step(b, d, {k}, {})
    BY <2>1, StepPut
  <2>9. Step(c, d, {k}, {i})
    <3>1. Step(c, d, {} \cup {k}, {i} \cup {})
      BY <2>2, <2>8, StepTwice
    <3>2. {} \cup {k} = {k} /\ {i} \cup {} = {i}
      OBVIOUS
    <3> QED BY <3>1, <3>2
  <2>10. d[k] = v
    BY <2>1 DEF Put
  <2> QED BY <2>5, <2>6, <2>7, <2>9, <2>10 DEF d, i, k
<1> QED BY <1>1, <1>2

LEMMA SupersedeFrontierEffect ==
  ASSUME NEW c, ClaimMap(c), NEW e \in ShellRow
  PROVE  LET d == SupersedeProjectorFrontier(c, e)
             i == Occupant(c, e.command, "next_action", FRONTIER_SUBJECT)
         IN  /\ ClaimMap(d)
             /\ SlotUnique(c) => SlotUnique(d)
             /\ \E R : Step(c, d, {}, R) /\ R \subseteq {i}
<1> DEFINE d == SupersedeProjectorFrontier(c, e)
           i == Occupant(c, e.command, "next_action", FRONTIER_SUBJECT)
<1>1. CASE i # NONE /\ c[i].origin = "projector"
  <2>1. d = SupersedeClaim(c, i, e.ts)
    BY <1>1 DEF SupersedeProjectorFrontier
  <2>2. ClaimMap(d) /\ Step(c, d, {}, {i})
    BY <2>1, SupersedeClaimStep DEF ShellRow
  <2>3. SlotUnique(c) => SlotUnique(d)
    BY <2>2, SlotRetire
  <2> QED BY <2>2, <2>3
<1>2. CASE ~ (i # NONE /\ c[i].origin = "projector")
  <2>1. d = c
    BY <1>2 DEF SupersedeProjectorFrontier
  <2> QED BY <2>1, StepNone
<1> QED BY <1>1, <1>2

LEMMA FoldShellEffect ==
  ASSUME NEW c, ClaimMap(c), NEW e \in ShellRow, e.exit_code # NONE
  PROVE  FoldEffect(c, FoldShell(c, e), e)
<1> DEFINE d == FoldShell(c, e)
           i == Occupant(c, e.command, "reality", e.command)
           k == <<"reality", e.id>>
           f == <<"frontier", e.id>>
           b == SupersedeSlot(c, e.command, "reality", e.command, e.ts)
           v == [task_id |-> e.command, kind |-> "reality",
                 subject |-> e.command, status |-> "current",
                 confidence |-> "observed", origin |-> "projector",
                 text |-> NONE, outcome |-> e.exit_code, evidence |-> {e.id},
                 supersedes |-> i, updated_at |-> e.ts]
           t == Put(b, k, v)
           n == Occupant(t, e.command, "next_action", FRONTIER_SUBJECT)
<1>1. d = IF e.exit_code # 0 THEN EnsureProjectorFrontier(t, e)
                             ELSE SupersedeProjectorFrontier(t, e)
  BY DEF FoldShell
<1>2. ClaimMap(b) /\ Step(c, b, {}, {i})
  BY SupersedeSlotStep DEF ShellRow
<1>3. /\ i \in ClaimId \cup {NONE}
      /\ i # NONE => i \in CurrentSlot(c, e.command, "reality", e.command)
  BY OccupantType
<1>4. k \in ClaimId /\ f \in ClaimId /\ k # f
  BY DEF ClaimId, ShellRow
<1>5. v \in Claim
  BY <1>3 DEF Claim, ShellRow, TaskId, Subject, ClaimKind, ClaimConfidence,
              ClaimOrigin
<1>6. RealityOf(e, v) /\ v.status = "current"
  BY DEF RealityOf
<1>7. e.source = "shell" /\ Asserts(e) = {k, f}
  BY DEF ShellRow, Asserts
<1>8. b = SupersedeSlot(c, e.command, "reality", e.command, e.ts)
  OBVIOUS
<1> HIDE DEF v, b, i
<1>9. ClaimMap(t) /\ Step(b, t, {k}, {}) /\ t[k] = v
  <2>1. ClaimMap(t)
    BY <1>2, <1>4, <1>5, PutClaim
  <2>2. Step(b, t, {k}, {})
    BY StepPut
  <2>3. t[k] = v
    BY DEF Put
  <2> QED BY <2>1, <2>2, <2>3
<1>10. Step(c, t, {k}, {i})
  <2>1. Step(c, t, {} \cup {k}, {i} \cup {})
    BY <1>2, <1>9, StepTwice
  <2>2. {} \cup {k} = {k} /\ {i} \cup {} = {i}
    OBVIOUS
  <2> QED BY <2>1, <2>2
<1>11. SlotUnique(c) => SlotUnique(t)
  <2>1. SUFFICES ASSUME SlotUnique(c) PROVE SlotUnique(t)
    OBVIOUS
  <2>2. SlotUnique(b)
    BY <1>2, <2>1, SlotRetire
  <2>3. CurrentSlot(b, e.command, "reality", e.command) = {}
    BY <1>8, <2>1, SlotFreed DEF ShellRow, UniqueSlot
  <2> QED BY <1>6, <2>2, <2>3, SlotPut DEF RealityOf
<1>12. n # NONE => n \in CurrentSlot(t, e.command, "next_action", FRONTIER_SUBJECT)
  BY <1>9, OccupantType
<1> HIDE DEF t, n
<1>13. /\ ClaimMap(d)
       /\ SlotUnique(t) => SlotUnique(d)
       /\ \E A, R : /\ Step(t, d, A, R) /\ A \subseteq {f} /\ R \subseteq {n}
                    /\ \A x \in A : FrontierOf(e, d[x]) /\ d[x].status = "current"
  <2>1. CASE e.exit_code # 0
    BY <1>1, <1>9, <2>1, EnsureFrontierEffect DEF n
  <2>2. CASE e.exit_code = 0
    <3>1. d = SupersedeProjectorFrontier(t, e)
      BY <1>1, <2>2
    <3>2. /\ ClaimMap(d)
          /\ SlotUnique(t) => SlotUnique(d)
          /\ \E R : Step(t, d, {}, R) /\ R \subseteq {n}
      BY <1>9, <3>1, SupersedeFrontierEffect DEF n
    <3> QED BY <3>2
  <2> QED BY <2>1, <2>2
<1> HIDE DEF d
<1>14. PICK A, R : /\ Step(t, d, A, R) /\ A \subseteq {f} /\ R \subseteq {n}
                   /\ \A x \in A : FrontierOf(e, d[x]) /\ d[x].status = "current"
  BY <1>13
<1>15. Step(c, d, {k} \cup A, {i} \cup R)
  BY <1>10, <1>14, StepTwice
<1>16. RealityOf(e, d[k]) /\ d[k].status = "current"
  <2>1. n # k
    BY <1>6, <1>9, <1>12, <1>4, NoneIsNoClaim DEF CurrentSlot, RealityOf
  <2>2. Same(d[k], t[k]) /\ d[k].status = t[k].status
    BY <1>4, <1>9, <1>14, <2>1 DEF Step
  <2> QED BY <1>6, <1>9, <2>2 DEF RealityOf, Same
<1>17. \A x \in {k} \cup A : Describes(e, x, d[x]) /\ d[x].status = "current"
  BY <1>7, <1>14, <1>16 DEF Describes
<1>18. ASSUME NEW j \in (DOMAIN c \ ({k} \cup A)) \cap ({i} \cup R)
       PROVE  Caused(c, e, j)
  <2>1. j \in ClaimId /\ j # k /\ j # NONE
    BY NoneIsNoClaim DEF ClaimMap
  <2>2. CASE j = i
    BY <1>3, <1>7, <2>1, <2>2 DEF CurrentSlot, Caused
  <2>3. CASE j \in R
    <3>1. j \in CurrentSlot(t, e.command, "next_action", FRONTIER_SUBJECT)
      BY <1>12, <1>14, <2>1, <2>3
    <3>2. Same(t[j], c[j])
      BY <1>10, <2>1 DEF Step
    <3> QED BY <1>7, <3>1, <3>2 DEF CurrentSlot, Same, Caused
  <2> QED BY <2>2, <2>3
<1>19. SlotUnique(c) => SlotUnique(d)
  BY <1>11, <1>13
<1> DEFINE AA == {k} \cup A
           RR == {i} \cup R
<1>20. /\ Step(c, d, AA, RR)
       /\ AA \subseteq Asserts(e)
       /\ k \in AA
       /\ \A x \in AA : Describes(e, x, d[x]) /\ d[x].status = "current"
       /\ \A j \in (DOMAIN c \ AA) \cap RR : Caused(c, e, j)
  BY <1>7, <1>14, <1>15, <1>17, <1>18
<1> HIDE DEF AA, RR
<1> QED BY <1>7, <1>13, <1>19, <1>20 DEF FoldEffect, d

(* A claim row that is complete, whoever wrote it: what a request leaves,  *)
(* and what a handoff extracts.                                            *)
Written == {e \in ClaimRow :
  /\ e.body.op = "assert" =>
       NONE \notin {e.body.kind, e.body.subject, e.body.text, e.body.confidence}
  /\ e.body.op # "assert" => e.body.kind = NONE /\ e.body.text = NONE
  /\ e.body.op = "supersede" => e.body.supersedes \in ClaimId
  /\ e.body.op = "close_task" => e.body.supersedes = NONE}

LEMMA RequestsAreWritten == Pending \subseteq Written
BY DEF Pending, Written, ClaimRow, ClaimEvent

LEMMA AssertClaimEffect ==
  ASSUME NEW c, ClaimMap(c), NEW e \in Written, e.body.op = "assert"
  PROVE  FoldEffect(c, AssertClaim(c, e), e)
<1> DEFINE m == e.body
           d == AssertClaim(c, e)
           slotted == m.kind \in UniqueSlot
           i == IF slotted THEN Occupant(c, m.task_id, m.kind, m.subject) ELSE NONE
           b == IF slotted THEN SupersedeSlot(c, m.task_id, m.kind, m.subject, e.ts)
                ELSE c
           t == IF m.supersedes # NONE THEN SupersedeClaim(b, m.supersedes, e.ts)
                ELSE b
           v == [task_id |-> m.task_id, kind |-> m.kind, subject |-> m.subject,
                 status |-> "current", confidence |-> m.confidence,
                 origin |-> m.origin, text |-> m.text, outcome |-> NONE,
                 evidence |-> m.evidence,
                 supersedes |-> IF i # NONE THEN i ELSE m.supersedes,
                 updated_at |-> e.ts]
           k == m.claim_id
<1>1. /\ m \in ClaimEvent /\ e.ts \in Nat /\ e.source = "claim"
      /\ NONE \notin {m.kind, m.subject, m.text, m.confidence}
      /\ Asserts(e) = {k}
  BY DEF Written, ClaimRow, Asserts
<1>2. d = Put(t, k, v)
  BY <1>1 DEF AssertClaim
<1>3. i \in ClaimId \cup {NONE} /\
      (i # NONE => slotted /\ i \in CurrentSlot(c, m.task_id, m.kind, m.subject))
  BY OccupantType
<1>4. v \in Claim /\ k \in ClaimId
  BY <1>1, <1>3 DEF Claim, ClaimEvent, ClaimOrigin
<1>5. AuthoredOf(e, v) /\ v.status = "current"
  BY DEF AuthoredOf
<1>6. ClaimMap(b) /\ Step(c, b, {}, {i})
  <2>1. CASE slotted
    BY <1>1, <2>1, SupersedeSlotStep
  <2>2. CASE ~slotted
    BY <2>2, NoneIsNoClaim DEF Step, Same, ClaimMap
  <2> QED BY <2>1, <2>2
<1>7. ClaimMap(t) /\ Step(b, t, {}, {m.supersedes})
  <2>1. CASE m.supersedes # NONE
    BY <1>1, <1>6, <2>1, SupersedeClaimStep
  <2>2. CASE m.supersedes = NONE
    BY <1>6, <2>2, NoneIsNoClaim DEF Step, Same, ClaimMap
  <2> QED BY <2>1, <2>2
<1>8. ASSUME SlotUnique(c)
      PROVE  /\ SlotUnique(t)
             /\ slotted => CurrentSlot(t, m.task_id, m.kind, m.subject) = {}
  <2>1. SlotUnique(t)
    BY <1>6, <1>7, <1>8, SlotRetire
  <2>2. slotted => CurrentSlot(b, m.task_id, m.kind, m.subject) = {}
    BY <1>1, <1>8, SlotFreed
  <2>3. CurrentSlot(t, m.task_id, m.kind, m.subject)
          \subseteq CurrentSlot(b, m.task_id, m.kind, m.subject)
    BY <1>7 DEF Step, Same, CurrentSlot
  <2> QED BY <2>1, <2>2, <2>3
<1>9. Target(m) = m.supersedes
  BY DEF Target
<1> HIDE DEF v, t, b, i
<1>10. ClaimMap(d)
  BY <1>2, <1>4, <1>7, PutClaim
<1>11. Step(t, d, {k}, {}) /\ d[k] = v
  <2>1. Step(t, d, {k}, {})
    BY <1>2, StepPut
  <2>2. d[k] = v
    BY <1>2 DEF Put
  <2> QED BY <2>1, <2>2
<1>12. SlotUnique(c) => SlotUnique(d)
  BY <1>2, <1>5, <1>8, SlotPut DEF AuthoredOf
<1>13. Step(c, d, {k}, {i, m.supersedes})
  <2>1. Step(c, t, {} \cup {}, {i} \cup {m.supersedes})
    BY <1>6, <1>7, StepTwice
  <2>2. Step(c, d, ({} \cup {}) \cup {k}, ({i} \cup {m.supersedes}) \cup {})
    BY <2>1, <1>11, StepTwice
  <2>3. /\ ({} \cup {}) \cup {k} = {k}
        /\ ({i} \cup {m.supersedes}) \cup {} = {i, m.supersedes}
    OBVIOUS
  <2> QED BY <2>2, <2>3
<1>14. ASSUME NEW j \in DOMAIN c \cap {i, m.supersedes}
       PROVE  Caused(c, e, j)
  <2>1. j # NONE
    BY NoneIsNoClaim DEF ClaimMap
  <2> QED BY <1>1, <1>3, <1>9, <2>1 DEF Caused, CurrentSlot
<1>15. \A x \in {k} : Describes(e, x, d[x]) /\ d[x].status = "current"
  BY <1>1, <1>5, <1>11 DEF Describes
<1> DEFINE AA == {k}
           RR == {i, m.supersedes}
<1>16. /\ Step(c, d, AA, RR)
       /\ AA \subseteq Asserts(e) /\ k \in AA
       /\ Target(m) \in RR
       /\ \A x \in AA : Describes(e, x, d[x]) /\ d[x].status = "current"
       /\ \A j \in (DOMAIN c \ AA) \cap RR : Caused(c, e, j)
  BY <1>1, <1>9, <1>13, <1>14, <1>15
<1>17. e.source # "shell"
  BY <1>1
<1> HIDE DEF AA, RR, d
<1> QED BY <1>10, <1>12, <1>16, <1>17 DEF FoldEffect, d

LEMMA FoldClaimEffect ==
  ASSUME NEW c, ClaimMap(c), NEW e \in Written
  PROVE  FoldEffect(c, FoldClaim(c, e), e)
<1> DEFINE m == e.body
           d == FoldClaim(c, e)
<1>1. /\ m \in ClaimEvent /\ e.ts \in Nat /\ e.source = "claim"
      /\ e.source # "shell"
      /\ m.op \in {"assert", "supersede", "close_task"}
  BY DEF Written, ClaimRow, ClaimEvent
<1>2. CASE m.op = "assert"
  <2>1. d = AssertClaim(c, e)
    BY <1>2 DEF FoldClaim
  <2> QED BY <1>2, <2>1, AssertClaimEffect
<1>3. CASE m.op = "supersede"
  <2>1. /\ m.kind = NONE /\ m.text = NONE
        /\ Target(m) \in ClaimId
    BY <1>1, <1>3, NoneIsNoClaim DEF Written, Target, ClaimEvent
  <2>2. d = SupersedeClaim(c, Target(m), e.ts)
    BY <1>3, <2>1 DEF FoldClaim, AssertClaim
  <2>3. ClaimMap(d) /\ Step(c, d, {}, {Target(m)})
    BY <1>1, <2>2, SupersedeClaimStep
  <2>4. SlotUnique(c) => SlotUnique(d)
    BY <2>3, SlotRetire
  <2>5. \A j \in DOMAIN c \cap {Target(m)} : Caused(c, e, j)
    BY <1>1 DEF Caused
  <2>6. \E A, R : /\ Step(c, d, A, R) /\ A = {} /\ R = {Target(m)}
    BY <2>3
  <2> HIDE DEF d
  <2> QED BY <1>1, <2>1, <2>3, <2>4, <2>5, <2>6 DEF FoldEffect, d
<1>4. CASE m.op = "close_task"
  <2>1. d = c
    BY <1>4 DEF FoldClaim
  <2>2. m.text = NONE /\ Target(m) = NONE
    BY <1>4 DEF Written, Target
  <2>3. \E A, R : Step(c, d, A, R) /\ A = {} /\ R = {}
    BY <2>1, StepNone
  <2> HIDE DEF d
  <2> QED BY <1>1, <2>1, <2>2, <2>3 DEF FoldEffect, d
<1> QED BY <1>1, <1>2, <1>3, <1>4

(* The fold of a row that is folded retires what it has cause to and adds  *)
(* what it describes.                                                      *)
LEMMA RowEffect ==
  ASSUME NEW c, ClaimMap(c), NEW e \in ShellEvent \cup Written, Folds(e)
  PROVE  FoldEffect(c, FoldClaims(c, e), e)
<1>1. CASE e \in ShellEvent
  <2>1. e \in ShellRow /\ e.source = "shell" /\ e.exit_code # NONE
    BY <1>1 DEF ShellEvent, ShellRow, Folds
  <2>2. FoldClaims(c, e) = FoldShell(c, e)
    BY <2>1 DEF FoldClaims
  <2> QED BY <2>1, <2>2, FoldShellEffect
<1>2. CASE e \in Written
  <2>1. e.source = "claim"
    BY <1>2 DEF Written, ClaimRow
  <2>2. FoldClaims(c, e) = FoldClaim(c, e)
    BY <2>1 DEF FoldClaims
  <2> QED BY <1>2, <2>2, FoldClaimEffect
<1> QED BY <1>1, <1>2

LEMMA FoldClaimsEffect ==
  ASSUME NEW c, ClaimMap(c), NEW e \in ShellEvent \cup Pending, Folds(e)
  PROVE  FoldEffect(c, FoldClaims(c, e), e)
BY RowEffect, RequestsAreWritten

LEMMA FoldClaimsType ==
  ASSUME NEW c, ClaimMap(c), NEW e \in ShellEvent \cup Pending
  PROVE  ClaimMap(FoldClaims(c, e))
BY FoldClaimsEffect DEF FoldEffect, FoldClaims

LEMMA RowTasks ==
  ASSUME NEW tasks, TaskMap(tasks), NEW e \in ShellEvent \cup Written
  PROVE  TaskMap(FoldTasks(tasks, e))
<1> DEFINE task == IF e.source = "shell" THEN e.command ELSE e.body.task_id
           open == OpenTask(tasks, task, e.id, e.ts)
           shut == CloseTask(open, task, e.id, e.ts)
<1>1. task \in TaskId /\ e.id \in EventId /\ e.ts \in Nat
  BY DEF ShellEvent, ShellRow, Written, ClaimRow, ClaimEvent, TaskId
<1>2. TaskMap(open)
  <2>1. CASE task \in DOMAIN tasks
    <3>1. open = [tasks EXCEPT ![task].updated_at = e.ts]
      BY <2>1 DEF OpenTask
    <3>2. [tasks[task] EXCEPT !.updated_at = e.ts] \in Task
      BY <1>1, <2>1 DEF TaskMap, Task
    <3> HIDE DEF open, task
    <3> QED BY <2>1, <3>1, <3>2 DEF TaskMap
  <2>2. CASE task \notin DOMAIN tasks
    BY <1>1, <2>2, PutTask DEF OpenTask, Task
  <2> QED BY <2>1, <2>2
<1>3. TaskMap(shut)
  <2>1. CASE task \in DOMAIN open
    <3>1. shut = [open EXCEPT ![task] =
                    [open[task] EXCEPT !.status = "done", !.closed_by = e.id,
                                       !.updated_at = e.ts]]
      BY DEF CloseTask
    <3>2. [open[task] EXCEPT !.status = "done", !.closed_by = e.id,
                             !.updated_at = e.ts] \in Task
      <4>1. open[task] \in Task
        BY <1>2, <2>1 DEF TaskMap
      <4> HIDE DEF open, task
      <4> QED BY <1>1, <4>1 DEF Task
    <3> HIDE DEF open, task, shut
    <3> QED BY <1>2, <2>1, <3>1, <3>2 DEF TaskMap
  <2>2. CASE task \notin DOMAIN open
    <3> HIDE DEF open, task
    <3>1. DOMAIN shut = DOMAIN open /\ \A t \in DOMAIN open : shut[t] = open[t]
      BY <2>2 DEF CloseTask
    <3> QED BY <1>2, <3>1 DEF TaskMap
  <2> QED BY <2>1, <2>2
<1>4. FoldTasks(tasks, e) \in {tasks, open, shut}
  BY DEF FoldTasks
<1> QED BY <1>2, <1>3, <1>4

LEMMA FoldTasksType ==
  ASSUME NEW tasks, TaskMap(tasks), NEW e \in ShellEvent \cup Pending
  PROVE  TaskMap(FoldTasks(tasks, e))
BY RowTasks, RequestsAreWritten

-----------------------------------------------------------------------------
(* The fold in timestamp order.                                            *)

(* Rows that no two share a timestamp of.                                  *)
Stamped(rows) ==
  /\ \A e \in rows : e.ts \in Nat
  /\ \A e, f \in rows : e.ts = f.ts => e = f

LEMMA LastRow ==
  ASSUME NEW rows, Stamped(rows), NEW R, R \subseteq rows, NEW e \in R,
         \A f \in R : f.ts <= e.ts
  PROVE  LatestIn(R) = e
<1>1. LatestIn(R) \in R /\ \A f \in R : f.ts <= LatestIn(R).ts
  BY DEF LatestIn
<1>2. LatestIn(R).ts <= e.ts /\ e.ts <= LatestIn(R).ts /\ e.ts \in Nat /\ LatestIn(R).ts \in Nat
  BY <1>1 DEF Stamped
<1> QED BY <1>1, <1>2 DEF Stamped

(* The recursion that ViewsOf states has a solution, whatever rows have the  *)
(* log's timestamps: one for the rows before n extends to those before     *)
(* n + 1, because a view is the view of the rows before its last, grown.   *)
LEMMA ViewsDef ==
  ASSUME NEW rows, Stamped(rows), NEW N \in Nat, \A e \in rows : e.ts < N
  PROVE  ViewsOf(rows) = [R \in SUBSET rows |->
                          IF R = {} THEN [tasks |-> Empty, claims |-> Empty]
                          ELSE Grown(ViewsOf(rows)[R \ {LatestIn(R)}], LatestIn(R))]
<1> DEFINE V(v) == [R \in SUBSET rows |->
                      IF R = {} THEN [tasks |-> Empty, claims |-> Empty]
                      ELSE Grown(v[R \ {LatestIn(R)}], LatestIn(R))]
           Below(n) == {R \in SUBSET rows : \A e \in R : e.ts < n}
           Partial(n, v) == /\ DOMAIN v = Below(n)
                            /\ v = [R \in DOMAIN v |-> v[R]]
                            /\ \A R \in Below(n) :
                                 v[R] = IF R = {} THEN [tasks |-> Empty, claims |-> Empty]
                                        ELSE Grown(v[R \ {LatestIn(R)}], LatestIn(R))
           Missing == {n \in 0..N : ~ \E v : Partial(n, v)}
<1>1. \E v : Partial(0, v)
  <2> DEFINE v == [R \in Below(0) |-> [tasks |-> Empty, claims |-> Empty]]
  <2>1. \A R \in Below(0) : R = {}
    BY DEF Stamped
  <2>2. Partial(0, v)
    BY <2>1
  <2> QED BY <2>2
<1>2. ASSUME NEW n \in 1..N, NEW v, Partial(n - 1, v) PROVE \E w : Partial(n, w)
  <2> DEFINE w == [R \in Below(n) |-> IF R \in Below(n - 1) THEN v[R]
                                      ELSE Grown(v[R \ {LatestIn(R)}], LatestIn(R))]
  <2>1. \A R \in Below(n) : R # {} /\ R \notin Below(n - 1) =>
           R \ {LatestIn(R)} \in Below(n - 1)
    <3>1. SUFFICES ASSUME NEW R \in Below(n), R \notin Below(n - 1)
                   PROVE  R \ {LatestIn(R)} \in Below(n - 1)
      OBVIOUS
    <3>2. PICK e \in R : ~(e.ts < n - 1)
      BY <3>1
    <3>3. \A f \in R : f.ts \in Nat /\ f.ts < n
      BY DEF Stamped
    <3>4. e.ts = n - 1
      BY <3>2, <3>3
    <3>5. LatestIn(R) = e
      BY <3>3, <3>4, LastRow
    <3>6. \A f \in R \ {e} : f.ts # e.ts
      BY DEF Stamped
    <3>7. \A f \in R \ {e} : f.ts < n - 1
      BY <3>3, <3>4, <3>6
    <3> QED BY <3>5, <3>7
  <2>2. \A R \in Below(n - 1) : R \in Below(n) /\ R \ {LatestIn(R)} \in Below(n - 1)
    BY DEF Stamped
  <2> HIDE DEF Below
  <2>3. \A R \in Below(n) : w[R] = IF R = {} THEN [tasks |-> Empty, claims |-> Empty]
                                   ELSE Grown(w[R \ {LatestIn(R)}], LatestIn(R))
    <3>1. SUFFICES ASSUME NEW R \in Below(n)
                   PROVE  w[R] = IF R = {} THEN [tasks |-> Empty, claims |-> Empty]
                                   ELSE Grown(w[R \ {LatestIn(R)}], LatestIn(R))
      OBVIOUS
    <3>2. CASE R \in Below(n - 1)
      BY <1>2, <2>2, <3>2
    <3>3. CASE R \notin Below(n - 1)
      <4>1. {} \in Below(n - 1)
        BY DEF Below
      <4> QED BY <2>1, <2>2, <3>3, <4>1
    <3> QED BY <3>2, <3>3
  <2>4. Partial(n, w)
    BY <2>3
  <2> QED BY <2>4
<1>3. Missing = {}
  <2>1. SUFFICES ASSUME Missing # {} PROVE FALSE
    OBVIOUS
  <2>2. PICK n \in Missing : \A m \in Missing : n <= m
    <3>1. Missing \subseteq Nat
      OBVIOUS
    <3> HIDE DEF Missing
    <3> QED BY <2>1, <3>1, LeastNatural
  <2> HIDE DEF Partial
  <2>3. n \in 1..N /\ n - 1 \notin Missing /\ n - 1 \in 0..N
    BY <1>1, <2>2
  <2> QED BY <1>2, <2>2, <2>3
<1>4. PICK g : Partial(N, g)
  <2>1. N \in 0..N
    OBVIOUS
  <2> HIDE DEF Partial
  <2> QED BY <1>3, <2>1
<1>5. Below(N) = SUBSET rows
  OBVIOUS
<1>6. g = V(g)
  BY <1>4, <1>5
<1>7. ViewsOf(rows) = CHOOSE v : v = V(v)
  BY DEF ViewsOf
<1> HIDE DEF V
<1>8. ViewsOf(rows) = V(ViewsOf(rows))
  BY <1>6, <1>7
<1> QED BY <1>8 DEF V

LEMMA ViewOfNone ==
  ASSUME NEW rows, Stamped(rows), NEW n \in Nat, \A e \in rows : e.ts < n
  PROVE  ViewsOf(rows)[{}] = [tasks |-> Empty, claims |-> Empty]
BY ViewsDef

(* A row later than those of R grows the view of R.                        *)
LEMMA GrownView ==
  ASSUME NEW rows, Stamped(rows), NEW n \in Nat, \A e \in rows : e.ts < n,
         NEW R, R \subseteq rows, NEW e \in rows, e \notin R,
         \A f \in R : f.ts <= e.ts
  PROVE  ViewsOf(rows)[R \cup {e}] = Grown(ViewsOf(rows)[R], e)
<1> DEFINE S == R \cup {e}
<1>1. S \in SUBSET rows /\ S # {} /\ S \ {e} = R /\ e \in S /\ \A f \in S : f.ts <= e.ts
  BY DEF Stamped
<1> HIDE DEF S
<1>2. LatestIn(S) = e
  BY <1>1, LastRow
<1>3. ViewsOf(rows)[S] = Grown(ViewsOf(rows)[S \ {LatestIn(S)}], LatestIn(S))
  BY <1>1, ViewsDef
<1>4. ViewsOf(rows)[S] = Grown(ViewsOf(rows)[R], e)
  BY <1>1, <1>2, <1>3
<1> QED BY <1>4 DEF S

(* What holds of no row, and of rows with a later one if of those without, *)
(* holds of any rows.                                                      *)
LEMMA FoldInduction ==
  ASSUME NEW rows, Stamped(rows), NEW n \in Nat, \A e \in rows : e.ts < n,
         NEW G, {} \in G,
         \A R \in SUBSET rows : \A e \in rows :
            R \in G /\ e \notin R /\ (\A f \in R : f.ts <= e.ts) => R \cup {e} \in G
  PROVE  SUBSET rows \subseteq G
<1> DEFINE Before(m) == {S \in SUBSET rows : \A e \in S : e.ts < m}
           T == {m \in Nat : ~(Before(m) \subseteq G)}
<1>1. SUFFICES T = {}
  BY DEF Stamped
<1>2. SUFFICES ASSUME T # {} PROVE FALSE
  OBVIOUS
<1>3. PICK m \in T : \A k \in T : m <= k
  <2>1. T \subseteq Nat
    OBVIOUS
  <2> HIDE DEF T
  <2> QED BY <1>2, <2>1, LeastNatural
<1>4. PICK S \in Before(m) : S \notin G
  BY <1>3
<1>5. \A e \in S : e.ts \in Nat /\ e.ts < m
  BY <1>4 DEF Stamped
<1>6. PICK e0 \in S : TRUE
  BY <1>4
<1>7. m \in Nat /\ m - 1 \in Nat
  BY <1>3, <1>5, <1>6
<1>8. Before(m - 1) \subseteq G
  <2>1. ~(m <= m - 1)
    BY <1>7
  <2> QED BY <1>3, <1>7, <2>1
<1>9. PICK e \in S : ~(e.ts < m - 1)
  BY <1>4, <1>8
<1>10. e.ts = m - 1
  BY <1>5, <1>7, <1>9
<1>11. \A f \in S \ {e} : f.ts < m - 1
  <2>1. \A f \in S \ {e} : f.ts # e.ts
    BY <1>4 DEF Stamped
  <2> QED BY <1>5, <1>7, <1>10, <2>1
<1>12. S \ {e} \in G
  BY <1>4, <1>8, <1>11
<1>13. S \ {e} \in SUBSET rows /\ e \in rows /\ e \notin S \ {e} /\ S = (S \ {e}) \cup {e}
  BY <1>4
<1>14. \A f \in S \ {e} : f.ts <= e.ts
  BY <1>5, <1>7, <1>10, <1>11
<1> HIDE DEF T, Before
<1>15. (S \ {e}) \cup {e} \in G
  BY <1>12, <1>13, <1>14
<1> QED BY <1>4, <1>13, <1>15

(* The view of some rows does not depend on the rows it is a part of.      *)
LEMMA ViewsLocal ==
  ASSUME NEW rows, Stamped(rows), NEW n \in Nat, \A e \in rows : e.ts < n,
         NEW S, S \subseteq rows
  PROVE  ViewsOf(S)[S] = ViewsOf(rows)[S]
<1> DEFINE G == {R \in SUBSET S : ViewsOf(S)[R] = ViewsOf(rows)[R]}
<1>1. Stamped(S) /\ \A e \in S : e.ts < n
  BY DEF Stamped
<1>2. {} \in G
  BY <1>1, ViewOfNone
<1>3. ASSUME NEW R \in SUBSET S, NEW e \in S, R \in G, e \notin R, \A f \in R : f.ts <= e.ts
      PROVE  R \cup {e} \in G
  <2>1. ViewsOf(S)[R \cup {e}] = Grown(ViewsOf(S)[R], e)
    BY <1>1, <1>3, GrownView
  <2>2. ViewsOf(rows)[R \cup {e}] = Grown(ViewsOf(rows)[R], e)
    BY <1>3, GrownView
  <2>3. ViewsOf(S)[R] = ViewsOf(rows)[R]
    BY <1>3
  <2> QED BY <2>1, <2>2, <2>3
<1> HIDE DEF G
<1>4. SUBSET S \subseteq G
  BY <1>1, <1>2, <1>3, FoldInduction
<1> QED BY <1>4 DEF G

-----------------------------------------------------------------------------
(* The rows requests build.                                                *)

LEMMA FocalTaskType ==
  ASSUME NEW tasks, TaskMap(tasks), NEW claims, ClaimMap(claims)
  PROVE  FocalTask(tasks, claims) \in TaskId \cup {NONE}
<1> DEFINE active  == {t \in DOMAIN tasks : tasks[t].status = "active"}
           failing == {t \in active : HasFailingReality(claims, t)}
           intents == {i \in DOMAIN claims : /\ claims[i].status = "current"
                                             /\ claims[i].kind = "intent"
                                             /\ claims[i].origin = "user"
                                             /\ claims[i].task_id \in active}
           oldest  == {t \in failing :
                         \A u \in failing : tasks[t].created_at <= tasks[u].created_at}
           newest  == {claims[i].task_id : i \in
                         {i \in intents : \A j \in intents :
                                            claims[j].updated_at <= claims[i].updated_at}}
<1>1. oldest \subseteq TaskId /\ newest \subseteq TaskId
  BY DEF TaskMap, ClaimMap, Claim
<1>2. FocalTask(tasks, claims) = IF oldest # {} THEN CHOOSE t \in oldest : TRUE
                                 ELSE IF newest # {} THEN CHOOSE t \in newest : TRUE
                                 ELSE NONE
  BY DEF FocalTask
<1> HIDE DEF oldest, newest
<1> QED BY <1>1, <1>2

RowOf(r, n, b) == [id |-> r, ts |-> n, source |-> "claim", body |-> b]

LEMMA AssertionRow ==
  ASSUME NEW r \in Request, NEW n \in Nat, NEW task \in TaskId,
         NEW kind \in ClaimKind, NEW subject \in Subject,
         NEW confidence \in ClaimConfidence, NEW origin \in {"user", "agent"},
         NEW supersedes \in ClaimId \cup {NONE}
  PROVE  RowOf(r, n, Assertion(r, task, kind, subject, confidence, origin,
                               supersedes)) \in Pending
<1> DEFINE b == Assertion(r, task, kind, subject, confidence, origin, supersedes)
<1>1. (CHOOSE x \in Text : TRUE) \in Text
  BY RequestsAssumption, VocabularyAssumption
<1>2. r \in EventId /\ <<"authored", r>> \in ClaimId
  BY RequestsAssumption, VocabularyAssumption DEF ClaimId
<1>3. b \in ClaimEvent
  BY <1>1, <1>2 DEF Assertion, ClaimEvent
<1>4. NONE \notin {b.kind, b.subject, b.text, b.confidence}
  BY <1>1, VocabularyAssumption DEF Assertion
<1>5. b.op = "assert" /\ b.claim_id = <<"authored", r>>
  BY DEF Assertion
<1> HIDE DEF b
<1> QED BY <1>2, <1>3, <1>4, <1>5 DEF RowOf, Pending, ClaimRow, b

LEMMA RetirementRow ==
  ASSUME NEW r \in Request, NEW n \in Nat, NEW task \in TaskId,
         NEW id \in ClaimId
  PROVE  /\ RowOf(r, n, Retirement("close_task", id, task, NONE)) \in Pending
         /\ RowOf(r, n, Retirement("supersede", id, task, id)) \in Pending
<1>1. r \in EventId
  BY RequestsAssumption, VocabularyAssumption
<1>2. /\ Retirement("close_task", id, task, NONE) \in ClaimEvent
      /\ Retirement("supersede", id, task, id) \in ClaimEvent
  BY DEF Retirement, ClaimEvent
<1> QED BY <1>1, <1>2 DEF RowOf, Pending, ClaimRow, Retirement

LEMMA BodyRow ==
  ASSUME NEW r \in Request, NEW n \in Nat, NEW i \in Input,
         NEW focal \in TaskId \cup {NONE}, NEW claims, ClaimMap(claims),
         Body(r, i, focal, claims) # NONE
  PROVE  RowOf(r, n, Body(r, i, focal, claims)) \in Pending
<1> DEFINE b == Body(r, i, focal, claims)
<1>1. /\ i.ask \in [who : {"user"}, kind : UserKind, confidence : {"stated"}]
             \cup [who : {"agent"}, kind : ClaimKind, confidence : ClaimConfidence]
      /\ i.target \in ClaimId \cup {NONE}
  BY RequestsAssumption, VocabularyAssumption DEF Input
<1>2. r \in TaskId /\ <<"authored", r>> \in ClaimId /\ <<"authored", r>> \in Subject
      /\ FRONTIER_SUBJECT \in Subject /\ INTENT_SUBJECT \in Subject
  BY RequestsAssumption, VocabularyAssumption DEF TaskId, ClaimId, Subject
<1>3. CASE i.ask.who = "user" /\ i.ask.kind = "retract"
  <2>1. b = UserRetraction(i, claims)
    BY <1>3 DEF Body
  <2>2. i.target \in DOMAIN claims
        /\ b = Retirement("supersede", i.target, claims[i.target].task_id, i.target)
    BY <2>1 DEF UserRetraction
  <2>3. i.target \in ClaimId /\ claims[i.target].task_id \in TaskId
    BY <2>2 DEF ClaimMap, Claim
  <2> QED BY <2>2, <2>3, RetirementRow
<1>4. CASE i.ask.who = "user" /\ i.ask.kind = "intent"
  <2>1. b = UserIntent(r, focal)
    BY <1>4 DEF Body
  <2>2. (IF focal = NONE THEN r ELSE focal) \in TaskId
    BY <1>2
  <2>3. "intent" \in ClaimKind /\ "stated" \in ClaimConfidence
    BY DEF ClaimKind, ClaimConfidence
  <2> QED BY <1>2, <2>1, <2>2, <2>3, AssertionRow DEF UserIntent
<1>5. CASE /\ ~(i.ask.who = "user" /\ i.ask.kind \in {"retract", "intent"})
           /\ i.ask.who = "agent"
  <2>1. focal \in TaskId /\ b = AgentClaim(r, i, focal, claims)
    BY <1>5 DEF Body
  <2> DEFINE frontier == Occupant(claims, focal, "next_action", FRONTIER_SUBJECT)
             replaces == IF /\ i.ask.kind = "next_action" /\ frontier # NONE
                            /\ claims[frontier].origin # "user"
                         THEN frontier ELSE i.target
             subject == IF i.ask.kind = "next_action" THEN FRONTIER_SUBJECT
                        ELSE <<"authored", r>>
             confidence == IF i.ask.kind = "unknown" THEN "hypothesis"
                           ELSE i.ask.confidence
  <2>2. replaces \in ClaimId \cup {NONE}
    BY <1>1, OccupantType
  <2>3. subject \in Subject /\ confidence \in ClaimConfidence /\ i.ask.kind \in ClaimKind
    BY <1>1, <1>2, <1>5 DEF ClaimConfidence, ClaimKind
  <2>4. b = Assertion(r, focal, i.ask.kind, subject, confidence, "agent", replaces)
    BY <2>1 DEF AgentClaim
  <2> HIDE DEF replaces, subject, confidence, b
  <2> QED BY <2>1, <2>2, <2>3, <2>4, AssertionRow DEF b
<1>6. CASE i.ask.who = "user" /\ i.ask.kind \notin {"retract", "intent"}
  <2>1. focal \in TaskId /\ b = UserClaim(r, i, focal)
    BY <1>6 DEF Body
  <2>2. CASE i.ask.kind = "done"
    BY <1>2, <2>1, <2>2, RetirementRow DEF UserClaim
  <2>3. CASE i.ask.kind # "done"
    <3>1. i.ask.kind \in ClaimKind /\ "stated" \in ClaimConfidence
      BY <1>1, <1>6, <2>3 DEF UserKind, ClaimKind, ClaimConfidence
    <3> QED BY <1>2, <2>1, <2>3, <3>1, AssertionRow DEF UserClaim
  <2> QED BY <2>2, <2>3
<1>7. i.ask.who \in {"user", "agent"}
  BY <1>1
<1> QED BY <1>3, <1>4, <1>5, <1>6, <1>7

=============================================================================
