-------------------------- MODULE Retention_proofs --------------------------
(***************************************************************************)
(* Proofs about Retention, for any commands, runs, requests, capacities,   *)
(* batches and number of crashes: no row is lost between the log and the   *)
(* archive, only a crash puts one in two segments, and a rebuild from the  *)
(* rows that are left puts in force what is in force.                      *)
(*                                                                         *)
(* None is inductive by itself.  Nothing is lost because the rows the      *)
(* pruner has still to delete are in the archive already; a row is         *)
(* archived once because a row that is in the log and in no batch was last *)
(* archived by a pass that a crash cut short, and because no other task    *)
(* can take or release the lock while a batch is outstanding (IInv).       *)
(*                                                                         *)
(* A removed row is never missed because what it made is not in force and  *)
(* a later row of its command is in the log, whose exit undoes what the    *)
(* removed row did (PruneInv): folding the rows that are left with and     *)
(* without it gives views that differ only in claims about that command,   *)
(* up to that later row, and that are alike from there on (Twins).         *)
(***************************************************************************)
EXTENDS Retention, Claims_proofs, TLAPS

-----------------------------------------------------------------------------
(* The inductive invariant.                                                *)

(* Where a row may be.  archived[x] = 0 for an id no row has yet.          *)
RowsInv ==
  /\ \A e \in stored : e.id \in EventId
  /\ \A x \in DOMAIN events : \E e \in stored : e.id = x
  /\ archived \in [EventId -> Nat]
  /\ \A x \in EventId : archived[x] > 0 => \E e \in stored : e.id = x

(* What the pruner has still to delete is archived.                        *)
BatchInv ==
  /\ batch \subseteq EventId
  /\ \A x \in batch : archived[x] > 0

(* A row of the log outside the batch was archived by interrupted passes.  *)
CountInv ==
  /\ crashes \in Nat
  /\ \A x \in DOMAIN events \ batch : archived[x] <= crashes

(* Who holds the lock: the pruner while a batch is outstanding, the worker *)
(* between the statements of one embedding.                                *)
LockInv ==
  /\ batch # {} => writer = PRUNER
  /\ worker # NONE =>
       /\ worker = [id |-> worker.id, row |-> worker.row, at |-> worker.at]
       /\ worker.at \in {"insert", "mark"} => writer = WORKER

IInv == RowsInv /\ BatchInv /\ CountInv /\ LockInv /\ NothingIsLost /\ ArchivedOnce

-----------------------------------------------------------------------------
(* Facts about single definitions.                                         *)

LEMMA WritersDiffer == NONE # WORKER /\ NONE # PRUNER /\ WORKER # PRUNER
BY RetentionAssumption

(* An UPDATE neither adds a row nor removes one.                           *)
LEMMA UpdateKeepsRows ==
  ASSUME NEW x, NEW entry, Update(x, entry)
  PROVE  DOMAIN events' = DOMAIN events
BY DEF Update

(* The pruner takes rows that are in the log.                              *)
LEMMA PrunedRowsAreInTheLog == Oldest(Prunable, PruneBatch) \subseteq DOMAIN events
BY DEF Oldest, Prunable

(* What the invariant says of the rows, the archive and the batch depends  *)
(* on the events table only through its ids.                               *)
LEMMA SameRows ==
  ASSUME IInv, DOMAIN events' = DOMAIN events, UNCHANGED <<stored, archived, batch, crashes>>
  PROVE  (RowsInv /\ BatchInv /\ CountInv /\ NothingIsLost /\ ArchivedOnce)'
BY DEF IInv, RowsInv, BatchInv, CountInv, NothingIsLost, ArchivedOnce

-----------------------------------------------------------------------------
(* One lemma per action, or group of actions, that disturbs the invariant. *)

LEMMA InitIInv == Init => IInv
BY DEF Init, IInv, RowsInv, BatchInv, CountInv, LockInv, NothingIsLost, ArchivedOnce, Empty

LEMMA InsertIInv ==
  ASSUME IInv, NEW row, row.id \in EventId, Insert(row)
  PROVE  IInv'
<1>1. /\ DOMAIN events' = DOMAIN events \cup {row.id}
      /\ stored' = stored \cup {row}
      /\ \A e \in stored : e.id # row.id
      /\ UNCHANGED <<archived, worker, batch, writer, crashes>>
  BY DEF Insert, Put
<1>2. archived[row.id] = 0
  BY <1>1 DEF IInv, RowsInv
<1>3. (RowsInv /\ BatchInv)'
  BY <1>1 DEF IInv, RowsInv, BatchInv
<1>4. CountInv'
  BY <1>1, <1>2 DEF IInv, CountInv
<1>5. (LockInv /\ ArchivedOnce)'
  BY <1>1 DEF IInv, LockInv, ArchivedOnce
<1>6. NothingIsLost'
  BY <1>1 DEF IInv, NothingIsLost
<1> QED BY <1>3, <1>4, <1>5, <1>6 DEF IInv

LEMMA EnrichLockingIInv ==
  ASSUME IInv, EnrichLocking
  PROVE  IInv'
<1>1. /\ DOMAIN events' = DOMAIN events
      /\ UNCHANGED <<stored, archived, batch, crashes>>
  BY UpdateKeepsRows
     DEF EnrichLocking, Analyse, Compact, FinishNote, DeleteOldVector
<1>2. LockInv'
  <2>1. writer = NONE /\ batch = {} /\ batch' = {}
    BY WritersDiffer
       DEF IInv, LockInv, EnrichLocking, Analyse, Compact, FinishNote, DeleteOldVector
  <2>2. CASE Analyse \/ Compact
    BY <2>1, <2>2 DEF IInv, LockInv, Analyse, Compact, Working
  <2>3. CASE FinishNote
    BY <2>1, <2>3 DEF LockInv, FinishNote
  <2>4. CASE DeleteOldVector
    BY <2>1, <2>4 DEF IInv, LockInv, DeleteOldVector, Working
  <2> QED BY <2>2, <2>3, <2>4 DEF EnrichLocking
<1> QED BY <1>1, <1>2, SameRows DEF IInv

LEMMA EnrichFreeIInv ==
  ASSUME IInv, EnrichFree
  PROVE  IInv'
<1>1. /\ DOMAIN events' = DOMAIN events
      /\ UNCHANGED <<stored, archived, batch, crashes>>
  BY UpdateKeepsRows
     DEF EnrichFree, Take, SkipEmbedding, Embed, InsertVector, MarkEnriched, diskVars
<1>2. LockInv'
  <2>1. CASE Take
    BY <2>1 DEF IInv, LockInv, Take, diskVars
  <2>2. CASE SkipEmbedding
    BY <2>2 DEF IInv, LockInv, SkipEmbedding
  <2>3. CASE Embed
    BY <2>3 DEF IInv, LockInv, Embed, Working
  <2>4. CASE InsertVector
    BY <2>4 DEF IInv, LockInv, InsertVector, Working
  <2>5. CASE MarkEnriched
    <3>1. writer = WORKER
      BY <2>5 DEF IInv, LockInv, MarkEnriched, Working
    <3> QED BY <2>5, <3>1, WritersDiffer DEF IInv, LockInv, MarkEnriched
  <2> QED BY <2>1, <2>2, <2>3, <2>4, <2>5 DEF EnrichFree
<1> QED BY <1>1, <1>2, SameRows DEF IInv

LEMMA ArchiveIInv ==
  ASSUME IInv, Archive
  PROVE  IInv'
<1>1. /\ writer = NONE /\ writer' = PRUNER /\ batch = {}
      /\ UNCHANGED <<events, stored, worker, crashes>>
  BY WritersDiffer DEF IInv, LockInv, Archive
<1>2. batch' \subseteq DOMAIN events
  BY PrunedRowsAreInTheLog DEF Archive
<1>3. /\ archived' \in [EventId -> Nat]
      /\ \A x \in EventId : archived'[x] = IF x \in batch' THEN archived[x] + 1
                                                           ELSE archived[x]
  BY DEF Archive, IInv, RowsInv
<1>4. RowsInv'
  BY <1>1, <1>2, <1>3 DEF IInv, RowsInv
<1>5. BatchInv'
  BY <1>1, <1>2, <1>3 DEF IInv, RowsInv, BatchInv
<1>6. CountInv'
  BY <1>1, <1>3 DEF IInv, RowsInv, CountInv
<1>7. LockInv'
  BY <1>1, WritersDiffer DEF IInv, LockInv
<1>8. NothingIsLost'
  <2> SUFFICES ASSUME NEW e \in stored, e.id \notin DOMAIN events
               PROVE  archived'[e.id] > 0
    BY <1>1 DEF NothingIsLost
  <2>1. archived[e.id] > 0
    BY DEF IInv, NothingIsLost
  <2>2. e.id \in EventId /\ archived[e.id] \in Nat
    BY DEF IInv, RowsInv
  <2> QED BY <2>1, <2>2, <1>3
<1>9. ArchivedOnce'
  BY <1>1, <1>2, <1>3 DEF IInv, RowsInv, CountInv, ArchivedOnce
<1> QED BY <1>4, <1>5, <1>6, <1>7, <1>8, <1>9 DEF IInv

LEMMA DeleteRowIInv ==
  ASSUME IInv, DeleteRow
  PROVE  IInv'
<1>1. PICK x \in batch : events' = [y \in DOMAIN events \ {x} |-> events[y]]
  BY DEF DeleteRow
<1>2. /\ DOMAIN events' = DOMAIN events \ {x}
      /\ UNCHANGED <<archived, stored, worker, batch, writer, crashes>>
  BY <1>1 DEF DeleteRow
<1>3. archived[x] > 0
  BY DEF IInv, BatchInv
<1>4. (RowsInv /\ BatchInv /\ CountInv)'
  BY <1>2 DEF IInv, RowsInv, BatchInv, CountInv
<1>5. (LockInv /\ ArchivedOnce)'
  BY <1>2 DEF IInv, LockInv, ArchivedOnce
<1>6. NothingIsLost'
  BY <1>2, <1>3 DEF IInv, NothingIsLost
<1> QED BY <1>4, <1>5, <1>6 DEF IInv

LEMMA DeleteVectorIInv ==
  ASSUME IInv, DeleteVector
  PROVE  IInv'
<1>1. PICK x \in batch \ DOMAIN events :
        /\ batch' = batch \ {x}
        /\ writer' = IF batch' = {} THEN NONE ELSE PRUNER
  BY DEF DeleteVector
<1>2. writer = PRUNER /\ UNCHANGED <<events, archived, stored, worker, crashes>>
  BY DEF DeleteVector
<1>3. (RowsInv /\ BatchInv /\ CountInv)'
  BY <1>1, <1>2 DEF IInv, RowsInv, BatchInv, CountInv
<1>4. LockInv'
  BY <1>1, <1>2, WritersDiffer DEF IInv, LockInv
<1>5. (NothingIsLost /\ ArchivedOnce)'
  BY <1>2 DEF IInv, NothingIsLost, ArchivedOnce
<1> QED BY <1>3, <1>4, <1>5 DEF IInv

LEMMA CrashIInv ==
  ASSUME IInv, Crash
  PROVE  IInv'
<1>1. /\ worker' = NONE /\ batch' = {} /\ crashes' = crashes + 1
      /\ UNCHANGED <<events, archived, stored>>
  BY DEF Crash, diskVars
<1>2. (RowsInv /\ BatchInv /\ LockInv)'
  BY <1>1 DEF IInv, RowsInv, BatchInv, LockInv
<1>3. CountInv'
  BY <1>1 DEF IInv, RowsInv, CountInv, ArchivedOnce
<1>4. ArchivedOnce'
  BY <1>1 DEF IInv, RowsInv, CountInv, ArchivedOnce
<1>5. NothingIsLost'
  BY <1>1 DEF IInv, NothingIsLost
<1> QED BY <1>2, <1>3, <1>4, <1>5 DEF IInv

(* The steps that leave the rows, the archive and the lock alone.          *)
LEMMA ElsewhereIInv ==
  ASSUME IInv, UNCHANGED <<events, archived, stored, worker, batch, writer, crashes>>
  PROVE  IInv'
BY DEF IInv, RowsInv, BatchInv, CountInv, LockInv, NothingIsLost, ArchivedOnce

LEMMA NextIInv == IInv /\ [Next]_vars => IInv'
<1> SUFFICES ASSUME IInv, [Next]_vars PROVE IInv'
  OBVIOUS
<1>1. ASSUME NEW x \in Run, NEW ts \in Stamp, NEW command \in Command,
             NEW code \in ExitCode \cup {NONE}, IngestShell(x, ts, command, code)
      PROVE  IInv'
  <2> DEFINE row == [id |-> x, ts |-> ts, source |-> "shell", command |-> command,
                     exit_code |-> code]
  <2>1. row.id \in EventId
    BY RequestsAssumption
  <2>2. Insert(row)
    BY <1>1 DEF IngestShell
  <2> HIDE DEF row
  <2> QED BY <2>1, <2>2, InsertIInv
<1>2. ASSUME NEW x \in Run, NEW ts \in Stamp, NEW source \in Evidence,
             IngestEvidence(x, ts, source)
      PROVE  IInv'
  <2> DEFINE row == [id |-> x, ts |-> ts, source |-> source, exit_code |-> NONE]
  <2>1. row.id \in EventId
    BY RequestsAssumption
  <2>2. Insert(row)
    BY <1>2 DEF IngestEvidence
  <2> HIDE DEF row
  <2> QED BY <2>1, <2>2, InsertIInv
<1>3. ASSUME NEW r \in Request, NEW ts \in Stamp, NEW i \in Input, Author(r, ts, i)
      PROVE  IInv'
  <2>1. PICK b : Insert([id |-> r, ts |-> ts, source |-> "claim", body |-> b])
    BY <1>3 DEF Author
  <2> DEFINE row == [id |-> r, ts |-> ts, source |-> "claim", body |-> b]
  <2>2. row.id \in EventId
    BY RequestsAssumption
  <2>3. Insert(row)
    BY <2>1
  <2> HIDE DEF row
  <2> QED BY <2>2, <2>3, InsertIInv
<1>4. CASE Sweep
  BY <1>4, ElsewhereIInv DEF Sweep, diskVars
<1>5. CASE OfferBacklog
  BY <1>5, ElsewhereIInv DEF OfferBacklog, diskVars
<1>6. CASE Start
  BY <1>6, ElsewhereIInv DEF Start
<1>7. ASSUME NEW t \in Stamp, Age(t) PROVE IInv'
  BY <1>7, ElsewhereIInv DEF Age, diskVars
<1>8. CASE UNCHANGED vars
  BY <1>8, ElsewhereIInv DEF vars, diskVars
<1>9. CASE Prune
  BY <1>9, ArchiveIInv, DeleteRowIInv, DeleteVectorIInv DEF Prune
<1> QED
  BY <1>1, <1>2, <1>3, <1>4, <1>5, <1>6, <1>7, <1>8, <1>9,
     EnrichLockingIInv, EnrichFreeIInv, CrashIInv DEF Next

-----------------------------------------------------------------------------
THEOREM Invariance == Spec => []IInv
BY InitIInv, NextIInv, PTL DEF Spec

(* The pruner never removes a row before it is in a committed segment, and *)
(* nothing else removes one: at every moment, inside a pass and after any  *)
(* number of crashes, each stored row is in the log or in the archive.     *)
THEOREM NothingLost == Spec => []NothingIsLost
<1>1. IInv => NothingIsLost
  BY DEF IInv
<1> QED BY Invariance, <1>1, PTL

(* A row enters a second segment only if a crash came between its archive  *)
(* and its delete: the passes that archive it exceed the crashes by one at *)
(* most.                                                                   *)
THEOREM ArchivedAtMostOnce == Spec => []ArchivedOnce
<1>1. IInv => ArchivedOnce
  BY DEF IInv
<1> QED BY Invariance, <1>1, PTL

-----------------------------------------------------------------------------
(* What one fold makes current.  A row is prunable because what it asserted *)
(* is no longer in force, so the claims that are not current are left out. *)

Current(c) == {i \in DOMAIN c : c[i].status = "current"}

(* d is c with the claims X retired.                                       *)
Retires(c, d, X) ==
  Current(d) = Current(c) \ X /\ \A i \in Current(d) : d[i] = c[i]

LEMMA RetireOne ==
  ASSUME NEW c, ClaimMap(c), NEW id, NEW ts \in Nat
  PROVE  Retires(c, SupersedeClaim(c, id, ts), {id})
<1>1. CASE id \in DOMAIN c
  <2> DEFINE d == [c EXCEPT ![id].status = "superseded", ![id].updated_at = ts]
  <2>1. SupersedeClaim(c, id, ts) = d
    BY <1>1 DEF SupersedeClaim
  <2>2. DOMAIN d = DOMAIN c /\ \A j \in DOMAIN c : j # id => d[j] = c[j]
    BY Zenon
  <2>3. d[id] = [c[id] EXCEPT !.status = "superseded", !.updated_at = ts]
    BY <1>1
  <2>4. c[id] \in Claim
    BY <1>1 DEF ClaimMap
  <2>5. d[id].status = "superseded"
    BY <2>3, <2>4, RetiredClaim
  <2> HIDE DEF d
  <2> QED BY <2>1, <2>2, <2>5 DEF Retires, Current
<1>2. CASE id \notin DOMAIN c
  BY <1>2 DEF SupersedeClaim, Retires, Current
<1> QED BY <1>1, <1>2

LEMMA RetireSlot ==
  ASSUME NEW c, ClaimMap(c), SlotUnique(c), NEW task, NEW kind \in UniqueSlot,
         NEW subject, NEW ts \in Nat
  PROVE  Retires(c, SupersedeSlot(c, task, kind, subject, ts),
                 CurrentSlot(c, task, kind, subject))
<1> DEFINE i == Occupant(c, task, kind, subject)
<1>1. /\ i # NONE => i \in CurrentSlot(c, task, kind, subject)
      /\ i = NONE => CurrentSlot(c, task, kind, subject) = {}
  BY OccupantType
<1>2. SupersedeSlot(c, task, kind, subject, ts) =
        IF i = NONE THEN c ELSE SupersedeClaim(c, i, ts)
  BY DEF SupersedeSlot
<1> HIDE DEF i
<1>3. CASE i = NONE
  BY <1>1, <1>2, <1>3 DEF Retires, Current
<1>4. CASE i # NONE
  <2>1. CurrentSlot(c, task, kind, subject) = {i}
    BY <1>1, <1>4 DEF CurrentSlot, SlotUnique
  <2> QED BY <1>2, <1>4, <2>1, RetireOne
<1> QED BY <1>3, <1>4

LEMMA AddCurrent ==
  ASSUME NEW c, NEW k, NEW v, v.status = "current"
  PROVE  /\ Current(Put(c, k, v)) = Current(c) \cup {k}
         /\ Put(c, k, v)[k] = v
         /\ \A i \in Current(c) \ {k} : Put(c, k, v)[i] = c[i]
BY DEF Put, Current

(* The slots a shell exit takes, and what it does not retire: an authored  *)
(* next action stays, and no proposal is made beside it.                   *)
InReality(a, e) == a.task_id = e.command /\ a.kind = "reality" /\ a.subject = e.command
InFrontier(a, e) ==
  a.task_id = e.command /\ a.kind = "next_action" /\ a.subject = FRONTIER_SUBJECT

Kept(c, e) == {i \in Current(c) : /\ ~InReality(c[i], e)
                                  /\ ~(InFrontier(c[i], e) /\ c[i].origin = "projector")}
Proposes(c, e) ==
  /\ e.exit_code # 0
  /\ \A i \in Current(c) : InFrontier(c[i], e) => c[i].origin = "projector"

RealityClaim(e, s) ==
  [task_id |-> e.command, kind |-> "reality", subject |-> e.command,
   status |-> "current", confidence |-> "observed", origin |-> "projector",
   text |-> NONE, outcome |-> e.exit_code, evidence |-> {e.id},
   supersedes |-> s, updated_at |-> e.ts]
FrontierClaim(e, s) ==
  [task_id |-> e.command, kind |-> "next_action", subject |-> FRONTIER_SUBJECT,
   status |-> "current", confidence |-> "inferred", origin |-> "projector",
   text |-> NONE, outcome |-> NONE, evidence |-> {e.id},
   supersedes |-> s, updated_at |-> e.ts]
AuthoredClaim(e, s) ==
  [task_id |-> e.body.task_id, kind |-> e.body.kind, subject |-> e.body.subject,
   status |-> "current", confidence |-> e.body.confidence,
   origin |-> e.body.origin, text |-> e.body.text, outcome |-> NONE,
   evidence |-> e.body.evidence, supersedes |-> s, updated_at |-> e.ts]

Fresh(c, e) == <<"reality", e.id>> \notin DOMAIN c /\ <<"frontier", e.id>> \notin DOMAIN c

ShellEffect(c, d, e) ==
  /\ Current(d) = Kept(c, e) \cup {<<"reality", e.id>>}
                    \cup {i \in {<<"frontier", e.id>>} : Proposes(c, e)}
  /\ \A i \in Kept(c, e) : d[i] = c[i]
  /\ \E s : d[<<"reality", e.id>>] = RealityClaim(e, s)
  /\ Proposes(c, e) => \E s : d[<<"frontier", e.id>>] = FrontierClaim(e, s)

LEMMA ShellCurrent ==
  ASSUME NEW c, ClaimMap(c), SlotUnique(c), NEW e \in ShellRow, e.exit_code # NONE,
         Fresh(c, e)
  PROVE  ShellEffect(c, FoldShell(c, e), e)
<1> DEFINE d == FoldShell(c, e)
           i == Occupant(c, e.command, "reality", e.command)
           k == <<"reality", e.id>>
           f == <<"frontier", e.id>>
           b == SupersedeSlot(c, e.command, "reality", e.command, e.ts)
           v == RealityClaim(e, i)
           t == Put(b, k, v)
           n == Occupant(t, e.command, "next_action", FRONTIER_SUBJECT)
           slot == CurrentSlot(t, e.command, "next_action", FRONTIER_SUBJECT)
<1>1. d = IF e.exit_code # 0 THEN EnsureProjectorFrontier(t, e)
                             ELSE SupersedeProjectorFrontier(t, e)
  BY DEF FoldShell, RealityClaim
<1>2. /\ ClaimMap(b) /\ SlotUnique(b) /\ DOMAIN b = DOMAIN c
      /\ Retires(c, b, CurrentSlot(c, e.command, "reality", e.command))
      /\ CurrentSlot(b, e.command, "reality", e.command) = {}
  <2>1. ClaimMap(b) /\ Step(c, b, {}, {i}) /\ e.ts \in Nat
    BY SupersedeSlotStep DEF ShellRow
  <2>2. "reality" \in UniqueSlot
    BY DEF UniqueSlot
  <2>3. Retires(c, b, CurrentSlot(c, e.command, "reality", e.command))
    BY <2>1, <2>2, RetireSlot
  <2>4. CurrentSlot(b, e.command, "reality", e.command) = {}
    BY <2>1, <2>2, SlotFreed
  <2> HIDE DEF b, i
  <2>5. SlotUnique(b)
    BY <2>1, SlotRetire
  <2>6. DOMAIN b = DOMAIN c
    BY <2>1 DEF Step
  <2> QED BY <2>1, <2>3, <2>4, <2>5, <2>6
<1>3. k \in ClaimId /\ f \in ClaimId /\ k # f /\ k \notin DOMAIN c /\ f \notin DOMAIN c
  BY DEF ClaimId, ShellRow, Fresh
<1>4. v \in Claim
  <2>1. i \in ClaimId \cup {NONE}
    BY OccupantType
  <2> HIDE DEF i
  <2> QED BY <2>1 DEF RealityClaim, Claim, ShellRow, TaskId, Subject, ClaimKind,
                      ClaimConfidence, ClaimOrigin
<1>5. /\ v.status = "current" /\ v.kind = "reality" /\ v.task_id = e.command
      /\ v.subject = e.command /\ v.kind # "next_action"
  BY DEF RealityClaim
<1> HIDE DEF d
<1>6. \E s : v = RealityClaim(e, s)
  OBVIOUS
<1> HIDE DEF v, i
<1>7. ClaimMap(t) /\ SlotUnique(t) /\ DOMAIN t = DOMAIN c \cup {k}
  <2> HIDE DEF b
  <2>1. ClaimMap(t)
    BY <1>2, <1>3, <1>4, PutClaim
  <2>2. SlotUnique(t)
    BY <1>2, <1>5, SlotPut
  <2> QED BY <1>2, <2>1, <2>2 DEF Put
<1>8. /\ Current(t) = Current(b) \cup {k} /\ t[k] = v
      /\ \A j \in Current(b) \ {k} : t[j] = b[j]
  BY <1>5, AddCurrent
<1> HIDE DEF b
<1>9. /\ n \in ClaimId \cup {NONE}
      /\ n # NONE => n \in slot
      /\ n = NONE => slot = {}
  BY <1>7, OccupantType
<1> DEFINE o == SupersedeSlot(t, e.command, "next_action", FRONTIER_SUBJECT, e.ts)
<1>10. d = IF e.exit_code # 0
           THEN IF n # NONE /\ t[n].origin # "projector" THEN t
                ELSE Put(o, f, FrontierClaim(e, n))
           ELSE IF n # NONE /\ t[n].origin = "projector"
                THEN SupersedeClaim(t, n, e.ts) ELSE t
  BY <1>1 DEF EnsureProjectorFrontier, SupersedeProjectorFrontier, FrontierClaim
<1>11. Retires(t, o, slot) /\ e.ts \in Nat
  BY <1>7, RetireSlot DEF UniqueSlot, ShellRow
<1>12. n # NONE => slot = {n}
  BY <1>9, <1>7 DEF CurrentSlot, SlotUnique, UniqueSlot
<1>13. /\ Current(t) = {j \in Current(c) : ~InReality(c[j], e)} \cup {k}
       /\ \A j \in Current(t) : j # k => j \in Current(c) /\ t[j] = c[j]
  BY <1>2, <1>3, <1>8 DEF Retires, Current, CurrentSlot, InReality
<1>14. slot = {j \in Current(c) : InFrontier(c[j], e)}
  <2>1. slot = {j \in Current(t) : InFrontier(t[j], e)}
    BY DEF CurrentSlot, Current, InFrontier
  <2>2. ~InFrontier(t[k], e)
    BY <1>5, <1>8 DEF InFrontier
  <2> HIDE DEF slot, t
  <2> QED BY <1>13, <2>1, <2>2, <1>3 DEF InFrontier, InReality, Current
<1> HIDE DEF t, n, slot, o
<1>15. CASE n # NONE /\ t[n].origin # "projector"
  <2>1. n \in Current(c) /\ InFrontier(c[n], e) /\ t[n] = c[n] /\ n \in Current(t)
    BY <1>3, <1>9, <1>13, <1>14, <1>15 DEF InFrontier, InReality, Current
  <2>2. d = t /\ ~Proposes(c, e)
    BY <1>10, <1>15, <2>1 DEF Proposes
  <2>3. Kept(c, e) = {j \in Current(c) : ~InReality(c[j], e)}
    BY <1>12, <1>14, <1>15, <2>1 DEF Kept
  <2>4. Current(d) = Kept(c, e) \cup {k} \cup {j \in {f} : Proposes(c, e)}
    BY <1>13, <2>2, <2>3
  <2>5. \A j \in Kept(c, e) : d[j] = c[j]
    BY <1>3, <1>13, <2>2, <2>3 DEF Current
  <2>6. \E s : d[k] = RealityClaim(e, s)
    BY <1>6, <1>8, <2>2
  <2> QED BY <2>2, <2>4, <2>5, <2>6 DEF ShellEffect, d
<1>16. CASE ~(n # NONE /\ t[n].origin # "projector")
  <2>1. \A j \in slot : c[j].origin = "projector"
    BY <1>3, <1>9, <1>12, <1>13, <1>14, <1>16 DEF InFrontier, InReality, Current
  <2>2. Proposes(c, e) = (e.exit_code # 0)
    BY <1>14, <2>1 DEF Proposes
  <2>3. Kept(c, e) = {j \in Current(c) : ~InReality(c[j], e)} \ slot
    BY <1>14, <2>1 DEF Kept
  <2>4. k \notin slot
    BY <1>3, <1>14 DEF Current
  <2>5. Current(t) \ slot = Kept(c, e) \cup {k}
    BY <1>13, <2>3, <2>4
  <2>6. CASE e.exit_code # 0
    <3>1. d = Put(o, f, FrontierClaim(e, n)) /\ FrontierClaim(e, n).status = "current"
      BY <1>10, <1>16, <2>6 DEF FrontierClaim
    <3>2. /\ Current(d) = Current(o) \cup {f} /\ d[f] = FrontierClaim(e, n)
          /\ \A j \in Current(o) \ {f} : d[j] = o[j]
      BY <3>1, AddCurrent
    <3>3. Current(o) = Kept(c, e) \cup {k} /\ \A j \in Current(o) : o[j] = t[j]
      BY <1>11, <2>5 DEF Retires
    <3>4. f \notin Current(o)
      BY <1>3, <3>3 DEF Kept, Current
    <3>5. \A j \in Kept(c, e) : d[j] = c[j]
      BY <1>3, <1>13, <2>5, <3>2, <3>3, <3>4 DEF Kept, Current
    <3>6. d[k] = v
      BY <1>3, <1>8, <3>2, <3>3
    <3>7. Current(d) = Kept(c, e) \cup {k} \cup {j \in {f} : Proposes(c, e)}
      BY <2>2, <2>6, <3>2, <3>3
    <3>8. \E s : d[k] = RealityClaim(e, s)
      BY <1>6, <3>6
    <3>9. \E s : d[f] = FrontierClaim(e, s)
      BY <3>2
    <3> QED BY <3>5, <3>7, <3>8, <3>9 DEF ShellEffect, d
  <2>7. CASE e.exit_code = 0
    <3>1. Retires(t, d, slot)
      <4>1. CASE n = NONE
        BY <1>9, <1>10, <2>7, <4>1 DEF Retires
      <4>2. CASE n # NONE
        BY <1>7, <1>10, <1>11, <1>12, <1>16, <2>7, <4>2, RetireOne
      <4> QED BY <4>1, <4>2
    <3>2. Current(d) = Kept(c, e) \cup {k} /\ \A j \in Current(d) : d[j] = t[j]
      BY <2>5, <3>1 DEF Retires
    <3>3. \A j \in Kept(c, e) : d[j] = c[j]
      BY <1>3, <1>13, <2>5, <3>2 DEF Kept, Current
    <3>4. Current(d) = Kept(c, e) \cup {k} \cup {j \in {f} : Proposes(c, e)}
      BY <2>2, <2>7, <3>2
    <3>5. \E s : d[k] = RealityClaim(e, s)
      <4>1. k \in Current(d)
        BY <3>2
      <4> QED BY <1>6, <1>8, <3>2, <4>1
    <3> QED BY <2>2, <2>7, <3>3, <3>4, <3>5 DEF ShellEffect, d
  <2> QED BY <2>6, <2>7
<1> QED BY <1>15, <1>16 DEF d

(* What an authored row makes current.                                     *)
Displaced(c, e) ==
  {i \in Current(c) : \/ i = Target(e.body)
                      \/ /\ e.body.kind \in UniqueSlot
                         /\ c[i].task_id = e.body.task_id
                         /\ c[i].kind = e.body.kind
                         /\ c[i].subject = e.body.subject}

ClaimEffect(c, d, e) ==
  IF e.body.text = NONE THEN Retires(c, d, {Target(e.body)})
  ELSE /\ Current(d) = (Current(c) \ Displaced(c, e)) \cup {e.body.claim_id}
       /\ \A i \in Current(d) : i # e.body.claim_id => d[i] = c[i]
       /\ \E s : d[e.body.claim_id] = AuthoredClaim(e, s)

LEMMA ClaimCurrent ==
  ASSUME NEW c, ClaimMap(c), SlotUnique(c), NEW e \in Pending
  PROVE  ClaimEffect(c, FoldClaim(c, e), e)
<1> DEFINE m == e.body
           d == FoldClaim(c, e)
<1>1. /\ m \in ClaimEvent /\ e.ts \in Nat
      /\ m.op \in {"assert", "supersede", "close_task"}
  BY DEF Pending, ClaimRow, ClaimEvent
<1>2. CASE m.op = "close_task"
  <2>1. d = c /\ m.text = NONE /\ Target(m) = NONE
    BY <1>2 DEF FoldClaim, Pending, Target
  <2>2. NONE \notin Current(c)
    BY NoneIsNoClaim DEF ClaimMap, Current
  <2> HIDE DEF d
  <2> QED BY <2>1, <2>2 DEF ClaimEffect, Retires, d
<1>3. CASE m.op = "supersede"
  <2>1. m.kind = NONE /\ m.text = NONE
    BY <1>3 DEF Pending
  <2>2. d = SupersedeClaim(c, Target(m), e.ts)
    BY <1>3, <2>1 DEF FoldClaim, AssertClaim
  <2>3. Retires(c, d, {Target(m)})
    BY <1>1, <2>2, RetireOne
  <2> QED BY <2>1, <2>3 DEF ClaimEffect
<1>4. CASE m.op = "assert"
  <2> DEFINE slotted == m.kind \in UniqueSlot
             i == IF slotted THEN Occupant(c, m.task_id, m.kind, m.subject) ELSE NONE
             slot == IF slotted THEN CurrentSlot(c, m.task_id, m.kind, m.subject) ELSE {}
             b == IF slotted THEN SupersedeSlot(c, m.task_id, m.kind, m.subject, e.ts)
                  ELSE c
             t == IF m.supersedes # NONE THEN SupersedeClaim(b, m.supersedes, e.ts)
                  ELSE b
             k == m.claim_id
             s == IF i # NONE THEN i ELSE m.supersedes
  <2>1. m.kind # NONE /\ m.text # NONE /\ Target(m) = m.supersedes
    BY <1>4 DEF Pending, Target
  <2>2. d = Put(t, k, AuthoredClaim(e, s))
    BY <1>4, <2>1 DEF FoldClaim, AssertClaim, AuthoredClaim
  <2>3. ClaimMap(b) /\ Retires(c, b, slot)
    <3>1. CASE slotted
      <4>1. ClaimMap(b)
        BY <1>1, <3>1, SupersedeSlotStep
      <4>2. Retires(c, b, slot)
        BY <1>1, <3>1, RetireSlot
      <4> QED BY <4>1, <4>2
    <3>2. CASE ~slotted
      BY <3>2 DEF Retires
    <3> QED BY <3>1, <3>2
  <2> HIDE DEF b
  <2>4. Retires(b, t, {m.supersedes})
    <3>1. CASE m.supersedes # NONE
      BY <1>1, <2>3, <3>1, RetireOne
    <3>2. CASE m.supersedes = NONE
      <4>1. NONE \notin Current(b)
        BY <2>3, NoneIsNoClaim DEF ClaimMap, Current
      <4> QED BY <3>2, <4>1 DEF Retires
    <3> QED BY <3>1, <3>2
  <2>5. AuthoredClaim(e, s).status = "current"
    BY DEF AuthoredClaim
  <2> HIDE DEF t, s, d
  <2>6. /\ Current(d) = Current(t) \cup {k} /\ d[k] = AuthoredClaim(e, s)
        /\ \A j \in Current(t) \ {k} : d[j] = t[j]
    BY <2>2, <2>5, AddCurrent
  <2>7. Displaced(c, e) = Current(c) \cap (slot \cup {m.supersedes})
    BY <2>1 DEF Displaced, CurrentSlot, Current
  <2> HIDE DEF slot, k
  <2>8. /\ Current(t) = Current(c) \ Displaced(c, e)
        /\ \A j \in Current(t) : t[j] = c[j]
    BY <2>3, <2>4, <2>7 DEF Retires
  <2> QED BY <2>1, <2>6, <2>8 DEF ClaimEffect, d, k
<1> QED BY <1>1, <1>2, <1>3, <1>4

-----------------------------------------------------------------------------
(* Two claim tables that agree on what is current, but for the projector's *)
(* claims about the tasks H.                                               *)

Alike(a, b) == Same(a, b) /\ a.status = b.status /\ a.updated_at = b.updated_at

Seen(c, H) == {i \in Current(c) : ~(c[i].origin = "projector" /\ c[i].task_id \in H)}

Agree(c, d, H) ==
  Seen(c, H) = Seen(d, H) /\ \A i \in Seen(c, H) : Alike(c[i], d[i])

(* What the projector writes about a task is in one of its two slots, and  *)
(* only the projector says how a command exited.                           *)
Rule(i, a) ==
  /\ a.origin = "projector" =>
       \/ a.kind = "reality" /\ a.subject = a.task_id
       \/ a.kind = "next_action" /\ a.subject = FRONTIER_SUBJECT
  /\ a.kind = "reality" /\ a.subject \in Command => a.origin = "projector"
  /\ i[1] = "reality" => a.origin = "projector" /\ a.confidence = "observed"
ByRule(c) == \A i \in DOMAIN c : Rule(i, c[i])

(* What a row asserts is alike whatever it supersedes.                     *)
LEMMA AssertedAlike ==
  ASSUME NEW e, NEW s, NEW r
  PROVE  /\ Alike(RealityClaim(e, s), RealityClaim(e, r))
         /\ Alike(FrontierClaim(e, s), FrontierClaim(e, r))
         /\ Alike(AuthoredClaim(e, s), AuthoredClaim(e, r))
         /\ RealityClaim(e, s).origin = "projector" /\ RealityClaim(e, s).task_id = e.command
         /\ FrontierClaim(e, s).origin = "projector" /\ FrontierClaim(e, s).task_id = e.command
         /\ AuthoredClaim(e, s).origin = e.body.origin
<1>1. Alike(RealityClaim(e, s), RealityClaim(e, r))
  BY DEF RealityClaim, Alike, Same
<1>2. Alike(FrontierClaim(e, s), FrontierClaim(e, r))
  BY DEF FrontierClaim, Alike, Same
<1>3. Alike(AuthoredClaim(e, s), AuthoredClaim(e, r))
  BY DEF AuthoredClaim, Alike, Same
<1>4. RealityClaim(e, s).origin = "projector" /\ RealityClaim(e, s).task_id = e.command
  BY DEF RealityClaim
<1>5. FrontierClaim(e, s).origin = "projector" /\ FrontierClaim(e, s).task_id = e.command
  BY DEF FrontierClaim
<1>6. AuthoredClaim(e, s).origin = e.body.origin
  BY DEF AuthoredClaim
<1> QED BY <1>1, <1>2, <1>3, <1>4, <1>5, <1>6

(* A shell exit keeps the tables as alike as they were.                    *)
LEMMA ShellAgree ==
  ASSUME NEW c, NEW d, NEW e, NEW H, Agree(c, d, H),
         NEW cc, NEW dd, ShellEffect(c, cc, e), ShellEffect(d, dd, e)
  PROVE  Agree(cc, dd, H)
<1> DEFINE k == <<"reality", e.id>>
           f == <<"frontier", e.id>>
<1>1. Proposes(c, e) = Proposes(d, e)
  BY DEF Proposes, Agree, Seen, Alike, Same, InFrontier
<1>2. Kept(c, e) \cap Seen(c, H) = Kept(d, e) \cap Seen(d, H)
  BY DEF Agree, Seen, Alike, Same, Kept, InReality, InFrontier
<1>3. /\ cc[k].origin = "projector" /\ cc[k].task_id = e.command
      /\ dd[k].origin = "projector" /\ dd[k].task_id = e.command
      /\ Alike(cc[k], dd[k])
  BY AssertedAlike DEF ShellEffect
<1>4. Proposes(c, e) =>
      /\ cc[f].origin = "projector" /\ cc[f].task_id = e.command
      /\ dd[f].origin = "projector" /\ dd[f].task_id = e.command
      /\ Alike(cc[f], dd[f])
  BY <1>1, AssertedAlike DEF ShellEffect
<1> DEFINE New == {i \in {k, f} : e.command \notin H /\ (i = k \/ Proposes(c, e))}
<1>5. Seen(cc, H) = (Kept(c, e) \cap Seen(c, H)) \cup New
  <2>1. Current(cc) = Kept(c, e) \cup {k} \cup {i \in {f} : Proposes(c, e)}
    BY DEF ShellEffect
  <2>2. \A i \in Kept(c, e) : cc[i] = c[i] /\ i \in Current(c)
    BY DEF ShellEffect, Kept
  <2> HIDE DEF k, f
  <2> QED BY <1>3, <1>4, <2>1, <2>2 DEF Seen
<1>6. Seen(dd, H) = (Kept(d, e) \cap Seen(d, H)) \cup New
  <2>1. Current(dd) = Kept(d, e) \cup {k} \cup {i \in {f} : Proposes(c, e)}
    BY <1>1 DEF ShellEffect
  <2>2. \A i \in Kept(d, e) : dd[i] = d[i] /\ i \in Current(d)
    BY DEF ShellEffect, Kept
  <2> HIDE DEF k, f
  <2> QED BY <1>3, <1>4, <2>1, <2>2 DEF Seen
<1>7. \A i \in Kept(c, e) \cap Seen(c, H) : Alike(cc[i], dd[i])
  BY <1>2 DEF Agree, ShellEffect
<1>8. \A i \in New : Alike(cc[i], dd[i])
  BY <1>3, <1>4
<1> HIDE DEF New
<1> QED BY <1>2, <1>5, <1>6, <1>7, <1>8 DEF Agree

(* An exit of the command the tables differ about makes them alike.        *)
LEMMA ShellReveals ==
  ASSUME NEW c, NEW d, NEW e, ByRule(c), ByRule(d), Agree(c, d, {e.command}),
         NEW cc, NEW dd, ShellEffect(c, cc, e), ShellEffect(d, dd, e)
  PROVE  Agree(cc, dd, {})
<1>1. Kept(c, e) \subseteq Seen(c, {e.command}) /\ Kept(d, e) \subseteq Seen(d, {e.command})
  BY DEF ByRule, Rule, Kept, Seen, InReality, InFrontier, Current
<1>2. Kept(c, e) = Kept(d, e) /\ \A i \in Kept(c, e) : Alike(c[i], d[i])
  BY <1>1 DEF Agree, Seen, Alike, Same, Kept, InReality, InFrontier, Current
<1>3. Proposes(c, e) = Proposes(d, e)
  BY DEF Proposes, Agree, Seen, Alike, Same, InFrontier
<1>4. Current(cc) = Current(dd)
  BY <1>2, <1>3 DEF ShellEffect
<1>5. \A i \in Current(cc) : Alike(cc[i], dd[i])
  <2>1. Alike(cc[<<"reality", e.id>>], dd[<<"reality", e.id>>])
    BY AssertedAlike DEF ShellEffect
  <2>2. Proposes(c, e) => Alike(cc[<<"frontier", e.id>>], dd[<<"frontier", e.id>>])
    BY <1>3, AssertedAlike DEF ShellEffect
  <2>3. \A i \in Kept(c, e) : Alike(cc[i], dd[i])
    BY <1>2 DEF ShellEffect
  <2> QED BY <2>1, <2>2, <2>3 DEF ShellEffect
<1> QED BY <1>4, <1>5 DEF Agree, Seen

(* Only what the projector says of its command does an exit change.        *)
LEMMA ShellHides ==
  ASSUME NEW c, NEW e \in ShellRow, ByRule(c), NEW cc, ShellEffect(c, cc, e)
  PROVE  Agree(cc, c, {e.command})
<1> DEFINE k == <<"reality", e.id>>
           f == <<"frontier", e.id>>
<1>1. Seen(c, {e.command}) = Kept(c, e) \cap Seen(c, {e.command})
  BY DEF ByRule, Rule, Kept, Seen, InReality, InFrontier, Current, ShellRow
<1>2. /\ cc[k].origin = "projector" /\ cc[k].task_id = e.command
      /\ Proposes(c, e) => cc[f].origin = "projector" /\ cc[f].task_id = e.command
  BY AssertedAlike DEF ShellEffect
<1>3. Current(cc) = Kept(c, e) \cup {k} \cup {i \in {f} : Proposes(c, e)}
      /\ \A i \in Kept(c, e) : cc[i] = c[i] /\ i \in Current(c)
  BY DEF ShellEffect, Kept
<1> HIDE DEF k, f
<1>4. Seen(cc, {e.command}) = Kept(c, e) \cap Seen(c, {e.command})
  BY <1>2, <1>3 DEF Seen
<1> QED BY <1>1, <1>3, <1>4 DEF Agree, Alike, Same

(* An authored row keeps the tables as alike as they were.                 *)
LEMMA ClaimAgree ==
  ASSUME NEW c, NEW d, NEW e \in Pending, NEW H, Agree(c, d, H),
         NEW cc, NEW dd, ClaimEffect(c, cc, e), ClaimEffect(d, dd, e)
  PROVE  Agree(cc, dd, H)
<1>1. CASE e.body.text = NONE
  BY <1>1 DEF ClaimEffect, Retires, Agree, Seen
<1>2. CASE e.body.text # NONE
  <2> DEFINE k == e.body.claim_id
  <2>1. Seen(c, H) \ Displaced(c, e) = Seen(d, H) \ Displaced(d, e)
    BY DEF Agree, Seen, Alike, Same, Displaced
  <2>2. e.body.origin # "projector"
    BY DEF Pending, ClaimRow, ClaimEvent
  <2>3. cc[k].origin # "projector" /\ dd[k].origin # "projector" /\ Alike(cc[k], dd[k])
    BY <1>2, <2>2, AssertedAlike DEF ClaimEffect
  <2>4. /\ Current(cc) = (Current(c) \ Displaced(c, e)) \cup {k}
        /\ \A i \in Current(cc) : i # k => cc[i] = c[i]
    BY <1>2 DEF ClaimEffect
  <2>5. /\ Current(dd) = (Current(d) \ Displaced(d, e)) \cup {k}
        /\ \A i \in Current(dd) : i # k => dd[i] = d[i]
    BY <1>2 DEF ClaimEffect
  <2> HIDE DEF k
  <2>6. Seen(cc, H) = (Seen(c, H) \ Displaced(c, e)) \cup {k}
    BY <2>3, <2>4 DEF Seen
  <2>7. Seen(dd, H) = (Seen(d, H) \ Displaced(d, e)) \cup {k}
    BY <2>3, <2>5 DEF Seen
  <2>8. \A i \in Seen(cc, H) : Alike(cc[i], dd[i])
    <3>1. SUFFICES ASSUME NEW i \in Seen(cc, H), i # k PROVE Alike(cc[i], dd[i])
      BY <2>3
    <3>2. i \in Seen(c, H) /\ cc[i] = c[i]
      BY <2>4, <2>6, <3>1 DEF Seen
    <3>3. dd[i] = d[i]
      BY <2>1, <2>5, <2>6, <2>7, <3>1 DEF Seen
    <3> QED BY <3>2, <3>3 DEF Agree
  <2> QED BY <2>1, <2>6, <2>7, <2>8 DEF Agree
<1> QED BY <1>1, <1>2

-----------------------------------------------------------------------------
(* The same for tasks.                                                     *)

TaskOf(e) == IF e.source = "shell" THEN e.command ELSE e.body.task_id
Closes(e) == e.source = "claim" /\ e.body.op = "close_task"

Opened(tasks, e) ==
  IF TaskOf(e) \in DOMAIN tasks THEN [tasks[TaskOf(e)] EXCEPT !.updated_at = e.ts]
  ELSE [status |-> "active", opened_by |-> e.id, closed_by |-> NONE,
        created_at |-> e.ts, updated_at |-> e.ts]
Touched(tasks, e) ==
  IF Closes(e) THEN [Opened(tasks, e) EXCEPT !.status = "done", !.closed_by = e.id,
                                             !.updated_at = e.ts]
  ELSE Opened(tasks, e)

LEMMA FoldTasksEffect ==
  ASSUME NEW tasks, TaskMap(tasks), NEW e \in ShellEvent \cup Pending, Folds(e)
  PROVE  LET d == FoldTasks(tasks, e) IN
         /\ DOMAIN d = DOMAIN tasks \cup {TaskOf(e)}
         /\ \A t \in DOMAIN tasks : t # TaskOf(e) => d[t] = tasks[t]
         /\ d[TaskOf(e)] = Touched(tasks, e)
<1> DEFINE task == TaskOf(e)
           open == OpenTask(tasks, task, e.id, e.ts)
           shut == CloseTask(open, task, e.id, e.ts)
           d    == FoldTasks(tasks, e)
<1>1. d = IF Closes(e) THEN shut ELSE open
  BY DEF FoldTasks, TaskOf, Closes
<1> HIDE DEF task
<1>2. /\ DOMAIN open = DOMAIN tasks \cup {task}
      /\ \A t \in DOMAIN tasks : t # task => open[t] = tasks[t]
      /\ open[task] = Opened(tasks, e)
  <2>1. CASE task \in DOMAIN tasks
    BY <2>1 DEF OpenTask, Opened, task
  <2>2. CASE task \notin DOMAIN tasks
    BY <2>2 DEF OpenTask, Opened, task, Put
  <2> QED BY <2>1, <2>2
<1> HIDE DEF open
<1>3. /\ DOMAIN shut = DOMAIN open
      /\ \A t \in DOMAIN open : t # task => shut[t] = open[t]
      /\ shut[task] = [open[task] EXCEPT !.status = "done", !.closed_by = e.id,
                                         !.updated_at = e.ts]
  BY <1>2 DEF CloseTask
<1> HIDE DEF shut
<1> QED BY <1>1, <1>2, <1>3 DEF Touched, task

(* The fields of the task a row touches.                                   *)
LEMMA TouchedFields ==
  ASSUME NEW tasks, TaskMap(tasks), NEW e \in ShellEvent \cup Pending
  PROVE  LET a == Touched(tasks, e)
             b == tasks[TaskOf(e)]
         IN  /\ a.updated_at = e.ts
             /\ a.status = IF Closes(e) THEN "done"
                           ELSE IF TaskOf(e) \in DOMAIN tasks THEN b.status ELSE "active"
             /\ TaskOf(e) \in DOMAIN tasks =>
                  /\ a.opened_by = b.opened_by /\ a.created_at = b.created_at
                  /\ a.closed_by = IF Closes(e) THEN e.id ELSE b.closed_by
             /\ TaskOf(e) \notin DOMAIN tasks => a.opened_by = e.id
<1> DEFINE o == Opened(tasks, e)
           b == tasks[TaskOf(e)]
<1>1. /\ e.id \in EventId /\ e.ts \in Nat
  BY DEF ShellEvent, ShellRow, Pending, ClaimRow
<1>2. o \in Task /\ o.updated_at = e.ts
      /\ o.status = (IF TaskOf(e) \in DOMAIN tasks THEN b.status ELSE "active")
      /\ (TaskOf(e) \in DOMAIN tasks =>
             /\ o.opened_by = b.opened_by /\ o.created_at = b.created_at
             /\ o.closed_by = b.closed_by)
      /\ (TaskOf(e) \notin DOMAIN tasks => o.opened_by = e.id)
  <2>1. CASE TaskOf(e) \in DOMAIN tasks
    <3>1. b \in Task
      BY <2>1 DEF TaskMap
    <3>2. o = [b EXCEPT !.updated_at = e.ts]
      BY <2>1 DEF Opened
    <3> HIDE DEF o, b
    <3> QED BY <1>1, <2>1, <3>1, <3>2 DEF Task
  <2>2. CASE TaskOf(e) \notin DOMAIN tasks
    <3>1. o = [status |-> "active", opened_by |-> e.id, closed_by |-> NONE,
               created_at |-> e.ts, updated_at |-> e.ts]
      BY <2>2 DEF Opened
    <3> HIDE DEF o
    <3> QED BY <1>1, <2>2, <3>1 DEF Task
  <2> QED BY <2>1, <2>2
<1>3. Touched(tasks, e) = IF Closes(e) THEN [o EXCEPT !.status = "done", !.closed_by = e.id,
                                                      !.updated_at = e.ts] ELSE o
  BY DEF Touched
<1> HIDE DEF o, b
<1>4. CASE Closes(e)
  BY <1>1, <1>2, <1>3, <1>4 DEF Task, b
<1>5. CASE ~Closes(e)
  BY <1>2, <1>3, <1>5 DEF b
<1> QED BY <1>4, <1>5

(* ts is us with the row e, an exit, folded as well: they differ in the    *)
(* task of e, which may be done in both; if another row opened it, the two *)
(* differ in its last update, until a later row names it.                  *)
TaskTwin(ts, us, e, late) ==
  LET t == e.command
  IN  /\ DOMAIN ts = DOMAIN us \cup {t}
      /\ \A u \in DOMAIN us : u # t => us[u] = ts[u]
      /\ ts[t].status = "done" <=> t \in DOMAIN us /\ us[t].status = "done"
      /\ ts[t].opened_by # e.id =>
           /\ t \in DOMAIN us
           /\ ts[t].status = us[t].status /\ ts[t].opened_by = us[t].opened_by
           /\ ts[t].closed_by = us[t].closed_by /\ ts[t].created_at = us[t].created_at
           /\ late => ts[t].updated_at = us[t].updated_at

LEMMA TaskTwinStarts ==
  ASSUME NEW us, TaskMap(us), NEW e \in ShellEvent, Folds(e)
  PROVE  TaskTwin(FoldTasks(us, e), us, e, FALSE)
<1> DEFINE ts == FoldTasks(us, e)
<1>1. TaskOf(e) = e.command /\ ~Closes(e)
  BY DEF ShellEvent, ShellRow, TaskOf, Closes
<1>2. /\ DOMAIN ts = DOMAIN us \cup {e.command}
      /\ \A t \in DOMAIN us : t # e.command => ts[t] = us[t]
      /\ ts[e.command] = Touched(us, e)
  BY <1>1, FoldTasksEffect
<1> HIDE DEF ts
<1> QED BY <1>1, <1>2, TouchedFields DEF TaskTwin, ts

LEMMA TaskTwinStep ==
  ASSUME NEW ts, TaskMap(ts), NEW us, TaskMap(us), NEW e, NEW g \in ShellEvent \cup Pending,
         Folds(g), NEW late, NEW later, TaskTwin(ts, us, e, late),
         later => late \/ TaskOf(g) = e.command
  PROVE  TaskTwin(FoldTasks(ts, g), FoldTasks(us, g), e, later)
<1> DEFINE tt == FoldTasks(ts, g)
           uu == FoldTasks(us, g)
           t  == TaskOf(g)
<1>1. /\ DOMAIN tt = DOMAIN ts \cup {t}
      /\ \A u \in DOMAIN ts : u # t => tt[u] = ts[u]
      /\ tt[t] = Touched(ts, g)
  BY FoldTasksEffect
<1>2. /\ DOMAIN uu = DOMAIN us \cup {t}
      /\ \A u \in DOMAIN us : u # t => uu[u] = us[u]
      /\ uu[t] = Touched(us, g)
  BY FoldTasksEffect
<1> HIDE DEF tt, uu
<1>3. CASE t = e.command
  <2>1. t \in DOMAIN ts
    BY <1>3 DEF TaskTwin
  <2>2. /\ tt[t].updated_at = g.ts
        /\ tt[t].status = IF Closes(g) THEN "done" ELSE ts[t].status
        /\ tt[t].opened_by = ts[t].opened_by /\ tt[t].created_at = ts[t].created_at
        /\ tt[t].closed_by = IF Closes(g) THEN g.id ELSE ts[t].closed_by
    BY <1>1, <2>1, TouchedFields
  <2>3. /\ uu[t].updated_at = g.ts
        /\ uu[t].status = IF Closes(g) THEN "done"
                          ELSE IF t \in DOMAIN us THEN us[t].status ELSE "active"
        /\ t \in DOMAIN us =>
             /\ uu[t].opened_by = us[t].opened_by /\ uu[t].created_at = us[t].created_at
             /\ uu[t].closed_by = IF Closes(g) THEN g.id ELSE us[t].closed_by
    BY <1>2, TouchedFields
  <2> HIDE DEF t
  <2> QED BY <1>1, <1>2, <1>3, <2>2, <2>3 DEF TaskTwin, tt, uu
<1>4. CASE t # e.command
  <2>1. \A u \in DOMAIN uu : u # e.command => uu[u] = tt[u]
    <3>1. CASE t \in DOMAIN us
      <4>1. us[t] = ts[t] /\ t \in DOMAIN ts
        BY <1>4, <3>1 DEF TaskTwin
      <4>2. Touched(ts, g) = Touched(us, g)
        BY <3>1, <4>1 DEF Touched, Opened
      <4> QED BY <1>1, <1>2, <4>2 DEF TaskTwin
    <3>2. CASE t \notin DOMAIN us
      <4>1. t \notin DOMAIN ts
        BY <1>4, <3>2 DEF TaskTwin
      <4>2. Touched(ts, g) = Touched(us, g)
        BY <3>2, <4>1 DEF Touched, Opened
      <4> QED BY <1>1, <1>2, <4>2 DEF TaskTwin
    <3> QED BY <3>1, <3>2
  <2>2. e.command \in DOMAIN ts /\ tt[e.command] = ts[e.command]
    BY <1>1, <1>4 DEF TaskTwin
  <2>3. e.command \in DOMAIN us => uu[e.command] = us[e.command]
    BY <1>2, <1>4
  <2>4. e.command \in DOMAIN uu <=> e.command \in DOMAIN us
    BY <1>2, <1>4
  <2>5. DOMAIN tt = DOMAIN uu \cup {e.command}
    BY <1>1, <1>2 DEF TaskTwin
  <2> QED BY <1>4, <2>1, <2>2, <2>3, <2>4, <2>5 DEF TaskTwin, tt, uu
<1> QED BY <1>3, <1>4

-----------------------------------------------------------------------------
(* The views that rows come to.                                            *)

(* What validation keeps out of the log: no authored row aims at the       *)
(* reality of a command, nor is one itself.                                *)
RowOk(e) == e.source = "claim" =>
  /\ Target(e.body) # NONE => Target(e.body)[1] # "reality"
  /\ e.body.kind = "reality" => e.body.subject \notin Command
FoldRow == {e \in ShellEvent \cup Pending : RowOk(e)}

Foldable(rows) ==
  /\ rows \subseteq FoldRow /\ Stamped(rows)
  /\ \A e \in rows : Folds(e)
  /\ \A e, f \in rows : e.id = f.id => e = f

(* Every claim was asserted by a row that was folded.                      *)
Born(c, R) == \A i \in DOMAIN c : \E e \in R : i \in Asserts(e)

(* The newest exit of a command is its current reality.                    *)
NewestIn(R, e) == \A f \in R : f.source = "shell" /\ f.command = e.command => f.ts <= e.ts
NewestStands(c, R) ==
  \A e \in R : e.source = "shell" /\ NewestIn(R, e) =>
    <<"reality", e.id>> \in Current(c) /\ RealityOf(e, c[<<"reality", e.id>>])

Sound(view, R) ==
  /\ TaskMap(view.tasks) /\ ClaimMap(view.claims)
  /\ SlotUnique(view.claims) /\ ByRule(view.claims)
  /\ Born(view.claims, R) /\ NewestStands(view.claims, R)

(* The ids of the claims a row asserts name the row.                       *)
LEMMA AssertsName ==
  ASSUME NEW e \in FoldRow, NEW i \in Asserts(e)
  PROVE  i \in {<<"reality", e.id>>, <<"frontier", e.id>>, <<"authored", e.id>>}
         /\ (e.source = "claim" => i = <<"authored", e.id>>)
<1>1. CASE e \in ShellEvent
  BY <1>1 DEF ShellEvent, ShellRow, Asserts
<1>2. CASE e \in Pending
  <2>1. e.source = "claim" /\ e.body \in ClaimEvent
    BY <1>2 DEF Pending, ClaimRow
  <2>2. e.body.text # NONE /\ i = e.body.claim_id
    BY <2>1 DEF Asserts
  <2>3. e.body.op = "assert"
    BY <1>2, <2>2 DEF Pending
  <2> QED BY <1>2, <2>2, <2>3 DEF Pending
<1> QED BY <1>1, <1>2 DEF FoldRow

LEMMA RuleOfRow ==
  ASSUME NEW e \in FoldRow, NEW i \in Asserts(e), NEW a, Describes(e, i, a)
  PROVE  Rule(i, a)
<1>1. CASE e.source = "shell" /\ i = <<"reality", e.id>> /\ RealityOf(e, a)
  BY <1>1 DEF RealityOf, Rule
<1>2. CASE e.source = "shell" /\ i = <<"frontier", e.id>> /\ FrontierOf(e, a)
  BY <1>2 DEF FrontierOf, Rule
<1>3. CASE e.source = "claim" /\ i = e.body.claim_id /\ AuthoredOf(e, a)
  <2>1. e \in Pending
    BY <1>3 DEF FoldRow, ShellEvent, ShellRow
  <2>2. e.body.origin # "projector"
    BY <2>1 DEF Pending, ClaimRow, ClaimEvent
  <2>3. i[1] = "authored"
    BY <1>3, AssertsName
  <2> QED BY <1>3, <2>2, <2>3 DEF AuthoredOf, Rule, FoldRow, RowOk
<1> QED BY <1>1, <1>2, <1>3 DEF Describes

LEMMA ByRuleStep ==
  ASSUME NEW c, ByRule(c), NEW e \in FoldRow, NEW d, FoldEffect(c, d, e)
  PROVE  ByRule(d)
<1>1. PICK A, R : /\ Step(c, d, A, R) /\ A \subseteq Asserts(e)
                  /\ \A i \in A : Describes(e, i, d[i])
  BY DEF FoldEffect
<1>2. SUFFICES ASSUME NEW i \in DOMAIN d PROVE Rule(i, d[i])
  BY DEF ByRule
<1>3. CASE i \in A
  BY <1>1, <1>3, RuleOfRow
<1>4. CASE i \notin A
  <2>1. i \in DOMAIN c /\ Same(d[i], c[i])
    BY <1>1, <1>4 DEF Step
  <2> QED BY <2>1 DEF ByRule, Rule, Same
<1> QED BY <1>3, <1>4

LEMMA BornStep ==
  ASSUME NEW c, NEW R, Born(c, R), NEW e, NEW d, FoldEffect(c, d, e)
  PROVE  Born(d, R \cup {e})
BY DEF FoldEffect, Step, Born

(* A later row leaves the newest exit of another command alone.            *)
LEMMA NewestStep ==
  ASSUME NEW rows, Foldable(rows), NEW R \in SUBSET rows, NEW g \in rows, g \notin R,
         \A f \in R : f.ts <= g.ts,
         NEW c, NewestStands(c, R), NEW d, FoldEffect(c, d, g)
  PROVE  NewestStands(d, R \cup {g})
<1>1. PICK A, Q : /\ Step(c, d, A, Q) /\ A \subseteq Asserts(g)
                  /\ g.source = "shell" => <<"reality", g.id>> \in A
                  /\ \A i \in A : Describes(g, i, d[i]) /\ d[i].status = "current"
                  /\ \A j \in (DOMAIN c \ A) \cap Q : Caused(c, g, j)
  BY DEF FoldEffect
<1>2. SUFFICES ASSUME NEW e \in R \cup {g}, e.source = "shell", NewestIn(R \cup {g}, e)
               PROVE  /\ <<"reality", e.id>> \in Current(d)
                      /\ RealityOf(e, d[<<"reality", e.id>>])
  BY DEF NewestStands
<1> DEFINE k == <<"reality", e.id>>
<1>3. CASE e = g
  <2>1. k \in A /\ k \in DOMAIN d /\ d[k].status = "current" /\ Describes(e, k, d[k])
    BY <1>1, <1>2, <1>3 DEF Step
  <2>2. RealityOf(e, d[k])
    BY <1>2, <2>1 DEF Describes
  <2> QED BY <2>1, <2>2 DEF Current
<1>4. CASE e # g
  <2>1. e \in R /\ NewestIn(R, e) /\ e \in rows /\ e \in FoldRow /\ g \in FoldRow
    BY <1>2, <1>4 DEF NewestIn, Foldable
  <2>2. k \in DOMAIN c /\ c[k].status = "current" /\ RealityOf(e, c[k])
    BY <1>2, <2>1 DEF NewestStands, Current
  <2>3. e.id # g.id /\ e.ts # g.ts /\ e.ts <= g.ts /\ e.ts \in Nat /\ g.ts \in Nat
    BY <1>4, <2>1 DEF Foldable, Stamped
  <2>4. k \notin A
    <3>1. SUFFICES ASSUME k \in Asserts(g) PROVE FALSE
      BY <1>1
    <3>2. k \in {<<"reality", g.id>>, <<"frontier", g.id>>, <<"authored", g.id>>}
      BY <2>1, <3>1, AssertsName
    <3> QED BY <2>3, <3>2
  <2>5. ~Caused(c, g, k)
    <3>1. g.source = "shell" => c[k].task_id # g.command
      <4>1. g.source = "shell" => g.command # e.command
        BY <1>2, <2>3 DEF NewestIn
      <4> QED BY <2>2, <4>1 DEF RealityOf
    <3>2. g.source = "claim" => Target(g.body) # k
      <4>1. k # NONE
        <5>1. k \in ClaimId
          BY <1>2, <2>1 DEF FoldRow, ShellEvent, ShellRow, Pending, ClaimRow, ClaimId
        <5> QED BY <5>1, NoneIsNoClaim
      <4> QED BY <2>1, <4>1 DEF FoldRow, RowOk
    <3>3. e.command \in Command
      BY <1>2, <2>1 DEF FoldRow, ShellEvent, ShellRow, Pending, ClaimRow
    <3>4. g.source = "claim" => ~(g.body.kind = "reality" /\ g.body.subject = e.command)
      BY <2>1, <3>3 DEF FoldRow, RowOk
    <3> QED BY <2>2, <3>1, <3>2, <3>4 DEF Caused, RealityOf
  <2>6. k \notin Q
    BY <1>1, <2>2, <2>4, <2>5
  <2>7. k \in DOMAIN d /\ Same(d[k], c[k]) /\ d[k].status = "current"
    BY <1>1, <2>2, <2>4, <2>6 DEF Step
  <2> QED BY <2>2, <2>7 DEF Current, RealityOf, Same
<1> QED BY <1>3, <1>4

LEMMA SoundViews ==
  ASSUME NEW rows, Foldable(rows), NEW n \in Nat, \A e \in rows : e.ts < n,
         NEW R \in SUBSET rows
  PROVE  Sound(ViewsOf(rows)[R], R)
<1> DEFINE G == {S \in SUBSET rows : Sound(ViewsOf(rows)[S], S)}
<1>1. Stamped(rows)
  BY DEF Foldable
<1>2. {} \in G
  <2>1. ViewsOf(rows)[{}] = [tasks |-> Empty, claims |-> Empty]
    BY <1>1, ViewOfNone
  <2>2. Sound([tasks |-> Empty, claims |-> Empty], {})
    BY EmptyMaps DEF Sound, ByRule, Born, NewestStands, Empty
  <2> QED BY <2>1, <2>2
<1>3. ASSUME NEW S \in SUBSET rows, NEW e \in rows, S \in G, e \notin S, \A f \in S : f.ts <= e.ts
      PROVE  S \cup {e} \in G
  <2> DEFINE v == ViewsOf(rows)[S]
             w == ViewsOf(rows)[S \cup {e}]
  <2>1. w = Grown(v, e)
    BY <1>1, <1>3, GrownView
  <2>2. Sound(v, S)
    BY <1>3
  <2> HIDE DEF v, w
  <2>3. w.tasks = FoldTasks(v.tasks, e) /\ w.claims = FoldClaims(v.claims, e)
    BY <2>1 DEF Grown
  <2>4. e \in FoldRow /\ e \in ShellEvent \cup Pending /\ Folds(e)
    BY DEF Foldable, FoldRow
  <2>5. FoldEffect(v.claims, w.claims, e)
    BY <2>2, <2>3, <2>4, FoldClaimsEffect DEF Sound
  <2>6. TaskMap(w.tasks)
    BY <2>2, <2>3, <2>4, FoldTasksType DEF Sound
  <2>7. ClaimMap(w.claims) /\ SlotUnique(w.claims)
    BY <2>2, <2>5 DEF FoldEffect, Sound
  <2>8. ByRule(w.claims)
    BY <2>2, <2>4, <2>5, ByRuleStep DEF Sound
  <2>9. Born(w.claims, S \cup {e})
    BY <2>2, <2>5, BornStep DEF Sound
  <2>10. NewestStands(w.claims, S \cup {e})
    BY <1>3, <2>2, <2>5, NewestStep DEF Sound
  <2>11. Sound(w, S \cup {e})
    BY <2>6, <2>7, <2>8, <2>9, <2>10 DEF Sound
  <2> QED BY <1>3, <2>11 DEF w
<1> HIDE DEF G
<1>4. SUBSET rows \subseteq G
  BY <1>1, <1>2, <1>3, FoldInduction
<1> QED BY <1>4 DEF G

LEMMA FreshRow ==
  ASSUME NEW rows, Foldable(rows), NEW R \in SUBSET rows, NEW e \in rows, e \notin R,
         NEW c, Born(c, R)
  PROVE  Fresh(c, e)
<1>1. SUFFICES ASSUME NEW i \in {<<"reality", e.id>>, <<"frontier", e.id>>}, i \in DOMAIN c
               PROVE  FALSE
  BY DEF Fresh
<1>2. PICK g \in R : i \in Asserts(g)
  BY <1>1 DEF Born
<1>3. g \in FoldRow /\ g.id # e.id
  BY DEF Foldable
<1>4. i \in {<<"reality", g.id>>, <<"frontier", g.id>>, <<"authored", g.id>>}
  BY <1>2, <1>3, AssertsName
<1> QED BY <1>1, <1>3, <1>4

-----------------------------------------------------------------------------
(* The rows without one of them, an exit of which nothing is in force.     *)

Late(R, e) == \E f \in R : f.source = "shell" /\ f.command = e.command /\ e.ts < f.ts
Differ(R, e) == IF Late(R, e) THEN {} ELSE {e.command}

Twin(rows, R, e) ==
  LET v == ViewsOf(rows)[R]
      w == ViewsOf(rows)[R \ {e}]
  IN  /\ TaskTwin(v.tasks, w.tasks, e, Late(R, e))
      /\ Agree(v.claims, w.claims, Differ(R, e))

(* The views before the row are the same, and it changes no more than what *)
(* the projector says of its command.                                      *)
LEMMA TwinStarts ==
  ASSUME NEW rows, Foldable(rows), NEW n \in Nat, \A f \in rows : f.ts < n,
         NEW R \in SUBSET rows, NEW e \in rows, e \notin R, e.source = "shell",
         \A f \in R : f.ts <= e.ts
  PROVE  Twin(rows, R \cup {e}, e)
<1> DEFINE v == ViewsOf(rows)[R \cup {e}]
           w == ViewsOf(rows)[R]
<1>1. v = Grown(w, e) /\ Sound(w, R)
  BY GrownView, SoundViews DEF Foldable
<1>2. (R \cup {e}) \ {e} = R
  OBVIOUS
<1> HIDE DEF v, w
<1>3. v.tasks = FoldTasks(w.tasks, e) /\ v.claims = FoldClaims(w.claims, e)
  BY <1>1 DEF Grown
<1>4. e \in ShellEvent /\ Folds(e) /\ e \in ShellRow /\ e.exit_code # NONE
  BY DEF Foldable, FoldRow, Pending, ClaimRow, ShellEvent, Folds
<1>5. ~Late(R \cup {e}, e)
  BY DEF Late, Foldable, Stamped
<1>6. TaskTwin(v.tasks, w.tasks, e, FALSE)
  BY <1>1, <1>3, <1>4, TaskTwinStarts DEF Sound
<1>7. Agree(v.claims, w.claims, {e.command})
  <2>1. v.claims = FoldShell(w.claims, e)
    BY <1>3, <1>4 DEF FoldClaims
  <2>2. Fresh(w.claims, e)
    BY <1>1, FreshRow DEF Sound
  <2>3. ShellEffect(w.claims, v.claims, e)
    BY <1>1, <1>4, <2>1, <2>2, ShellCurrent DEF Sound
  <2> QED BY <1>1, <1>4, <2>3, ShellHides DEF Sound
<1>8. Late(R \cup {e}, e) = FALSE
  BY <1>5
<1>9. TaskTwin(v.tasks, w.tasks, e, Late(R \cup {e}, e))
  BY <1>6, <1>8
<1> QED BY <1>2, <1>5, <1>7, <1>9 DEF Twin, Differ, v, w

(* A later row changes both in the same way.                               *)
LEMMA TwinStep ==
  ASSUME NEW rows, Foldable(rows), NEW n \in Nat, \A f \in rows : f.ts < n,
         NEW R \in SUBSET rows, NEW e \in R, e.source = "shell", Twin(rows, R, e),
         NEW g \in rows, g \notin R, \A f \in R : f.ts <= g.ts
  PROVE  Twin(rows, R \cup {g}, e)
<1> DEFINE Q  == R \ {e}
           v  == ViewsOf(rows)[R]
           w  == ViewsOf(rows)[Q]
           vv == ViewsOf(rows)[R \cup {g}]
           ww == ViewsOf(rows)[Q \cup {g}]
           S  == R \cup {g}
<1>1. Stamped(rows)
  BY DEF Foldable
<1>2. vv = Grown(v, g) /\ ww = Grown(w, g)
  BY <1>1, GrownView
<1>3. Sound(v, R) /\ Sound(w, Q)
  BY SoundViews
<1>4. (R \cup {g}) \ {e} = Q \cup {g}
  OBVIOUS
<1>5. TaskTwin(v.tasks, w.tasks, e, Late(R, e)) /\ Agree(v.claims, w.claims, Differ(R, e))
  BY DEF Twin
<1>6. Fresh(v.claims, g) /\ Fresh(w.claims, g)
  BY <1>3, FreshRow DEF Sound
<1>7. Q \subseteq R
  OBVIOUS
<1> HIDE DEF v, w, vv, ww, Q
<1>8. /\ vv.tasks = FoldTasks(v.tasks, g) /\ vv.claims = FoldClaims(v.claims, g)
      /\ ww.tasks = FoldTasks(w.tasks, g) /\ ww.claims = FoldClaims(w.claims, g)
  BY <1>2 DEF Grown
<1>9. g \in FoldRow /\ g \in ShellEvent \cup Pending /\ Folds(g)
  BY DEF Foldable, FoldRow
<1>10. e.ts < g.ts
  BY <1>1 DEF Stamped
<1>11. Late(S, e) <=> Late(R, e) \/ (g.source = "shell" /\ g.command = e.command)
  BY <1>10 DEF Late
<1>12. TaskTwin(vv.tasks, ww.tasks, e, Late(S, e))
  <2>1. Late(S, e) => Late(R, e) \/ TaskOf(g) = e.command
    BY <1>11 DEF TaskOf
  <2> QED BY <1>3, <1>5, <1>8, <1>9, <2>1, TaskTwinStep DEF Sound
<1>13. Agree(vv.claims, ww.claims, Differ(S, e))
  <2>1. CASE g \in ShellEvent
    <3>1. g \in ShellRow /\ g.source = "shell" /\ g.exit_code # NONE
      BY <1>9, <2>1 DEF ShellEvent, ShellRow, Folds
    <3>2. vv.claims = FoldShell(v.claims, g) /\ ww.claims = FoldShell(w.claims, g)
      BY <1>8, <1>9, <3>1 DEF FoldClaims
    <3>3. ShellEffect(v.claims, vv.claims, g) /\ ShellEffect(w.claims, ww.claims, g)
      BY <1>3, <1>6, <3>1, <3>2, ShellCurrent DEF Sound
    <3>4. CASE ~Late(R, e) /\ g.command = e.command
      <4>1. Differ(R, e) = {g.command} /\ Differ(S, e) = {}
        BY <1>11, <3>1, <3>4 DEF Differ
      <4>2. Agree(v.claims, w.claims, {g.command}) /\ ByRule(v.claims) /\ ByRule(w.claims)
        BY <1>3, <1>5, <4>1 DEF Sound
      <4>3. Agree(vv.claims, ww.claims, {})
        BY <3>3, <4>2, ShellReveals
      <4> QED BY <4>1, <4>3
    <3>5. CASE ~(~Late(R, e) /\ g.command = e.command)
      <4>1. Differ(S, e) = Differ(R, e)
        BY <1>11, <3>1, <3>5 DEF Differ
      <4> QED BY <1>5, <3>3, <4>1, ShellAgree
    <3> QED BY <3>4, <3>5
  <2>2. CASE g \in Pending
    <3>1. g.source = "claim"
      BY <2>2 DEF Pending, ClaimRow
    <3>2. vv.claims = FoldClaim(v.claims, g) /\ ww.claims = FoldClaim(w.claims, g)
      BY <1>8, <1>9, <3>1 DEF FoldClaims
    <3>3. ClaimEffect(v.claims, vv.claims, g) /\ ClaimEffect(w.claims, ww.claims, g)
      BY <1>3, <2>2, <3>2, ClaimCurrent DEF Sound
    <3>4. Differ(S, e) = Differ(R, e)
      BY <1>11, <3>1 DEF Differ
    <3> QED BY <1>5, <2>2, <3>3, <3>4, ClaimAgree
  <2> QED BY <1>9, <2>1, <2>2
<1> QED BY <1>4, <1>12, <1>13 DEF Twin, v, w, vv, ww, Q

LEMMA Twins ==
  ASSUME NEW rows, Foldable(rows), NEW n \in Nat, \A f \in rows : f.ts < n,
         NEW e \in rows, e.source = "shell"
  PROVE  Twin(rows, rows, e)
<1> DEFINE G == {R \in SUBSET rows : e \in R => Twin(rows, R, e)}
<1>1. Stamped(rows)
  BY DEF Foldable
<1>2. {} \in G
  OBVIOUS
<1>3. ASSUME NEW R \in SUBSET rows, NEW g \in rows, R \in G, g \notin R, \A f \in R : f.ts <= g.ts
      PROVE  R \cup {g} \in G
  <2>1. CASE g = e
    BY <1>3, <2>1, TwinStarts
  <2>2. CASE g # e /\ e \in R
    BY <1>3, <2>2, TwinStep
  <2>3. CASE g # e /\ e \notin R
    BY <1>3, <2>3
  <2> QED BY <2>1, <2>2, <2>3
<1> HIDE DEF G
<1>4. SUBSET rows \subseteq G
  BY <1>1, <1>2, <1>3, FoldInduction
<1> QED BY <1>4 DEF G

-----------------------------------------------------------------------------
(* What is in force, and what removing such a row does to it: nothing.     *)

LEMMA StrippedAlike ==
  ASSUME NEW a \in Claim, NEW b \in Claim
  PROVE  [a EXCEPT !.supersedes = NONE] = [b EXCEPT !.supersedes = NONE] <=> Alike(a, b)
<1> DEFINE aa == [a EXCEPT !.supersedes = NONE]
           bb == [b EXCEPT !.supersedes = NONE]
<1>1. /\ aa = [task_id |-> a.task_id, kind |-> a.kind, subject |-> a.subject,
               status |-> a.status, confidence |-> a.confidence, origin |-> a.origin,
               text |-> a.text, outcome |-> a.outcome, evidence |-> a.evidence,
               supersedes |-> NONE, updated_at |-> a.updated_at]
      /\ bb = [task_id |-> b.task_id, kind |-> b.kind, subject |-> b.subject,
               status |-> b.status, confidence |-> b.confidence, origin |-> b.origin,
               text |-> b.text, outcome |-> b.outcome, evidence |-> b.evidence,
               supersedes |-> NONE, updated_at |-> b.updated_at]
  BY DEF Claim
<1> HIDE DEF aa, bb
<1>2. aa = bb => Alike(a, b)
  BY <1>1 DEF Alike, Same
<1>3. Alike(a, b) => aa = bb
  BY <1>1 DEF Alike, Same
<1> QED BY <1>2, <1>3 DEF aa, bb

LEMMA InForceClaimsAlike ==
  ASSUME NEW c, ClaimMap(c), NEW d, ClaimMap(d)
  PROVE  InForceClaims(c) = InForceClaims(d) <=> Agree(c, d, {})
<1> DEFINE C == InForceClaims(c)
           D == InForceClaims(d)
<1>1. /\ C = [i \in Current(c) |-> [c[i] EXCEPT !.supersedes = NONE]]
      /\ D = [i \in Current(d) |-> [d[i] EXCEPT !.supersedes = NONE]]
  BY DEF InForceClaims, Current
<1>2. Agree(c, d, {}) <=>
        Current(c) = Current(d) /\ \A i \in Current(c) : Alike(c[i], d[i])
  BY DEF Agree, Seen
<1>3. \A i \in Current(c) \cap Current(d) :
        [c[i] EXCEPT !.supersedes = NONE] = [d[i] EXCEPT !.supersedes = NONE]
          <=> Alike(c[i], d[i])
  BY StrippedAlike DEF Current, ClaimMap
<1> HIDE DEF C, D
<1>4. ASSUME C = D PROVE Agree(c, d, {})
  <2>1. Current(c) = Current(d)
    BY <1>1, <1>4
  <2>2. \A i \in Current(c) : C[i] = D[i]
    BY <1>4
  <2> QED BY <1>1, <1>2, <1>3, <2>1, <2>2
<1>5. ASSUME Agree(c, d, {}) PROVE C = D
  BY <1>1, <1>2, <1>3, <1>5
<1> QED BY <1>4, <1>5 DEF C, D

Active(tasks) == {t \in DOMAIN tasks : tasks[t].status = "active"}

LEMMA InForceTasksAlike ==
  ASSUME NEW a, NEW b
  PROVE  InForceTasks(a) = InForceTasks(b) <=>
           Active(a) = Active(b) /\ \A t \in Active(a) : a[t] = b[t]
<1> DEFINE A == InForceTasks(a)
           B == InForceTasks(b)
<1>1. A = [t \in Active(a) |-> a[t]] /\ B = [t \in Active(b) |-> b[t]]
  BY DEF InForceTasks, Active
<1> HIDE DEF A, B
<1>2. ASSUME A = B PROVE Active(a) = Active(b) /\ \A t \in Active(a) : a[t] = b[t]
  <2>1. Active(a) = Active(b)
    BY <1>1, <1>2
  <2>2. \A t \in Active(a) : A[t] = B[t]
    BY <1>2
  <2> QED BY <1>1, <2>1, <2>2
<1>3. ASSUME Active(a) = Active(b), \A t \in Active(a) : a[t] = b[t] PROVE A = B
  BY <1>1, <1>3
<1> QED BY <1>2, <1>3 DEF A, B

(* The focal task is read from what is in force.                           *)
LEMMA SameFocus ==
  ASSUME NEW a, NEW b, NEW c, NEW d, ClaimMap(c), ClaimMap(d),
         InForceTasks(a) = InForceTasks(b), InForceClaims(c) = InForceClaims(d)
  PROVE  FocalTask(a, c) = FocalTask(b, d)
<1> DEFINE Failing(ts, cs) == {t \in Active(ts) : HasFailingReality(cs, t)}
           Intents(ts, cs) == {i \in Current(cs) : /\ cs[i].kind = "intent"
                                                   /\ cs[i].origin = "user"
                                                   /\ cs[i].task_id \in Active(ts)}
           Eldest(ts, cs)  == {t \in Failing(ts, cs) : \A u \in Failing(ts, cs) :
                                ts[t].created_at <= ts[u].created_at}
           Newest(ts, cs)  == {cs[i].task_id : i \in
                                {i \in Intents(ts, cs) : \A j \in Intents(ts, cs) :
                                   cs[j].updated_at <= cs[i].updated_at}}
<1>1. /\ Active(a) = Active(b) /\ \A t \in Active(a) : a[t] = b[t]
      /\ Current(c) = Current(d) /\ \A i \in Current(c) : Alike(c[i], d[i])
  <2>1. Agree(c, d, {})
    BY InForceClaimsAlike
  <2> QED BY <2>1, InForceTasksAlike DEF Agree, Seen
<1>2. \A t : HasFailingReality(c, t) <=> HasFailingReality(d, t)
  <2>1. \A t : HasFailingReality(c, t) <=>
          \E i \in Current(c) : /\ c[i].task_id = t /\ c[i].kind = "reality"
                                /\ c[i].outcome \notin {NONE, 0}
    BY DEF HasFailingReality, Current
  <2>2. \A t : HasFailingReality(d, t) <=>
          \E i \in Current(d) : /\ d[i].task_id = t /\ d[i].kind = "reality"
                                /\ d[i].outcome \notin {NONE, 0}
    BY DEF HasFailingReality, Current
  <2> QED BY <1>1, <2>1, <2>2 DEF Alike, Same
<1>3. Failing(a, c) = Failing(b, d) /\ Failing(a, c) \subseteq Active(a)
  BY <1>1, <1>2
<1>4. Intents(a, c) = Intents(b, d) /\ Intents(a, c) \subseteq Current(c)
  BY <1>1 DEF Alike, Same
<1>5. /\ FocalTask(a, c) = IF Eldest(a, c) # {} THEN CHOOSE t \in Eldest(a, c) : TRUE
                           ELSE IF Newest(a, c) # {} THEN CHOOSE t \in Newest(a, c) : TRUE
                           ELSE NONE
      /\ FocalTask(b, d) = IF Eldest(b, d) # {} THEN CHOOSE t \in Eldest(b, d) : TRUE
                           ELSE IF Newest(b, d) # {} THEN CHOOSE t \in Newest(b, d) : TRUE
                           ELSE NONE
  <2>1. ASSUME NEW ts, NEW cs
        PROVE  FocalTask(ts, cs) =
                 IF Eldest(ts, cs) # {} THEN CHOOSE t \in Eldest(ts, cs) : TRUE
                 ELSE IF Newest(ts, cs) # {} THEN CHOOSE t \in Newest(ts, cs) : TRUE
                 ELSE NONE
    <3> DEFINE active  == {t \in DOMAIN ts : ts[t].status = "active"}
               failing == {t \in active : HasFailingReality(cs, t)}
               intents == {i \in DOMAIN cs : /\ cs[i].status = "current"
                                             /\ cs[i].kind = "intent"
                                             /\ cs[i].origin = "user"
                                             /\ cs[i].task_id \in active}
               oldest  == {t \in failing : \A u \in failing :
                             ts[t].created_at <= ts[u].created_at}
               newest  == {cs[i].task_id : i \in {i \in intents : \A j \in intents :
                             cs[j].updated_at <= cs[i].updated_at}}
    <3>1. FocalTask(ts, cs) = IF oldest # {} THEN CHOOSE t \in oldest : TRUE
                              ELSE IF newest # {} THEN CHOOSE t \in newest : TRUE
                              ELSE NONE
      BY DEF FocalTask
    <3>2. active = Active(ts)
      BY DEF Active
    <3> HIDE DEF active
    <3>3. failing = Failing(ts, cs) /\ intents = Intents(ts, cs)
      BY <3>2 DEF Current
    <3> HIDE DEF failing, intents, Failing, Intents
    <3>4. oldest = Eldest(ts, cs) /\ newest = Newest(ts, cs)
      BY <3>3
    <3> HIDE DEF oldest, newest, Eldest, Newest
    <3> QED BY <3>1, <3>4
  <2> QED BY <2>1
<1> HIDE DEF Failing, Intents
<1>6. Eldest(a, c) = Eldest(b, d)
  BY <1>1, <1>3
<1>7. Newest(a, c) = Newest(b, d)
  <2> DEFINE I == {i \in Intents(a, c) : \A j \in Intents(a, c) :
                     c[j].updated_at <= c[i].updated_at}
             J == {i \in Intents(b, d) : \A j \in Intents(b, d) :
                     d[j].updated_at <= d[i].updated_at}
  <2>1. \A i \in Intents(a, c) : c[i].updated_at = d[i].updated_at /\ c[i].task_id = d[i].task_id
    BY <1>1, <1>4 DEF Alike, Same
  <2>2. I = J
    BY <1>4, <2>1
  <2>3. \A i \in I : c[i].task_id = d[i].task_id
    BY <2>1
  <2> HIDE DEF I, J
  <2>4. {c[i].task_id : i \in I} = {d[i].task_id : i \in J}
    BY <2>2, <2>3
  <2> QED BY <2>4 DEF I, J
<1> HIDE DEF Eldest, Newest
<1> QED BY <1>5, <1>6, <1>7

LEMMA TwinTasksInForce ==
  ASSUME NEW ts, TaskMap(ts), NEW us, TaskMap(us), NEW e, TaskTwin(ts, us, e, TRUE),
         \A t \in Active(ts) : ts[t].opened_by # e.id
  PROVE  InForceTasks(ts) = InForceTasks(us)
<1>1. \A t \in DOMAIN us : us[t] \in Task
  BY DEF TaskMap
<1>2. \A t \in DOMAIN ts : ts[t] \in Task
  BY DEF TaskMap
<1>3. \A t \in DOMAIN us : t # e.command => us[t] = ts[t] /\ t \in DOMAIN ts
  BY DEF TaskTwin
<1>4. ASSUME NEW t \in Active(ts), t = e.command PROVE t \in Active(us) /\ us[t] = ts[t]
  <2>1. t \in DOMAIN us /\ us[t] \in Task /\ ts[t] \in Task
    BY <1>1, <1>2, <1>4 DEF TaskTwin, Active
  <2>2. us[t] = ts[t]
    BY <1>4, <2>1 DEF TaskTwin, Task
  <2> QED BY <1>4, <2>1, <2>2 DEF Active
<1>5. ASSUME NEW t \in Active(us), t = e.command PROVE t \in Active(ts)
  <2>1. us[t].status # "done" /\ t \in DOMAIN ts
    BY <1>5 DEF Active, TaskTwin
  <2>2. ts[t].status # "done"
    BY <1>5, <2>1 DEF TaskTwin
  <2>3. ts[t].status \in {"active", "done"}
    BY <1>2, <2>1 DEF Task
  <2> QED BY <2>1, <2>2, <2>3 DEF Active
<1>6. DOMAIN ts = DOMAIN us \cup {e.command}
  BY DEF TaskTwin
<1>7. Active(ts) = Active(us) /\ \A t \in Active(ts) : ts[t] = us[t]
  BY <1>3, <1>4, <1>5, <1>6 DEF Active
<1> QED BY <1>7, InForceTasksAlike

(* Folding rows without one that opened no active task and is evidence of  *)
(* no current claim puts the same in force.                                *)
LEMMA RemovedExit ==
  ASSUME NEW rows, Foldable(rows), NEW n \in Nat, \A f \in rows : f.ts < n,
         NEW e \in rows, e.source = "shell",
         NEW v, v = ViewsOf(rows)[rows], NEW w, w = ViewsOf(rows)[rows \ {e}],
         \A t \in Active(v.tasks) : v.tasks[t].opened_by # e.id,
         \A i \in Current(v.claims) : e.id \notin v.claims[i].evidence
  PROVE  /\ InForceTasks(v.tasks) = InForceTasks(w.tasks)
         /\ InForceClaims(v.claims) = InForceClaims(w.claims)
<1>1. Sound(v, rows) /\ Sound(w, rows \ {e})
  BY SoundViews
<1>2. Late(rows, e)
  <2>1. ~NewestIn(rows, e)
    BY <1>1 DEF Sound, NewestStands, RealityOf
  <2>2. \A f \in rows : f.ts \in Nat
    BY DEF Foldable, Stamped
  <2> QED BY <2>1, <2>2 DEF NewestIn, Late
<1>3. Twin(rows, rows, e)
  BY Twins
<1>4. Agree(v.claims, w.claims, {})
  BY <1>2, <1>3 DEF Twin, Differ
<1>5. Late(rows, e) = TRUE
  BY <1>2
<1>6. TaskTwin(v.tasks, w.tasks, e, TRUE)
  <2>1. TaskTwin(v.tasks, w.tasks, e, Late(rows, e))
    BY <1>3 DEF Twin
  <2> QED BY <1>5, <2>1
<1>7. InForceTasks(v.tasks) = InForceTasks(w.tasks)
  BY <1>1, <1>6, TwinTasksInForce DEF Sound
<1>8. InForceClaims(v.claims) = InForceClaims(w.claims)
  BY <1>1, <1>4, InForceClaimsAlike DEF Sound
<1> QED BY <1>7, <1>8

LEMMA RemovedRow ==
  ASSUME NEW log, Foldable(Folding(log)), NEW n \in Nat, \A f \in Folding(log) : f.ts < n,
         NEW e \in log, Folds(e) => e.source = "shell",
         NEW v, v = FoldOf(log), NEW w, w = FoldOf(log \ {e}),
         \A t \in Active(v.tasks) : v.tasks[t].opened_by # e.id,
         \A i \in Current(v.claims) : e.id \notin v.claims[i].evidence
  PROVE  /\ InForceTasks(v.tasks) = InForceTasks(w.tasks)
         /\ InForceClaims(v.claims) = InForceClaims(w.claims)
<1> DEFINE rows == Folding(log)
<1>1. CASE ~Folds(e)
  <2>1. Folding(log \ {e}) = rows
    BY <1>1 DEF Folding
  <2>2. v = w
    BY <2>1 DEF FoldOf
  <2> QED BY <2>2
<1>2. CASE Folds(e)
  <2>1. Folding(log \ {e}) = rows \ {e} /\ e \in rows
    BY <1>2 DEF Folding
  <2>2. v = ViewsOf(rows)[rows]
    BY DEF FoldOf
  <2>3. w = ViewsOf(rows \ {e})[rows \ {e}]
    BY <2>1 DEF FoldOf
  <2>4. Stamped(rows)
    BY DEF Foldable
  <2> HIDE DEF rows
  <2>5. w = ViewsOf(rows)[rows \ {e}]
    BY <2>3, <2>4, ViewsLocal DEF rows
  <2> QED BY <1>2, <2>1, <2>2, <2>5, RemovedExit DEF rows
<1> QED BY <1>1, <1>2

-----------------------------------------------------------------------------
(* The second invariant.                                                   *)

(* A request whose row was compacted is lost to a rebuild: until one is.   *)
ClaimsReadable == \A x \in DOMAIN events : Readable(events[x])

(* The rows ever stored, and the entries of the log for some of them.      *)
Logged(rows, entries) ==
  /\ \A e \in rows : e.ts \in Stamp /\ (Folds(e) => e \in FoldRow)
  /\ \A e, f \in rows : e.id = f.id \/ e.ts = f.ts => e = f
  /\ \A x \in DOMAIN entries :
       /\ entries[x] \in [row : rows, analysed : BOOLEAN, enriched : BOOLEAN,
                          compacted : BOOLEAN]
       /\ entries[x].row.id = x
LogInv == Logged(stored, events)

TablesInv == TaskMap(taskTable) /\ ClaimMap(claimTable) /\ ByRule(claimTable)

(* What the pruner has still to delete was prunable, and still is: nothing *)
(* is appended before it has.                                              *)
PrunableInv ==
  /\ daemon = "down" => batch = {}
  /\ \A x \in batch \cap DOMAIN events :
       Quiet(events[x].row) /\ ~OpensActiveTask(x) /\ ~IsCurrentEvidence(x)

ViewInv == ClaimsReadable => PruningIsInvisible

PruneInv == LogInv /\ TablesInv /\ PrunableInv /\ ViewInv

LEMMA LoggedRowsFold ==
  ASSUME NEW rows, NEW entries, Logged(rows, entries)
  PROVE  LET folded == Folding(LogRows(entries)) IN
         /\ Foldable(folded)
         /\ LastStamp + 1 \in Nat /\ \A e \in folded : e.ts < LastStamp + 1
<1> DEFINE folded == Folding(LogRows(entries))
<1>1. LastStamp \in Nat
  BY RetentionAssumption
<1>2. \A e \in rows : e.ts \in Nat /\ e.ts <= LastStamp
  BY <1>1 DEF Logged, Stamp
<1>3. \A e, f \in rows : e.id = f.id \/ e.ts = f.ts => e = f
  BY DEF Logged
<1>4. LogRows(entries) \subseteq rows
  BY DEF Logged, LogRows
<1>5. \A e \in folded : e \in rows /\ Folds(e) /\ e \in FoldRow
  BY <1>4 DEF Logged, Folding
<1> HIDE DEF folded
<1>6. Stamped(folded)
  BY <1>2, <1>3, <1>5 DEF Stamped
<1>7. Foldable(folded)
  BY <1>3, <1>5, <1>6 DEF Foldable
<1> QED BY <1>1, <1>2, <1>5, <1>7 DEF folded

LEMMA ViewSound ==
  ASSUME NEW rows, NEW entries, Logged(rows, entries)
  PROVE  LET v == FoldOf(LogRows(entries)) IN
         TaskMap(v.tasks) /\ ClaimMap(v.claims) /\ ByRule(v.claims)
<1> DEFINE folded == Folding(LogRows(entries))
           v == FoldOf(LogRows(entries))
<1>1. Foldable(folded) /\ LastStamp + 1 \in Nat /\ \A e \in folded : e.ts < LastStamp + 1
  BY LoggedRowsFold
<1>2. v = ViewsOf(folded)[folded]
  BY DEF FoldOf
<1> HIDE DEF folded, v
<1>3. Sound(v, folded)
  BY <1>1, <1>2, SoundViews
<1> QED BY <1>3 DEF Sound, v

(* After a rebuild the tables are the view of the rows.                    *)
LEMMA RebuiltView ==
  ASSUME LogInv', taskTable' = FoldOf(LogRows(events')).tasks,
         claimTable' = FoldOf(LogRows(events')).claims
  PROVE  (TablesInv /\ ViewInv)'
<1>1. LET v == FoldOf(LogRows(events')) IN
      TaskMap(v.tasks) /\ ClaimMap(v.claims) /\ ByRule(v.claims)
  BY ViewSound DEF LogInv
<1> QED BY <1>1 DEF TablesInv, ViewInv, PruningIsInvisible

-----------------------------------------------------------------------------
(* Appends.                                                                *)

LEMMA InsertLog ==
  ASSUME LogInv, NEW row, Insert(row), row.ts \in Stamp, Folds(row) => row \in FoldRow
  PROVE  LogInv'
<1> DEFINE entry == [row |-> row, analysed |-> FALSE, enriched |-> FALSE,
                     compacted |-> FALSE]
           Entry == [row : stored', analysed : BOOLEAN, enriched : BOOLEAN,
                     compacted : BOOLEAN]
<1>1. /\ stored' = stored \cup {row}
      /\ \A e \in stored : e.id # row.id /\ e.ts # row.ts
      /\ events' = Put(events, row.id, entry)
  BY DEF Insert
<1>2. entry \in Entry /\ entry.row = row
  BY <1>1
<1>3. \A x \in DOMAIN events : events[x] \in Entry /\ events[x].row.id = x
  BY <1>1 DEF LogInv, Logged
<1> HIDE DEF entry, Entry
<1>4. /\ DOMAIN events' = DOMAIN events \cup {row.id} /\ events'[row.id] = entry
      /\ \A x \in DOMAIN events : x # row.id => events'[x] = events[x]
  BY <1>1 DEF Put
<1>5. \A x \in DOMAIN events' : events'[x] \in Entry /\ events'[x].row.id = x
  BY <1>2, <1>3, <1>4
<1>6. /\ \A e \in stored' : e.ts \in Stamp /\ (Folds(e) => e \in FoldRow)
      /\ \A e, f \in stored' : e.id = f.id \/ e.ts = f.ts => e = f
  BY <1>1 DEF LogInv, Logged
<1> QED BY <1>5, <1>6 DEF LogInv, Logged, Entry

LEMMA InsertPruneInv ==
  ASSUME IInv, PruneInv, NEW row, Insert(row), row.ts \in Stamp,
         Folds(row) => row \in FoldRow
  PROVE  PruneInv'
<1>1. LogInv'
  BY InsertLog DEF PruneInv
<1>2. batch = {} /\ batch' = {}
  BY WritersDiffer DEF IInv, LockInv, Insert
<1>3. PrunableInv'
  BY <1>2 DEF PrunableInv
<1>4. (TablesInv /\ ViewInv)'
  <2>1. CASE Folds(row)
    BY <1>1, <2>1, RebuiltView DEF Insert, Rebuild
  <2>2. CASE ~Folds(row)
    <3>1. taskTable' = taskTable /\ claimTable' = claimTable
      BY <2>2 DEF Insert
    <3>2. /\ DOMAIN events' = DOMAIN events \cup {row.id} /\ row.id \notin DOMAIN events
          /\ events'[row.id].row = row
          /\ \A x \in DOMAIN events : events'[x] = events[x]
      <4>1. \A e \in stored : e.id # row.id
        BY DEF Insert
      <4>2. row.id \notin DOMAIN events
        BY <4>1 DEF PruneInv, LogInv, Logged
      <4> QED BY <4>2 DEF Insert, Put
    <3>3. Folding(LogRows(events')) = Folding(LogRows(events))
      <4>1. ASSUME NEW e \in Folding(LogRows(events')) PROVE e \in Folding(LogRows(events))
        BY <2>2, <3>2, <4>1 DEF Folding, LogRows
      <4>2. ASSUME NEW e \in Folding(LogRows(events)) PROVE e \in Folding(LogRows(events'))
        BY <3>2, <4>2 DEF Folding, LogRows
      <4> QED BY <4>1, <4>2
    <3>4. ClaimsReadable' => ClaimsReadable
      BY <3>2 DEF ClaimsReadable
    <3>5. FoldOf(LogRows(events')) = FoldOf(LogRows(events))
      BY <3>3 DEF FoldOf
    <3> QED BY <3>1, <3>4, <3>5 DEF PruneInv, TablesInv, ViewInv, PruningIsInvisible
  <2> QED BY <2>1, <2>2
<1> QED BY <1>1, <1>3, <1>4 DEF PruneInv

(* What requests ask for is not about how a command exited.                *)
LEMMA BodySubject ==
  ASSUME NEW r \in Request, NEW i \in Input, NEW focal, NEW claims,
         Body(r, i, focal, claims) # NONE, Body(r, i, focal, claims).kind = "reality"
  PROVE  Body(r, i, focal, claims).subject \notin Command
<1> DEFINE b == Body(r, i, focal, claims)
<1>1. /\ i.ask \in [who : {"user"}, kind : UserKind, confidence : {"stated"}]
             \cup [who : {"agent"}, kind : ClaimKind, confidence : ClaimConfidence]
  BY RequestsAssumption DEF Input
<1>2. "reality" # NONE /\ <<"authored", r>> \notin Command
  BY RequestsAssumption, VocabularyAssumption DEF ClaimKind, ClaimId
<1>3. \/ b = UserRetraction(i, claims)
      \/ b = UserIntent(r, focal)
      \/ b = AgentClaim(r, i, focal, claims)
      \/ b = UserClaim(r, i, focal) /\ i.ask.who # "agent"
  BY DEF Body
<1>4. CASE b = UserRetraction(i, claims)
  BY <1>2, <1>4 DEF UserRetraction, Retirement
<1>5. CASE b = UserIntent(r, focal)
  BY <1>5 DEF UserIntent, Assertion
<1>6. CASE b = AgentClaim(r, i, focal, claims)
  <2>1. b.kind = i.ask.kind
    BY <1>6 DEF AgentClaim, Assertion
  <2>2. i.ask.kind # "next_action" => b.subject = <<"authored", r>>
    BY <1>6 DEF AgentClaim, Assertion
  <2> QED BY <1>2, <2>1, <2>2
<1>7. CASE b = UserClaim(r, i, focal) /\ i.ask.who # "agent"
  <2>1. i.ask.kind # "reality"
    BY <1>1, <1>7 DEF UserKind
  <2>2. b.kind = NONE \/ b.kind = i.ask.kind
    BY <1>7 DEF UserClaim, Retirement, Assertion
  <2> QED BY <1>2, <2>1, <2>2
<1> QED BY <1>3, <1>4, <1>5, <1>6, <1>7

LEMMA AuthorPruneInv ==
  ASSUME IInv, PruneInv, NEW r \in Request, NEW ts \in Stamp, NEW i \in Input,
         Author(r, ts, i)
  PROVE  PruneInv'
<1> DEFINE b == Body(r, i, FocalTask(taskTable, claimTable), claimTable)
           row == RowOf(r, ts, b)
<1>1. b # NONE /\ ValidateAgainstProjection(b, claimTable) /\ Insert(row)
  BY DEF Author, RowOf
<1>2. row.ts \in Stamp /\ row.source = "claim" /\ row.body = b
  BY DEF RowOf
<1>3. ts \in Nat
  BY DEF Stamp
<1>4. TaskMap(taskTable) /\ ClaimMap(claimTable) /\ ByRule(claimTable)
  BY DEF PruneInv, TablesInv
<1>5. row \in Pending
  BY <1>1, <1>3, <1>4, FocalTaskType, BodyRow
<1>6. b.kind = "reality" => b.subject \notin Command
  BY <1>1, BodySubject
<1> HIDE DEF row, b
<1>7. b.origin \in {"user", "agent"}
  BY <1>2, <1>5 DEF Pending, ClaimRow, ClaimEvent
<1>8. Target(b) # NONE => Target(b)[1] # "reality"
  <2>1. SUFFICES ASSUME Target(b) # NONE, Target(b)[1] = "reality" PROVE FALSE
    OBVIOUS
  <2>2. Target(b) \in DOMAIN claimTable
    BY <1>1, <2>1 DEF ValidateAgainstProjection
  <2>3. claimTable[Target(b)].origin = "projector" /\ claimTable[Target(b)].confidence = "observed"
    BY <1>4, <2>1, <2>2 DEF ByRule, Rule
  <2> QED BY <1>1, <1>7, <2>1, <2>3 DEF ValidateAgainstProjection
<1>9. row \in FoldRow
  BY <1>2, <1>5, <1>6, <1>8 DEF FoldRow, RowOk
<1> QED BY <1>1, <1>2, <1>9, InsertPruneInv

-----------------------------------------------------------------------------
(* Updates of a row.                                                       *)

(* What the worker writes of a row: never its event, and a payload that    *)
(* was compacted stays compacted.                                          *)
Rewrites(old, new) ==
  /\ new.row = old.row
  /\ old.compacted => new.compacted
  /\ \A S : old \in [row : S, analysed : BOOLEAN, enriched : BOOLEAN, compacted : BOOLEAN] =>
            new \in [row : S, analysed : BOOLEAN, enriched : BOOLEAN, compacted : BOOLEAN]

LEMMA EntryRewrites ==
  ASSUME NEW S, NEW a \in [row : S, analysed : BOOLEAN, enriched : BOOLEAN,
                           compacted : BOOLEAN]
  PROVE  /\ Rewrites(a, Compacted(a)) /\ Rewrites(a, Analysed(a))
         /\ Rewrites(a, Enriched(a))
<1>1. ASSUME NEW p, p = TRUE PROVE Rewrites(a, [a EXCEPT !.compacted = p])
  BY <1>1 DEF Rewrites
<1>2. ASSUME NEW p, p = TRUE PROVE Rewrites(a, [a EXCEPT !.enriched = p])
  BY <1>2 DEF Rewrites
<1>3. ASSUME NEW p, p = TRUE, NEW q \in BOOLEAN, a.compacted => q
      PROVE  Rewrites(a, [a EXCEPT !.analysed = p, !.compacted = q])
  BY <1>3 DEF Rewrites
<1>4. Rewrites(a, Compacted(a))
  BY <1>1 DEF Compacted
<1>5. Rewrites(a, Enriched(a))
  BY <1>2 DEF Enriched
<1>6. Rewrites(a, Analysed(a))
  <2> DEFINE q == a.compacted \/ Summarized(a.row)
  <2>1. q \in BOOLEAN /\ (a.compacted => q)
    OBVIOUS
  <2>2. Analysed(a) = [a EXCEPT !.analysed = TRUE, !.compacted = q]
    BY DEF Analysed
  <2> HIDE DEF q
  <2>3. Rewrites(a, [a EXCEPT !.analysed = TRUE, !.compacted = q])
    BY <1>3, <2>1, Zenon
  <2> QED BY <2>2, <2>3, Zenon
<1> QED BY <1>4, <1>5, <1>6

(* The steps that change no more of the log than what the worker writes.   *)
LEMMA RewritePruneInv ==
  ASSUME PruneInv, UNCHANGED <<stored, taskTable, claimTable, batch, daemon>>,
         DOMAIN events' = DOMAIN events,
         \A x \in DOMAIN events : events'[x] = events[x] \/ Rewrites(events[x], events'[x])
  PROVE  PruneInv'
<1> DEFINE Entry == [row : stored, analysed : BOOLEAN, enriched : BOOLEAN,
                     compacted : BOOLEAN]
<1>1. \A x \in DOMAIN events : events[x] \in Entry /\ events[x].row.id = x
  BY DEF PruneInv, LogInv, Logged
<1>2. \A x \in DOMAIN events : /\ events'[x] \in Entry /\ events'[x].row = events[x].row
                               /\ events[x].compacted => events'[x].compacted
  BY <1>1 DEF Rewrites
<1> HIDE DEF Entry
<1>3. LogInv'
  BY <1>1, <1>2 DEF PruneInv, LogInv, Logged, Entry
<1>4. TablesInv'
  BY DEF PruneInv, TablesInv
<1>5. PrunableInv'
  BY <1>2 DEF PruneInv, PrunableInv, OpensActiveTask, IsCurrentEvidence
<1>6. ViewInv'
  <2>1. SUFFICES ASSUME ClaimsReadable' PROVE PruningIsInvisible'
    BY DEF ViewInv
  <2>2. ClaimsReadable
    BY <1>2, <2>1 DEF ClaimsReadable, Readable
  <2>3. LogRows(events') = {events'[x].row : x \in DOMAIN events'}
    BY <2>1 DEF LogRows, ClaimsReadable
  <2>4. LogRows(events) = {events[x].row : x \in DOMAIN events}
    BY <2>2 DEF LogRows, ClaimsReadable
  <2>5. LogRows(events') = LogRows(events)
    BY <1>2, <2>3, <2>4
  <2> QED BY <2>2, <2>5 DEF PruneInv, ViewInv, PruningIsInvisible
<1> QED BY <1>3, <1>4, <1>5, <1>6 DEF PruneInv

LEMMA UpdatePruneInv ==
  ASSUME PruneInv, UNCHANGED <<stored, taskTable, claimTable, batch, daemon>>,
         NEW x, NEW entry, Update(x, entry),
         x \in DOMAIN events => Rewrites(events[x], entry)
  PROVE  PruneInv'
<1>1. DOMAIN events' = DOMAIN events
  BY UpdateKeepsRows
<1>2. \A y \in DOMAIN events : events'[y] = events[y] \/ Rewrites(events[y], events'[y])
  BY DEF Update
<1> QED BY <1>1, <1>2, RewritePruneInv

LEMMA IdlePruneInv ==
  ASSUME PruneInv, UNCHANGED <<events, stored, taskTable, claimTable, batch, daemon>>
  PROVE  PruneInv'
BY RewritePruneInv

LEMMA EnrichPruneInv ==
  ASSUME PruneInv, EnrichLocking \/ EnrichFree
  PROVE  PruneInv'
<1>1. \A x \in DOMAIN events : /\ Rewrites(events[x], Compacted(events[x]))
                               /\ Rewrites(events[x], Analysed(events[x]))
                               /\ Rewrites(events[x], Enriched(events[x]))
  BY EntryRewrites DEF PruneInv, LogInv, Logged
<1>2. CASE Analyse
  BY <1>1, <1>2, UpdatePruneInv DEF Analyse
<1>3. CASE Compact
  BY <1>1, <1>3, UpdatePruneInv DEF Compact
<1>4. CASE FinishNote
  BY <1>1, <1>4, UpdatePruneInv DEF FinishNote
<1>5. CASE MarkEnriched
  BY <1>1, <1>5, UpdatePruneInv DEF MarkEnriched
<1>6. CASE DeleteOldVector \/ Take \/ SkipEmbedding \/ Embed \/ InsertVector
  BY <1>6, IdlePruneInv
     DEF DeleteOldVector, Take, SkipEmbedding, Embed, InsertVector, diskVars
<1> QED BY <1>2, <1>3, <1>4, <1>5, <1>6 DEF EnrichLocking, EnrichFree

-----------------------------------------------------------------------------
(* The pruner.                                                             *)

LEMMA ArchivePruneInv ==
  ASSUME PruneInv, Archive
  PROVE  PruneInv'
<1>1. UNCHANGED <<events, stored, taskTable, claimTable, daemon>> /\ daemon = "up"
      /\ batch' \subseteq Prunable
  BY DEF Archive, Oldest
<1>2. PrunableInv'
  BY <1>1 DEF PrunableInv, Prunable, OpensActiveTask, IsCurrentEvidence
<1> QED BY <1>1, <1>2
    DEF PruneInv, LogInv, Logged, TablesInv, ViewInv, ClaimsReadable, PruningIsInvisible

LEMMA DeleteVectorPruneInv ==
  ASSUME PruneInv, DeleteVector
  PROVE  PruneInv'
<1>1. UNCHANGED <<events, stored, taskTable, claimTable, daemon>> /\ batch' \subseteq batch
  BY DEF DeleteVector
<1>2. PrunableInv'
  BY <1>1 DEF PruneInv, PrunableInv, OpensActiveTask, IsCurrentEvidence
<1> QED BY <1>1, <1>2
    DEF PruneInv, LogInv, Logged, TablesInv, ViewInv, ClaimsReadable, PruningIsInvisible

LEMMA DeleteRowPruneInv ==
  ASSUME PruneInv, DeleteRow
  PROVE  PruneInv'
<1>1. PICK x \in batch : events' = [y \in DOMAIN events \ {x} |-> events[y]]
  BY DEF DeleteRow
<1>2. /\ x \in DOMAIN events
      /\ DOMAIN events' = DOMAIN events \ {x}
      /\ \A y \in DOMAIN events' : events'[y] = events[y]
      /\ UNCHANGED <<stored, taskTable, claimTable, batch, daemon>>
  BY <1>1 DEF DeleteRow
<1> DEFINE e == events[x].row
<1>3. /\ e \in stored /\ e.id = x
      /\ Quiet(e) /\ ~OpensActiveTask(x) /\ ~IsCurrentEvidence(x)
  BY <1>2 DEF PruneInv, LogInv, Logged, PrunableInv
<1>4. e.source # "claim"
  BY <1>3 DEF Quiet
<1>5. LogInv' /\ LogInv
  BY <1>2 DEF PruneInv, LogInv, Logged
<1>6. TablesInv'
  BY <1>2 DEF PruneInv, TablesInv
<1>7. PrunableInv'
  BY <1>2 DEF PruneInv, PrunableInv, OpensActiveTask, IsCurrentEvidence
<1>8. ViewInv'
  <2>1. SUFFICES ASSUME ClaimsReadable' PROVE PruningIsInvisible'
    BY DEF ViewInv
  <2>2. Readable(events[x])
    BY <1>4 DEF Readable
  <2>3. ClaimsReadable
    BY <1>2, <2>1, <2>2 DEF ClaimsReadable
  <2> DEFINE log == LogRows(events)
             v == FoldOf(log)
             w == FoldOf(log \ {e})
  <2>4. e \in log
    BY <1>2, <2>2 DEF LogRows
  <2>5. LogRows(events') = log \ {e}
    <3>1. log = {events[y].row : y \in DOMAIN events}
      BY <2>3 DEF LogRows, ClaimsReadable
    <3>2. LogRows(events') = {events[y].row : y \in DOMAIN events \ {x}}
      BY <1>2, <2>1 DEF LogRows, ClaimsReadable
    <3>3. \A y \in DOMAIN events : y # x => events[y].row # e
      BY <1>2, <1>5 DEF LogInv, Logged
    <3> QED BY <3>1, <3>2, <3>3
  <2>6. /\ InForceTasks(v.tasks) = InForceTasks(taskTable)
        /\ InForceClaims(v.claims) = InForceClaims(claimTable)
        /\ FocalTask(v.tasks, v.claims) = FocalTask(taskTable, claimTable)
    BY <2>3 DEF PruneInv, ViewInv, PruningIsInvisible
  <2>7. /\ Foldable(Folding(log))
        /\ LastStamp + 1 \in Nat /\ \A f \in Folding(log) : f.ts < LastStamp + 1
    BY <1>5, LoggedRowsFold DEF LogInv
  <2>8. Folds(e) => e.source = "shell"
    <3>1. Folds(e) => e \in ShellEvent \cup Pending
      BY <1>3, <1>5 DEF LogInv, Logged, FoldRow
    <3> QED BY <1>4, <3>1 DEF ShellEvent, ShellRow, Pending, ClaimRow
  <2>9. /\ TaskMap(v.tasks) /\ ClaimMap(v.claims)
        /\ ClaimMap(claimTable)
    BY <1>5, ViewSound DEF LogInv, PruneInv, TablesInv
  <2>10. ClaimMap(w.claims)
    <3>1. LET u == FoldOf(LogRows(events')) IN ClaimMap(u.claims)
      BY <1>5, ViewSound DEF LogInv
    <3> QED BY <2>5, <3>1
  <2> HIDE DEF e, log, v, w
  <2>11. \A t \in Active(v.tasks) : v.tasks[t].opened_by # e.id
    <3>1. Active(v.tasks) = Active(taskTable) /\ \A t \in Active(v.tasks) : v.tasks[t] = taskTable[t]
      BY <2>6, InForceTasksAlike
    <3> QED BY <1>3, <3>1 DEF Active, OpensActiveTask
  <2>12. \A i \in Current(v.claims) : e.id \notin v.claims[i].evidence
    <3>1. Agree(v.claims, claimTable, {})
      BY <2>6, <2>9, InForceClaimsAlike
    <3>2. \A i \in Current(v.claims) : i \in Current(claimTable)
                                       /\ v.claims[i].evidence = claimTable[i].evidence
      BY <3>1 DEF Agree, Seen, Alike, Same
    <3> QED BY <1>3, <3>2 DEF Current, IsCurrentEvidence
  <2>13. /\ InForceTasks(v.tasks) = InForceTasks(w.tasks)
         /\ InForceClaims(v.claims) = InForceClaims(w.claims)
    BY <2>4, <2>7, <2>8, <2>11, <2>12, RemovedRow DEF v, w
  <2>14. FocalTask(v.tasks, v.claims) = FocalTask(w.tasks, w.claims)
    BY <2>9, <2>10, <2>13, SameFocus
  <2> QED BY <1>2, <2>5, <2>6, <2>13, <2>14 DEF PruningIsInvisible, w
<1> QED BY <1>5, <1>6, <1>7, <1>8 DEF PruneInv

LEMMA CrashPruneInv ==
  ASSUME PruneInv, Crash
  PROVE  PruneInv'
<1>1. UNCHANGED <<events, stored, taskTable, claimTable>> /\ batch' = {}
  BY DEF Crash, diskVars
<1> QED BY <1>1
    DEF PruneInv, LogInv, Logged, TablesInv, PrunableInv, ViewInv, ClaimsReadable, PruningIsInvisible

LEMMA StartPruneInv ==
  ASSUME PruneInv, Start
  PROVE  PruneInv'
<1>1. UNCHANGED <<events, stored, batch>> /\ daemon = "down"
  BY DEF Start
<1>2. LogInv'
  BY <1>1 DEF PruneInv, LogInv, Logged
<1>3. PrunableInv'
  BY <1>1 DEF PruneInv, PrunableInv
<1>4. (TablesInv /\ ViewInv)'
  BY <1>1, <1>2, RebuiltView DEF Start, Rebuild
<1> QED BY <1>2, <1>3, <1>4 DEF PruneInv

LEMMA InitPruneInv == Init => PruneInv
<1> SUFFICES ASSUME Init PROVE PruneInv
  OBVIOUS
<1>1. LogInv
  BY DEF Init, LogInv, Logged, Empty
<1>2. Folding(LogRows(events)) = {}
  BY DEF Init, Empty, LogRows, Folding
<1>3. FoldOf(LogRows(events)) = [tasks |-> Empty, claims |-> Empty]
  <2>1. Stamped({}) /\ 0 \in Nat /\ \A e \in {} : e.ts < 0
    BY DEF Stamped
  <2>2. ViewsOf({})[{}] = [tasks |-> Empty, claims |-> Empty]
    BY <2>1, ViewOfNone
  <2> QED BY <1>2, <2>2 DEF FoldOf
<1>4. TablesInv
  BY EmptyMaps DEF Init, TablesInv, ByRule, Empty
<1>5. PrunableInv
  BY DEF Init, PrunableInv
<1>6. ViewInv
  BY <1>3 DEF Init, ViewInv, PruningIsInvisible
<1> QED BY <1>1, <1>4, <1>5, <1>6 DEF PruneInv

LEMMA NextPruneInv == IInv /\ PruneInv /\ [Next]_vars => PruneInv'
<1> SUFFICES ASSUME IInv, PruneInv, [Next]_vars PROVE PruneInv'
  OBVIOUS
<1>1. ASSUME NEW x \in Run, NEW ts \in Stamp, NEW command \in Command,
             NEW code \in ExitCode \cup {NONE}, IngestShell(x, ts, command, code)
      PROVE  PruneInv'
  <2> DEFINE row == [id |-> x, ts |-> ts, source |-> "shell", command |-> command,
                     exit_code |-> code]
  <2>1. Insert(row)
    BY <1>1 DEF IngestShell
  <2>2. row \in FoldRow
    BY RequestsAssumption DEF FoldRow, ShellEvent, ShellRow, RowOk, Stamp
  <2>3. row.ts \in Stamp
    OBVIOUS
  <2> HIDE DEF row
  <2> QED BY <2>1, <2>2, <2>3, InsertPruneInv
<1>2. ASSUME NEW x \in Run, NEW ts \in Stamp, NEW source \in Evidence,
             IngestEvidence(x, ts, source)
      PROVE  PruneInv'
  <2> DEFINE row == [id |-> x, ts |-> ts, source |-> source, exit_code |-> NONE]
  <2>1. Insert(row)
    BY <1>2 DEF IngestEvidence
  <2>2. ~Folds(row) /\ row.ts \in Stamp
    BY RetentionAssumption DEF Folds
  <2> HIDE DEF row
  <2> QED BY <2>1, <2>2, InsertPruneInv
<1>3. ASSUME NEW r \in Request, NEW ts \in Stamp, NEW i \in Input, Author(r, ts, i)
      PROVE  PruneInv'
  BY <1>3, AuthorPruneInv
<1>4. CASE Sweep \/ OfferBacklog
  BY <1>4, IdlePruneInv DEF Sweep, OfferBacklog, diskVars
<1>5. ASSUME NEW t \in Stamp, Age(t) PROVE PruneInv'
  BY <1>5, IdlePruneInv DEF Age, diskVars
<1>6. CASE UNCHANGED vars
  BY <1>6, IdlePruneInv DEF vars, diskVars
<1>7. CASE Prune
  BY <1>7, ArchivePruneInv, DeleteRowPruneInv, DeleteVectorPruneInv DEF Prune
<1> QED
  BY <1>1, <1>2, <1>3, <1>4, <1>5, <1>6, <1>7, EnrichPruneInv, CrashPruneInv,
     StartPruneInv DEF Next

(* Wherever the pruner was cut short, and whatever it has moved out of the *)
(* log, a rebuild puts in force exactly what the tables have in force, the *)
(* focal task included, as long as no authored row was compacted (what     *)
(* that does is shown by a run).                                           *)
THEOREM RebuildsAfterPruning == Spec => [](ClaimsReadable => PruningIsInvisible)
<1>1. IInv /\ PruneInv => (ClaimsReadable => PruningIsInvisible)
  BY DEF PruneInv, ViewInv
<1>2. Init => IInv /\ PruneInv
  BY InitIInv, InitPruneInv
<1>3. (IInv /\ PruneInv) /\ [Next]_vars => (IInv /\ PruneInv)'
  BY NextIInv, NextPruneInv
<1> QED BY <1>1, <1>2, <1>3, PTL DEF Spec

-----------------------------------------------------------------------------
(* Only long payloads are compacted.                                       *)

LongInv ==
  /\ worker # NONE /\ worker.at = "compact" => worker.id \in Long
  /\ \A x \in DOMAIN events : events[x].compacted => x \in Long

LEMMA CompactedEntry ==
  ASSUME NEW S, NEW a \in [row : S, analysed : BOOLEAN, enriched : BOOLEAN,
                           compacted : BOOLEAN]
  PROVE  /\ Enriched(a).compacted => a.compacted
         /\ Analysed(a).compacted => a.compacted \/ a.row.id \in Long
<1>1. Enriched(a).compacted => a.compacted
  BY DEF Enriched
<1>2. Analysed(a).compacted => a.compacted \/ Summarized(a.row)
  BY DEF Analysed
<1>3. Summarized(a.row) => a.row.id \in Long
  BY DEF Summarized
<1> QED BY <1>1, <1>2, <1>3

LEMMA NextLongInv == IInv /\ LogInv /\ LongInv /\ [Next]_vars => LongInv'
<1> SUFFICES ASSUME IInv, LogInv, LongInv, [Next]_vars PROVE LongInv'
  OBVIOUS
<1>1. \A x \in DOMAIN events :
        /\ Enriched(events[x]).compacted => x \in Long
        /\ Analysed(events[x]).compacted => x \in Long
  BY CompactedEntry DEF LogInv, Logged, LongInv
<1>2. worker # NONE => worker = [id |-> worker.id, row |-> worker.row, at |-> worker.at]
  BY DEF IInv, LockInv
<1>3. ASSUME NEW row, Insert(row) PROVE LongInv'
  <2>1. /\ DOMAIN events' = DOMAIN events \cup {row.id} /\ worker' = worker
        /\ ~events'[row.id].compacted
        /\ \A x \in DOMAIN events : x # row.id => events'[x] = events[x]
    BY <1>3 DEF Insert, Put
  <2> QED BY <2>1 DEF LongInv
<1>4. ASSUME NEW x, NEW entry, Update(x, entry), x \in DOMAIN events => (entry.compacted => x \in Long)
      PROVE  \A y \in DOMAIN events' : events'[y].compacted => y \in Long
  BY <1>4 DEF Update, LongInv
<1>5. CASE Analyse
  <2>1. worker' = [worker EXCEPT !.at = "embed"] /\ worker # NONE
    BY <1>5 DEF Analyse, Working
  <2> QED BY <1>1, <1>2, <1>4, <1>5, <2>1 DEF Analyse, LongInv
<1>6. CASE Compact
  <2>1. worker' = [worker EXCEPT !.at = "embed"] /\ worker # NONE /\ worker.id \in Long
    BY <1>6 DEF Compact, Working, LongInv
  <2> QED BY <1>2, <1>4, <1>6, <2>1 DEF Compact, LongInv
<1>7. CASE FinishNote
  BY <1>1, <1>4, <1>7 DEF FinishNote, LongInv
<1>8. CASE MarkEnriched
  BY <1>1, <1>4, <1>8 DEF MarkEnriched, LongInv
<1>9. CASE Take
  BY <1>9 DEF Take, LongInv, diskVars
<1>10. CASE DeleteOldVector \/ SkipEmbedding \/ Embed \/ InsertVector
  BY <1>2, <1>10
     DEF DeleteOldVector, SkipEmbedding, Embed, InsertVector, Working, LongInv, diskVars
<1>11. CASE Prune
  BY <1>11 DEF Prune, Archive, DeleteRow, DeleteVector, LongInv
<1>12. CASE Crash
  BY <1>12 DEF Crash, LongInv, diskVars
<1>13. CASE UNCHANGED <<events, worker>>
  BY <1>13 DEF LongInv
<1>14. CASE Sweep \/ OfferBacklog \/ Start \/ (\E t \in Stamp : Age(t)) \/ UNCHANGED vars
  BY <1>13, <1>14 DEF Sweep, OfferBacklog, Start, Age, diskVars, vars
<1> QED
  BY <1>3, <1>5, <1>6, <1>7, <1>8, <1>9, <1>10, <1>11, <1>12, <1>14
     DEF Next, IngestShell, IngestEvidence, Author, EnrichLocking, EnrichFree

(* So the pruner is never seen, whatever else the worker compacts, when no *)
(* authored payload is over LONG_PAYLOAD_CHARS.                            *)
THEOREM PruningUnseen ==
  ASSUME Long \cap Request = {}
  PROVE  Spec => []PruningIsInvisible
<1> DEFINE Inv == IInv /\ PruneInv /\ LongInv
<1>1. Init => Inv
  BY InitIInv, InitPruneInv DEF Init, LongInv, Empty
<1>2. Inv /\ [Next]_vars => Inv'
  BY NextIInv, NextPruneInv, NextLongInv DEF PruneInv
<1>3. Inv => PruningIsInvisible
  <2>1. SUFFICES ASSUME Inv PROVE ClaimsReadable
    BY DEF PruneInv, ViewInv
  <2>2. SUFFICES ASSUME NEW x \in DOMAIN events, events[x].row.source = "claim",
                        events[x].compacted
                 PROVE  FALSE
    BY DEF ClaimsReadable, Readable
  <2>3. events[x].row \in stored /\ events[x].row.id = x
    BY <2>1 DEF PruneInv, LogInv, Logged
  <2>4. events[x].row \in FoldRow
    BY <2>1, <2>2, <2>3 DEF PruneInv, LogInv, Logged, Folds
  <2>5. x \in Request
    BY <2>2, <2>3, <2>4 DEF FoldRow, ShellEvent, ShellRow, Pending
  <2> QED BY <2>1, <2>2, <2>5 DEF LongInv
<1> HIDE DEF Inv
<1> QED BY <1>1, <1>2, <1>3, PTL DEF Spec

=============================================================================
