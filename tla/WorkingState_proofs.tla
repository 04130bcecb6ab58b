------------------------ MODULE WorkingState_proofs ------------------------
(***************************************************************************)
(* Proofs about WorkingState, for any commands, runs, requests, asks, bus  *)
(* capacity and number of crashes.                                         *)
(*                                                                         *)
(* They rest on what one fold does to the claim table (Claims_proofs), and *)
(* not on its definition.                                                  *)
(***************************************************************************)
EXTENDS WorkingState, Claims_proofs, Sieve_proofs

-----------------------------------------------------------------------------
(* Type correctness.  TypeOK is inductive with what a request has at hand  *)
(* at each of its steps.                                                   *)

RequestsTyped ==
  \A r \in Request :
    /\ pc[r] = "loading" => input[r] \in Input
    /\ pc[r] \in {"append", "rebuild", "ok"} =>
         pending[r] \in Pending /\ pending[r].id = r
    /\ writer = r => pc[r] = "rebuild"

TypeInv == TypeOK /\ RequestsTyped

LEMMA TypeInit == Init => TypeInv
BY EmptyMaps, RequestsAssumption, WorkingStateAssumption DEF Init, TypeInv, TypeOK, RequestsTyped

LEMMA TypeNext == TypeInv /\ [Next]_vars => TypeInv'
<1> SUFFICES ASSUME TypeInv, [Next]_vars PROVE TypeInv'
  OBVIOUS
<1> USE DEF TypeInv, TypeOK, RequestsTyped
<1>1. CASE Start
  BY <1>1, EmptyMaps, RequestsAssumption, WorkingStateAssumption
  DEF Start, BeginRebuild, storeVars, requestVars
<1>2. CASE Crash
  BY <1>2, EmptyMaps, RequestsAssumption, WorkingStateAssumption DEF Crash, storeVars
<1>3. CASE FoldStep
  <2>1. PICK e \in NextRow(todo) : /\ todo' = todo \ {e}
                                   /\ newTasks' = FoldTasks(newTasks, e)
                                   /\ newClaims' = FoldClaims(newClaims, e)
    BY <1>3 DEF FoldStep
  <2>2. e \in ShellEvent \cup Pending
    BY DEF NextRow
  <2>3. TaskMap(newTasks') /\ ClaimMap(newClaims')
    BY <2>1, <2>2, FoldTasksType, FoldClaimsType
  <2>4. UNCHANGED <<storeVars, writer, daemon, bus, published, requestVars,
                    clock, crashes>>
    BY <1>3 DEF FoldStep
  <2> QED BY <2>1, <2>3, <2>4 DEF storeVars, requestVars
<1>4. CASE Install
  <2>1. TypeOK'
    BY <1>4, EmptyMaps DEF Install
  <2>2. RequestsTyped'
    BY <1>4, RequestsAssumption, WorkingStateAssumption DEF Install
  <2> QED BY <2>1, <2>2
<1>5. ASSUME NEW x \in Run, NEW command \in Command,
             NEW code \in ExitCode \cup {NONE}, Publish(x, command, code)
      PROVE  TypeInv'
  <2> DEFINE e == [id |-> x, ts |-> clock, source |-> "shell",
                   command |-> command, exit_code |-> code]
  <2>1. e \in ShellEvent
    BY RequestsAssumption, WorkingStateAssumption DEF ShellEvent, ShellRow
  <2>2. bus' \subseteq bus \cup {e} /\ published' = published \cup {x}
        /\ clock' = clock + 1
    BY <1>5 DEF Publish
  <2>3. UNCHANGED <<storeVars, rebuildVars, daemon, requestVars, crashes>>
    BY <1>5 DEF Publish
  <2> HIDE DEF e
  <2> QED BY <2>1, <2>2, <2>3 DEF storeVars, rebuildVars, requestVars
<1>6. ASSUME NEW e \in bus, Ingest(e)
      PROVE  TypeInv'
  <2>1. /\ bus' \subseteq bus /\ log' \subseteq log \cup {e} /\ log \subseteq log'
        /\ UNCHANGED <<taskTable, claimTable, daemon, published, requestVars,
                       clock, crashes>>
    BY <1>6 DEF Ingest, rebuildVars
  <2>2. \/ UNCHANGED rebuildVars
        \/ BeginRebuild(e.id, log')
    BY <1>6 DEF Ingest
  <2>3. e.id \in EventId /\ e.id \notin Request
    BY RequestsAssumption, WorkingStateAssumption DEF ShellEvent, ShellRow
  <2> QED BY <2>1, <2>2, <2>3, EmptyMaps DEF requestVars, rebuildVars, BeginRebuild
<1>7. ASSUME NEW r \in Request, NEW i \in Input, Load(r, i)
      PROVE  TypeInv'
  BY <1>7 DEF Load, storeVars, rebuildVars
<1>8. ASSUME NEW r \in Request, Decide(r)
      PROVE  TypeInv'
  <2> DEFINE b == Body(r, input[r], FocalTask(loaded[r], claimTable), claimTable)
  <2>1. /\ pc[r] = "loading"
        /\ loaded' = [loaded EXCEPT ![r] = Empty]
        /\ input' = [input EXCEPT ![r] = NONE]
        /\ UNCHANGED <<storeVars, rebuildVars, daemon, bus, published, crashes>>
        /\ \/ /\ b # NONE
              /\ pc' = [pc EXCEPT ![r] = "append"]
              /\ pending' = [pending EXCEPT ![r] = RowOf(r, clock, b)]
              /\ clock' = clock + 1
           \/ /\ pc' = [pc EXCEPT ![r] = "refused"]
              /\ UNCHANGED <<pending, clock>>
    BY <1>8 DEF Decide, RowOf
  <2>2. b # NONE => RowOf(r, clock, b) \in Pending
    <3>1. FocalTask(loaded[r], claimTable) \in TaskId \cup {NONE}
      BY FocalTaskType
    <3>2. input[r] \in Input
      BY <2>1
    <3> QED BY <3>1, <3>2, BodyRow
  <2>3. RowOf(r, clock, b).id = r
    BY DEF RowOf
  <2> HIDE DEF b
  <2>4. pending' \in [Request -> Pending \cup {NONE}]
    BY <2>1, <2>2
  <2>5. RequestsTyped'
    BY <2>1, <2>2, <2>3 DEF rebuildVars
  <2>6. clock' \in Nat /\ \A s \in Request : TaskMap(loaded'[s])
    BY <2>1, EmptyMaps
  <2> QED BY <2>1, <2>4, <2>5, <2>6 DEF storeVars, rebuildVars
<1>9. ASSUME NEW r \in Request, AppendClaim(r)
      PROVE  TypeInv'
  <2>1. pending[r] \in Pending /\ r \in EventId
    BY <1>9, RequestsAssumption, WorkingStateAssumption DEF AppendClaim
  <2> QED BY <1>9, <2>1, EmptyMaps DEF AppendClaim, BeginRebuild
<1>10. CASE UNCHANGED vars
  BY <1>10 DEF vars, storeVars, rebuildVars, requestVars
<1> QED BY <1>1, <1>2, <1>3, <1>4, <1>5, <1>6, <1>7, <1>8, <1>9, <1>10 DEF Next

(* Every variable keeps its type, and the rows of the log the shape that   *)
(* the shell hook and the handlers of main.rs give them.                   *)
THEOREM TypeCorrect == Spec => []TypeOK
<1>1. Spec => []TypeInv
  BY TypeInit, TypeNext, PTL DEF Spec
<1>2. TypeInv => TypeOK
  BY DEF TypeInv
<1> QED BY <1>1, <1>2, PTL

-----------------------------------------------------------------------------
(* Rows are told apart by their ids, and by their timestamps.              *)

Rows == log \cup bus \cup {pending[r] : r \in {q \in Request : pending[q] # NONE}}

Minted ==
  /\ \A e \in log \cup bus : e.source = "shell" => e.id \in published
  /\ \A e \in log : e.source = "claim" =>
       e = pending[e.id] /\ pc[e.id] \in {"rebuild", "ok", "lost"}
  /\ \A r \in Request :
       /\ pc[r] \in {"idle", "loading"} => pending[r] = NONE
       /\ pending[r] # NONE => pending[r].id = r
  /\ \A e \in bus : e.source = "shell"

Distinct ==
  /\ \A e \in Rows : e.ts < clock
  /\ \A e, f \in Rows : e.id = f.id \/ e.ts = f.ts => e = f

RowsInv == TypeInv /\ Minted /\ Distinct

LEMMA RowTypes ==
  ASSUME TypeOK
  PROVE  /\ \A e \in ShellEvent : /\ e.source = "shell" /\ e.id \in Run
                                  /\ e.id \notin Request /\ e.ts \in Nat
         /\ \A e \in Pending : /\ e.source = "claim" /\ e.id \in Request
                               /\ e.ts \in Nat
         /\ Rows \subseteq ShellEvent \cup Pending
BY RequestsAssumption, WorkingStateAssumption
DEF ShellEvent, ShellRow, Pending, ClaimRow, Rows, TypeOK

LEMMA RowsInit == Init => RowsInv
<1> SUFFICES ASSUME Init PROVE RowsInv
  OBVIOUS
<1>1. TypeInv
  BY TypeInit
<1>2. Minted /\ Distinct
  BY DEF Init, Minted, Distinct, Rows
<1> QED BY <1>1, <1>2 DEF RowsInv

(* A step that mints nothing leaves rows distinct.                         *)
LEMMA NothingMinted ==
  ASSUME Distinct, Rows' \subseteq Rows, clock' = clock
  PROVE  Distinct'
BY DEF Distinct

LEMMA OneMinted ==
  ASSUME TypeOK, Distinct, NEW e, Rows' \subseteq Rows \cup {e},
         e.ts = clock, clock' = clock + 1, \A f \in Rows : f.id # e.id
  PROVE  Distinct'
<1>1. clock \in Nat /\ \A f \in Rows : f.ts \in Nat
  BY RowTypes DEF TypeOK
<1>2. \A f \in Rows' : f.ts < clock'
  BY <1>1 DEF Distinct
<1>3. \A f \in Rows : f.ts # e.ts
  BY <1>1 DEF Distinct
<1>4. \A f, g \in Rows' : f.id = g.id \/ f.ts = g.ts => f = g
  BY <1>3 DEF Distinct
<1> QED BY <1>2, <1>4 DEF Distinct

LEMMA RowsNext == RowsInv /\ [Next]_vars => RowsInv'
<1> SUFFICES ASSUME RowsInv, [Next]_vars PROVE RowsInv'
  OBVIOUS
<1>0. TypeInv /\ TypeInv'
  BY TypeNext DEF RowsInv
<1>a. TypeOK /\ RequestsTyped /\ Minted /\ Distinct
  BY <1>0 DEF RowsInv, TypeInv
<1> SUFFICES Minted' /\ Distinct'
  BY <1>0 DEF RowsInv
<1>t. /\ log \subseteq ShellEvent \cup Pending /\ bus \subseteq ShellEvent
      /\ pending \in [Request -> Pending \cup {NONE}] /\ clock \in Nat
      /\ pc \in [Request -> {"idle", "loading", "append", "rebuild", "ok",
                             "refused", "lost"}]
      /\ \A e \in ShellEvent : e.source = "shell" /\ e.id \notin Request
      /\ \A e \in Pending : e.source = "claim" /\ e.id \in Request
  BY <1>a, RowTypes DEF TypeOK
<1>1. CASE Start
  <2>1. Minted'
    BY <1>1, <1>a DEF Start, storeVars, requestVars, Minted
  <2>2. Rows' = Rows /\ clock' = clock
    BY <1>1 DEF Start, storeVars, requestVars, Rows
  <2> QED BY <1>a, <2>1, <2>2, NothingMinted
<1>2. CASE Crash
  <2>1. Minted'
    BY <1>2, <1>a, <1>t DEF Crash, storeVars, Minted
  <2>2. Rows' \subseteq Rows /\ clock' = clock
    BY <1>2 DEF Crash, storeVars, Rows
  <2> QED BY <1>a, <2>1, <2>2, NothingMinted
<1>3. CASE FoldStep
  <2>1. Minted'
    BY <1>3, <1>a DEF FoldStep, storeVars, requestVars, Minted
  <2>2. Rows' = Rows /\ clock' = clock
    BY <1>3 DEF FoldStep, storeVars, requestVars, Rows
  <2> QED BY <1>a, <2>1, <2>2, NothingMinted
<1>4. CASE Install
  <2>1. Minted'
    BY <1>4, <1>a, <1>t DEF Install, Minted, RequestsTyped
  <2>2. Rows' = Rows /\ clock' = clock
    BY <1>4 DEF Install, Rows
  <2> QED BY <1>a, <2>1, <2>2, NothingMinted
<1>5. ASSUME NEW x \in Run, NEW command \in Command,
             NEW code \in ExitCode \cup {NONE}, Publish(x, command, code)
      PROVE  Minted' /\ Distinct'
  <2> DEFINE e == [id |-> x, ts |-> clock, source |-> "shell",
                   command |-> command, exit_code |-> code]
  <2>1. /\ x \notin published /\ published' = published \cup {x}
        /\ clock' = clock + 1 /\ bus' \subseteq bus \cup {e}
        /\ UNCHANGED <<log, pc, pending>>
    BY <1>5 DEF Publish, storeVars, requestVars
  <2>2. e.source = "shell" /\ e.id = x /\ e.ts = clock
    OBVIOUS
  <2> HIDE DEF e
  <2>3. Minted'
    BY <1>a, <2>1, <2>2 DEF Minted
  <2>4. Rows' \subseteq Rows \cup {e}
    BY <2>1 DEF Rows
  <2>5. \A f \in Rows : f.id # e.id
    <3>1. ASSUME NEW f \in log \cup bus PROVE f.id # x
      BY <1>a, <1>t, <2>1, RequestsAssumption, WorkingStateAssumption DEF Minted
    <3>2. ASSUME NEW r \in Request, pending[r] # NONE PROVE pending[r].id # x
      BY <1>a, <3>2, RequestsAssumption, WorkingStateAssumption DEF Minted
    <3> QED BY <2>2, <3>1, <3>2 DEF Rows
  <2> QED BY <1>a, <2>1, <2>2, <2>3, <2>4, <2>5, OneMinted
<1>6. ASSUME NEW e \in bus, Ingest(e)
      PROVE  Minted' /\ Distinct'
  <2>1. /\ bus' \subseteq bus /\ log' \subseteq log \cup {e}
        /\ UNCHANGED <<pc, pending, published, clock>>
    BY <1>6 DEF Ingest, requestVars
  <2>2. Minted'
    BY <1>a, <1>t, <2>1 DEF Minted
  <2>3. Rows' \subseteq Rows
    BY <2>1 DEF Rows
  <2> QED BY <1>a, <2>1, <2>2, <2>3, NothingMinted
<1>7. ASSUME NEW r \in Request, NEW i \in Input, Load(r, i)
      PROVE  Minted' /\ Distinct'
  <2>1. Minted'
    BY <1>7, <1>a, <1>t DEF Load, storeVars, Minted
  <2>2. Rows' = Rows /\ clock' = clock
    BY <1>7 DEF Load, storeVars, Rows
  <2> QED BY <1>a, <2>1, <2>2, NothingMinted
<1>8. ASSUME NEW r \in Request, Decide(r)
      PROVE  Minted' /\ Distinct'
  <2> DEFINE b == Body(r, input[r], FocalTask(loaded[r], claimTable), claimTable)
             e == RowOf(r, clock, b)
  <2>1. /\ pc[r] = "loading" /\ UNCHANGED <<log, bus, published>>
        /\ \/ /\ pc' = [pc EXCEPT ![r] = "append"]
              /\ pending' = [pending EXCEPT ![r] = e]
              /\ clock' = clock + 1
           \/ /\ pc' = [pc EXCEPT ![r] = "refused"]
              /\ UNCHANGED <<pending, clock>>
    BY <1>8 DEF Decide, RowOf, storeVars
  <2>2. e.id = r /\ e.ts = clock
    BY DEF RowOf
  <2> HIDE DEF b, e
  <2>3. Minted'
    BY <1>a, <1>t, <2>1, <2>2 DEF Minted
  <2>4. \A f \in Rows : f.id # r
    <3>1. ASSUME NEW f \in log \cup bus PROVE f.id # r
      BY <1>a, <1>t, <2>1 DEF Minted
    <3>2. ASSUME NEW q \in Request, pending[q] # NONE PROVE pending[q].id # r
      BY <1>a, <2>1, <3>2 DEF Minted
    <3> QED BY <3>1, <3>2 DEF Rows
  <2>5. Rows' \subseteq Rows \cup {e} /\ (clock' = clock => Rows' = Rows)
    <3>1. CASE pending' = [pending EXCEPT ![r] = e] /\ clock' = clock + 1
      BY <1>t, <2>1, <3>1 DEF Rows
    <3>2. CASE UNCHANGED <<pending, clock>>
      BY <2>1, <3>2 DEF Rows
    <3> QED BY <2>1, <3>1, <3>2
  <2>6. CASE clock' = clock
    BY <1>a, <2>3, <2>5, <2>6, NothingMinted
  <2>7. CASE clock' = clock + 1
    BY <1>a, <2>2, <2>3, <2>4, <2>5, <2>7, OneMinted
  <2> QED BY <2>1, <2>6, <2>7
<1>9. ASSUME NEW r \in Request, AppendClaim(r)
      PROVE  Minted' /\ Distinct'
  <2>1. /\ pc[r] = "append" /\ pending[r] \in Pending /\ pending[r].id = r
        /\ log' = log \cup {pending[r]}
        /\ pc' = [pc EXCEPT ![r] = "rebuild"]
        /\ UNCHANGED <<bus, published, pending, clock>>
    BY <1>9, <1>a DEF AppendClaim, RequestsTyped
  <2>2. pending[r] # NONE
    BY <2>1, RequestsAssumption, WorkingStateAssumption DEF Pending
  <2>3. Minted'
    BY <1>a, <1>t, <2>1 DEF Minted
  <2>4. Rows' \subseteq Rows
    BY <2>1, <2>2 DEF Rows
  <2> QED BY <1>a, <2>1, <2>3, <2>4, NothingMinted
<1>10. CASE UNCHANGED vars
  <2>1. UNCHANGED <<log, bus, published, pc, pending, clock>>
    BY <1>10 DEF vars, storeVars, requestVars
  <2>2. Minted'
    BY <1>a, <2>1 DEF Minted
  <2>3. Rows' = Rows
    BY <2>1 DEF Rows
  <2> QED BY <1>a, <2>1, <2>2, <2>3, NothingMinted
<1> QED BY <1>1, <1>2, <1>3, <1>4, <1>5, <1>6, <1>7, <1>8, <1>9, <1>10 DEF Next

-----------------------------------------------------------------------------
(* What a view owes to the rows it was folded from.                        *)

(* Every claim of the view is one some row asserts.                        *)
Backed(claims, rows) ==
  \A i \in DOMAIN claims :
    \E f \in rows : i \in Asserts(f) /\ Describes(f, i, claims[i])

UserKept(claims, rows) ==
  \A i \in DOMAIN claims :
    claims[i].origin = "user" /\ claims[i].status = "superseded" =>
      \E e \in rows :
        /\ e.source = "claim" /\ e.body.origin = "user"
        /\ \/ Target(e.body) = i
           \/ /\ e.body.kind = "intent" /\ claims[i].kind = "intent"
              /\ e.body.task_id = claims[i].task_id
              /\ e.body.claim_id # i

Realities(claims, rows) ==
  \A e \in rows : IsLastExit(rows, e) =>
    /\ <<"reality", e.id>> \in DOMAIN claims
    /\ claims[<<"reality", e.id>>].status = "current"

ViewInv(claims, rows) ==
  Backed(claims, rows) /\ SlotUnique(claims) /\ UserKept(claims, rows)

(* What the two validators let through.                                    *)
Allowed(b) ==
  /\ Target(b) # NONE => Target(b)[1] # "reality"
  /\ b.origin = "agent" /\ Target(b) # NONE =>
       \E f \in log : /\ f.source = "claim" /\ f.body.op = "assert"
                      /\ f.body.claim_id = Target(b) /\ f.body.origin = "agent"
  /\ b.op = "assert" =>
       /\ b.kind = "intent" => b.origin = "user"
       /\ b.kind = "reality" => b.subject = b.claim_id
       /\ b.origin = "user" =>
            b.kind \in {"intent", "constraint", "decision", "ruled_out"}

AllAllowed == \A r \in Request : pending[r] # NONE => Allowed(pending[r].body)

(* The rebuild and the process.                                            *)
RebuildOrdered ==
  /\ writer = NONE => todo = {} /\ newClaims = Empty
  /\ daemon = "up" => writer # STARTUP
  /\ daemon = "starting" => writer = STARTUP
  /\ \A f \in log \ todo, e \in todo : f.ts <= e.ts

RebuildView ==
  writer # NONE => /\ ViewInv(newClaims, log \ todo)
                   /\ Realities(newClaims, log \ todo)

TableView == /\ ViewInv(claimTable, log)
             /\ Quiet => Realities(claimTable, log)

IInv == RowsInv /\ AllAllowed /\ RebuildOrdered /\ RebuildView /\ TableView

(* Two rows that assert one claim are one row.                             *)
LEMMA AssertedOnce ==
  ASSUME RowsInv, NEW e \in log, NEW f \in log, NEW i,
         i \in Asserts(e), i \in Asserts(f)
  PROVE  e = f
<1>1. /\ e \in ShellEvent \cup Pending /\ f \in ShellEvent \cup Pending
      /\ e \in Rows /\ f \in Rows /\ Distinct
  BY DEF RowsInv, TypeInv, TypeOK, Rows
<1>2. \A g \in ShellEvent \cup Pending : i \in Asserts(g) => i[2] = g.id
  BY DEF Asserts, ShellEvent, ShellRow, Pending, ClaimRow, ClaimEvent
<1>3. e.id = f.id
  BY <1>1, <1>2
<1> QED BY <1>1, <1>3 DEF Distinct

LEMMA DescribesSame ==
  ASSUME NEW f, NEW i, NEW a, NEW b, Describes(f, i, a), Same(b, a)
  PROVE  Describes(f, i, b)
BY DEF Describes, Same, RealityOf, FrontierOf, AuthoredOf

(* A claim a user made was asserted by a row of the user's.                *)
LEMMA UserClaimRow ==
  ASSUME RowsInv, AllAllowed, NEW f \in log, NEW i, NEW a,
         i \in Asserts(f), Describes(f, i, a), a.origin = "user"
  PROVE  /\ f.source = "claim" /\ f.body.origin = "user" /\ f.body.claim_id = i
         /\ a.kind \in {"intent", "constraint", "decision", "ruled_out"}
<1>1. f.source = "claim" /\ AuthoredOf(f, a) /\ f.body.claim_id = i
  BY DEF Describes, RealityOf, FrontierOf
<1>2. f \in Pending /\ f = pending[f.id]
  BY <1>1 DEF RowsInv, TypeInv, TypeOK, Minted, ShellEvent, ShellRow
<1>3. f.id \in Request /\ f # NONE
  BY <1>2, RequestsAssumption, WorkingStateAssumption DEF Pending
<1>4. Allowed(f.body)
  BY <1>2, <1>3 DEF AllAllowed
<1>5. f.body.op = "assert"
  BY <1>1, <1>2 DEF Asserts, Pending
<1> QED BY <1>1, <1>4, <1>5 DEF AuthoredOf, Allowed

LEMMA ViewGrows ==
  ASSUME NEW claims, NEW rows, NEW more, rows \subseteq more,
         ViewInv(claims, rows)
  PROVE  ViewInv(claims, more)
BY DEF ViewInv, Backed, UserKept

LEMMA EmptyView == ViewInv(Empty, {}) /\ Realities(Empty, {})
BY EmptyMaps DEF ViewInv, Backed, UserKept, Realities, Empty

(* A row without an exit code changes no reality.                          *)
LEMMA RealitiesGrow ==
  ASSUME NEW claims, NEW rows, NEW e, ~Folds(e), e.source = "shell",
         Realities(claims, rows)
  PROVE  Realities(claims, rows \cup {e})
BY DEF Realities, IsLastExit, IsExit, Folds

(* The heart of the argument: folding the next row keeps what the view     *)
(* owes to the rows before it, and adds what it owes to this one.          *)
LEMMA ViewFold ==
  ASSUME RowsInv, AllAllowed, NEW rows, rows \subseteq log,
         NEW e \in log, e \notin rows, \A f \in rows : f.ts <= e.ts,
         NEW c, ClaimMap(c), Folds(e), ViewInv(c, rows), Realities(c, rows)
  PROVE  LET d == FoldClaims(c, e) IN
         ViewInv(d, rows \cup {e}) /\ Realities(d, rows \cup {e})
<1> DEFINE d == FoldClaims(c, e)
<1>1. /\ e \in ShellEvent \cup Pending /\ log \subseteq Rows /\ Distinct
      /\ \A f \in log : f.ts \in Nat
      /\ e \in ShellEvent => e.source = "shell" /\ e.exit_code # NONE
      /\ e \in Pending => e.source = "claim" /\ Allowed(e.body)
  <2>1. /\ e \in ShellEvent \cup Pending /\ log \subseteq Rows /\ Distinct
        /\ log \subseteq ShellEvent \cup Pending
    BY DEF RowsInv, TypeInv, TypeOK, Rows
  <2>2. \A f \in log : f.ts \in Nat
    BY <2>1 DEF ShellEvent, ShellRow, Pending, ClaimRow
  <2>3. e \in ShellEvent => e.source = "shell" /\ e.exit_code # NONE
    BY DEF ShellEvent, ShellRow, Folds
  <2>4. ASSUME e \in Pending PROVE e.source = "claim" /\ Allowed(e.body)
    <3>1. e.source = "claim" /\ e.id \in Request /\ e # NONE
      BY <2>4, RequestsAssumption, WorkingStateAssumption DEF Pending, ClaimRow
    <3>2. e = pending[e.id]
      BY <3>1 DEF RowsInv, Minted
    <3> QED BY <3>1, <3>2 DEF AllAllowed
  <2> QED BY <2>1, <2>2, <2>3, <2>4
<1>2. FoldEffect(c, d, e)
  BY <1>1, FoldClaimsEffect
<1> HIDE DEF d
<1>3. PICK A, R :
        /\ Step(c, d, A, R)
        /\ A \subseteq Asserts(e)
        /\ e.source = "shell" => <<"reality", e.id>> \in A
        /\ e.source = "claim" /\ e.body.text # NONE => e.body.claim_id \in A
        /\ \A i \in A : Describes(e, i, d[i]) /\ d[i].status = "current"
        /\ \A j \in (DOMAIN c \ A) \cap R : Caused(c, e, j)
  BY <1>2 DEF FoldEffect
<1>4. Backed(d, rows \cup {e})
  <2>1. SUFFICES ASSUME NEW i \in DOMAIN d
                 PROVE  \E f \in rows \cup {e} : i \in Asserts(f) /\ Describes(f, i, d[i])
    BY DEF Backed
  <2>2. CASE i \in A
    BY <1>3, <2>2
  <2>3. CASE i \notin A
    <3>1. i \in DOMAIN c /\ Same(d[i], c[i])
      BY <1>3, <2>3 DEF Step
    <3>2. PICK f \in rows : i \in Asserts(f) /\ Describes(f, i, c[i])
      BY <3>1 DEF ViewInv, Backed
    <3> QED BY <3>1, <3>2, DescribesSame
  <2> QED BY <2>2, <2>3
<1>5. SlotUnique(d)
  BY <1>2 DEF FoldEffect, ViewInv
<1>6. UserKept(d, rows \cup {e})
  <2>1. SUFFICES ASSUME NEW i \in DOMAIN d, d[i].origin = "user",
                        d[i].status = "superseded"
                 PROVE  \E g \in rows \cup {e} :
                          /\ g.source = "claim" /\ g.body.origin = "user"
                          /\ \/ Target(g.body) = i
                             \/ /\ g.body.kind = "intent" /\ d[i].kind = "intent"
                                /\ g.body.task_id = d[i].task_id
                                /\ g.body.claim_id # i
    BY DEF UserKept
  <2>2. i \notin A
    BY <1>3, <2>1
  <2>3. i \in DOMAIN c /\ Same(d[i], c[i])
        /\ d[i].status = IF i \in R THEN "superseded" ELSE c[i].status
    BY <1>3, <2>2 DEF Step
  <2>4. CASE c[i].status = "superseded"
    BY <2>1, <2>3, <2>4 DEF ViewInv, UserKept, Same
  <2>5. CASE c[i].status # "superseded"
    <3>1. Caused(c, e, i)
      BY <1>3, <2>1, <2>2, <2>3, <2>5
    <3>2. PICK f \in rows : i \in Asserts(f) /\ Describes(f, i, c[i])
      BY <2>3 DEF ViewInv, Backed
    <3>3. /\ f.source = "claim" /\ f.body.origin = "user" /\ f.body.claim_id = i
          /\ c[i].kind \in {"intent", "constraint", "decision", "ruled_out"}
      BY <2>1, <2>3, <3>2, UserClaimRow DEF Same
    <3>4. e.source = "claim" /\ e \in Pending
      BY <1>1, <3>1, <3>3 DEF Caused
    <3>5. CASE Target(e.body) = i
      <4>1. i # NONE
        BY <2>3, NoneIsNoClaim DEF ClaimMap
      <4>2. e.body.origin # "agent"
        <5>1. SUFFICES ASSUME e.body.origin = "agent" PROVE FALSE
          OBVIOUS
        <5>2. PICK g \in log : /\ g.source = "claim" /\ g.body.op = "assert"
                               /\ g.body.claim_id = i /\ g.body.origin = "agent"
          BY <1>1, <3>4, <3>5, <4>1, <5>1 DEF Allowed
        <5>3. g \in Pending
          BY <5>2 DEF RowsInv, TypeInv, TypeOK, ShellEvent, ShellRow
        <5>4. i \in Asserts(g)
          BY <5>2, <5>3 DEF Asserts, Pending
        <5>5. f = g
          BY <3>2, <5>4, AssertedOnce
        <5> QED BY <3>3, <5>2, <5>5
      <4>3. e.body.origin = "user"
        BY <3>4, <4>2 DEF Pending, ClaimRow, ClaimEvent
      <4> QED BY <3>4, <3>5, <4>3
    <3>6. CASE /\ e.body.kind \in UniqueSlot /\ c[i].kind = e.body.kind
               /\ c[i].task_id = e.body.task_id
      <4>1. e.body.kind = "intent" /\ c[i].kind = "intent"
        BY <3>3, <3>6 DEF UniqueSlot
      <4>2. e.body.kind # NONE
        BY <4>1, VocabularyAssumption DEF ClaimKind
      <4>3. e.body.op = "assert" /\ e.body.text # NONE
        BY <3>4, <4>2 DEF Pending, ClaimRow, ClaimEvent
      <4>4. e.body.origin = "user"
        BY <1>1, <3>4, <4>1, <4>3 DEF Allowed
      <4>5. e.body.claim_id # i
        BY <1>3, <2>2, <3>4, <4>3
      <4> QED BY <2>3, <3>4, <3>6, <4>1, <4>4, <4>5 DEF Same
    <3> QED BY <3>1, <3>4, <3>5, <3>6 DEF Caused
  <2> QED BY <2>4, <2>5
<1>7. Realities(d, rows \cup {e})
  <2>1. SUFFICES ASSUME NEW g \in rows \cup {e}, IsLastExit(rows \cup {e}, g)
                 PROVE  /\ <<"reality", g.id>> \in DOMAIN d
                        /\ d[<<"reality", g.id>>].status = "current"
    BY DEF Realities
  <2> DEFINE k == <<"reality", g.id>>
  <2>2. CASE g = e
    BY <1>3, <2>1, <2>2 DEF IsLastExit, Step
  <2>3. CASE g # e
    <3>1. g \in rows /\ IsLastExit(rows, g) /\ g.source = "shell"
      BY <2>1, <2>3 DEF IsLastExit
    <3>2. k \in DOMAIN c /\ c[k].status = "current"
      BY <3>1 DEF Realities
    <3>3. k \in Asserts(g)
      BY <3>1 DEF Asserts
    <3>4. k \notin A
      BY <1>3, <2>3, <3>1, <3>3, AssertedOnce
    <3>5. k \in DOMAIN d /\ d[k].status = IF k \in R THEN "superseded" ELSE "current"
      BY <1>3, <3>2, <3>4 DEF Step
    <3>6. SUFFICES ASSUME k \in R PROVE FALSE
      BY <3>5
    <3>7. Caused(c, e, k)
      BY <1>3, <3>2, <3>4, <3>6
    <3>8. RealityOf(g, c[k])
      <4>1. PICK f \in rows : k \in Asserts(f) /\ Describes(f, k, c[k])
        BY <3>2 DEF ViewInv, Backed
      <4>2. f = g
        BY <3>1, <3>3, <4>1, AssertedOnce
      <4> QED BY <3>1, <4>1, <4>2 DEF Describes
    <3>9. CASE e.source = "shell"
      <4>1. e.command = g.command
        BY <3>7, <3>8, <3>9 DEF Caused, RealityOf
      <4>2. IsExit(e, g.command)
        BY <3>9, <4>1 DEF IsExit, Folds
      <4>3. e.ts = g.ts
        BY <1>1, <2>1, <3>1, <4>2 DEF IsLastExit
      <4> QED BY <1>1, <2>3, <3>1, <4>3 DEF Distinct
    <3>10. CASE e.source = "claim"
      <4>1. e \in Pending /\ Allowed(e.body)
        BY <1>1, <3>10
      <4>2. CASE Target(e.body) = k
        <5>1. k \in ClaimId
          BY <3>2 DEF ClaimMap
        <5>2. Target(e.body) # NONE /\ Target(e.body)[1] = "reality"
          BY <4>2, <5>1, NoneIsNoClaim
        <5> QED BY <4>1, <5>2 DEF Allowed
      <4>3. CASE c[k].kind = e.body.kind /\ c[k].subject = e.body.subject
        <5>1. e.body.kind = "reality" /\ e.body.subject = g.command
          BY <3>8, <4>3 DEF RealityOf
        <5>2. e.body.op = "assert"
          BY <4>1, <5>1, VocabularyAssumption DEF Pending, ClaimRow, ClaimEvent, ClaimKind
        <5>3. e.body.subject \in ClaimId
          BY <4>1, <5>1, <5>2 DEF Allowed, Pending, ClaimRow, ClaimEvent
        <5>4. g.command \in Command
          BY <3>1 DEF RowsInv, TypeInv, TypeOK, ShellEvent, ShellRow, Pending, ClaimRow
        <5> QED BY <5>1, <5>3, <5>4, VocabularyAssumption
      <4> QED BY <3>7, <3>10, <4>2, <4>3 DEF Caused
    <3> QED BY <1>1, <3>9, <3>10
  <2> QED BY <2>2, <2>3
<1> QED BY <1>4, <1>5, <1>6, <1>7 DEF ViewInv, d

-----------------------------------------------------------------------------
(* The validators: what a request decides on the table, however stale, it  *)
(* may append to the log.                                                  *)

LEMMA RealitySubject ==
  ASSUME NEW r, NEW i, NEW focal, NEW claims,
         Body(r, i, focal, claims) # NONE,
         Body(r, i, focal, claims).op = "assert",
         Body(r, i, focal, claims).kind = "reality"
  PROVE  Body(r, i, focal, claims).subject = Body(r, i, focal, claims).claim_id
<1> DEFINE b == Body(r, i, focal, claims)
<1>1. \/ b = UserRetraction(i, claims) \/ b = UserIntent(r, focal)
      \/ b = AgentClaim(r, i, focal, claims) \/ b = UserClaim(r, i, focal)
  BY DEF Body
<1>2. CASE b = UserRetraction(i, claims)
  BY <1>2 DEF UserRetraction, Retirement
<1>3. CASE b = UserIntent(r, focal)
  BY <1>3 DEF UserIntent, Assertion
<1>4. CASE b = AgentClaim(r, i, focal, claims)
  BY <1>4 DEF AgentClaim, Assertion
<1>5. CASE b = UserClaim(r, i, focal)
  BY <1>5 DEF UserClaim, Assertion, Retirement
<1> QED BY <1>1, <1>2, <1>3, <1>4, <1>5

LEMMA ValidatedIsAllowed ==
  ASSUME TypeOK, Backed(claimTable, log), NEW b \in ClaimEvent,
         Validate(b), ValidateAgainstProjection(b, claimTable),
         b.op = "assert" /\ b.kind = "reality" => b.subject = b.claim_id
  PROVE  Allowed(b)
<1> DEFINE j == Target(b)
<1>1. ASSUME j # NONE
      PROVE  /\ j[1] # "reality"
             /\ b.origin = "agent" =>
                  \E f \in log : /\ f.source = "claim" /\ f.body.op = "assert"
                                 /\ f.body.claim_id = j /\ f.body.origin = "agent"
  <2>1. j \in DOMAIN claimTable
    BY <1>1 DEF ValidateAgainstProjection
  <2>2. /\ b.origin = "user" => ~ (/\ claimTable[j].origin = "projector"
                                  /\ claimTable[j].confidence = "observed")
        /\ b.origin = "agent" => claimTable[j].origin = "agent"
    BY <1>1 DEF ValidateAgainstProjection
  <2>3. PICK f \in log : j \in Asserts(f) /\ Describes(f, j, claimTable[j])
    BY <2>1 DEF Backed
  <2>4. b.origin \in {"user", "agent"}
    BY DEF ClaimEvent
  <2> HIDE DEF j
  <2>5. CASE f.source = "shell"
    <3>1. /\ claimTable[j].origin = "projector"
          /\ \/ j = <<"reality", f.id>> /\ claimTable[j].confidence = "observed"
             \/ j = <<"frontier", f.id>>
      BY <2>3, <2>5 DEF Describes, RealityOf, FrontierOf
    <3> QED BY <2>2, <2>4, <3>1
  <2>6. CASE f.source = "claim"
    <3>1. f \in Pending
      BY <2>6 DEF TypeOK, ShellEvent, ShellRow
    <3>2. f.body.op = "assert" /\ j = f.body.claim_id /\ j = <<"authored", f.id>>
      BY <2>3, <2>6, <3>1 DEF Asserts, Pending
    <3>3. f.body.origin = claimTable[j].origin
      BY <2>3, <2>6 DEF Describes, AuthoredOf
    <3>4. j[1] # "reality"
      BY <3>2
    <3>5. ASSUME b.origin = "agent" PROVE f.body.origin = "agent"
      BY <2>2, <3>3, <3>5
    <3>6. f.source = "claim" /\ f.body.op = "assert" /\ f.body.claim_id = j
      BY <2>6, <3>2
    <3> QED BY <3>4, <3>5, <3>6
  <2> QED BY <2>3, <2>5, <2>6 DEF Describes
<1>2. ASSUME b.op = "assert"
      PROVE  /\ b.kind = "intent" => b.origin = "user"
             /\ b.origin = "user" =>
                  b.kind \in {"intent", "constraint", "decision", "ruled_out"}
  BY <1>2 DEF Validate
<1> HIDE DEF j
<1> QED BY <1>1, <1>2 DEF Allowed, j

LEMMA AllowedGrows ==
  ASSUME AllAllowed, log \subseteq log', pending' = pending
  PROVE  AllAllowed'
BY DEF AllAllowed, Allowed

LEMMA AllowedNext == IInv /\ [Next]_vars => AllAllowed'
<1> SUFFICES ASSUME IInv, [Next]_vars PROVE AllAllowed'
  OBVIOUS
<1>1. AllAllowed /\ TypeOK /\ RequestsTyped /\ Backed(claimTable, log)
  BY DEF IInv, RowsInv, TypeInv, TableView, ViewInv
<1>2. ASSUME NEW r \in Request, Decide(r)
      PROVE  AllAllowed'
  <2> DEFINE b == Body(r, input[r], FocalTask(loaded[r], claimTable), claimTable)
  <2>1. /\ pc[r] = "loading" /\ log' = log
        /\ \/ /\ b # NONE /\ Validate(b) /\ ValidateAgainstProjection(b, claimTable)
              /\ pending' = [pending EXCEPT ![r] = RowOf(r, clock, b)]
           \/ pending' = pending
    BY <1>2 DEF Decide, RowOf, storeVars
  <2>2. CASE pending' = pending
    BY <1>1, <2>1, <2>2, AllowedGrows
  <2>3. CASE pending' # pending
    <3>1. input[r] \in Input /\ TaskMap(loaded[r]) /\ ClaimMap(claimTable)
          /\ clock \in Nat
      BY <1>1, <2>1 DEF TypeOK, RequestsTyped
    <3>2. FocalTask(loaded[r], claimTable) \in TaskId \cup {NONE}
      BY <3>1, FocalTaskType
    <3>3. RowOf(r, clock, b) \in Pending
      BY <2>1, <2>3, <3>1, <3>2, BodyRow
    <3>4. b \in ClaimEvent
      BY <3>3 DEF RowOf, Pending, ClaimRow
    <3>5. b.op = "assert" /\ b.kind = "reality" => b.subject = b.claim_id
      BY <2>1, <2>3, RealitySubject
    <3> HIDE DEF b
    <3>6. Allowed(b)
      BY <1>1, <2>1, <2>3, <3>4, <3>5, ValidatedIsAllowed
    <3>7. \A q \in Request : pending'[q] = pending[q] \/ pending'[q] = RowOf(r, clock, b)
      BY <1>1, <2>1, <2>3 DEF TypeOK
    <3>8. \A q \in Request : pending'[q] # NONE => Allowed(pending'[q].body)
      BY <1>1, <3>6, <3>7 DEF AllAllowed, RowOf
    <3> QED BY <2>1, <3>8 DEF AllAllowed, Allowed
  <2> QED BY <2>2, <2>3
<1>3. ASSUME ~ \E r \in Request : Decide(r)
      PROVE  log \subseteq log' /\ pending' = pending
  BY <1>3 DEF Next, Start, Crash, FoldStep, Install, Publish, Ingest, Load,
              AppendClaim, BeginRebuild, vars, storeVars, rebuildVars, requestVars
<1> QED BY <1>1, <1>2, <1>3, AllowedGrows

-----------------------------------------------------------------------------
(* The invariant.                                                          *)

LEMMA InvInit == Init => IInv
<1> SUFFICES ASSUME Init PROVE IInv
  OBVIOUS
<1>1. RowsInv
  BY RowsInit
<1>2. AllAllowed
  BY DEF Init, AllAllowed
<1>3. RebuildOrdered /\ RebuildView
  BY DEF Init, RebuildOrdered, RebuildView
<1>4. TableView
  BY EmptyView DEF Init, TableView, Quiet
<1> QED BY <1>1, <1>2, <1>3, <1>4 DEF IInv

ViewParts == RebuildOrdered /\ RebuildView /\ TableView

(* A rebuild begins on an empty view, with every row still to fold.        *)
LEMMA ViewBegin ==
  ASSUME IInv, NEW holder, holder # NONE,
         holder = STARTUP <=> daemon' # "up", daemon' # "down",
         BeginRebuild(holder, log'), log \subseteq log', claimTable' = claimTable
  PROVE  ViewParts'
<1>1. /\ writer' = holder /\ todo' = log' /\ newClaims' = Empty
      /\ log' \ todo' = {}
  BY DEF BeginRebuild
<1>2. RebuildOrdered'
  BY <1>1 DEF RebuildOrdered
<1>3. RebuildView'
  BY <1>1, EmptyView DEF RebuildView
<1>4. TableView'
  <2>1. ViewInv(claimTable', log')
    BY ViewGrows DEF IInv, TableView
  <2>2. ~Quiet'
    BY <1>1 DEF Quiet
  <2> QED BY <2>1, <2>2 DEF TableView
<1> QED BY <1>2, <1>3, <1>4 DEF ViewParts

LEMMA ViewSame ==
  ASSUME IInv, UNCHANGED <<log, claimTable, writer, todo, newClaims, daemon>>
  PROVE  ViewParts'
BY DEF IInv, ViewParts, RebuildOrdered, RebuildView, TableView, Quiet

LEMMA ViewFoldStep == IInv /\ FoldStep => ViewParts'
<1> SUFFICES ASSUME IInv, FoldStep PROVE ViewParts'
  OBVIOUS
<1> DEFINE rows == log \ todo
<1>1. PICK e \in NextRow(todo) : /\ todo' = todo \ {e}
                                 /\ newClaims' = FoldClaims(newClaims, e)
  BY DEF FoldStep
<1>2. /\ writer # NONE /\ UNCHANGED <<log, claimTable, writer, daemon>>
      /\ e \in todo /\ e \in log /\ todo \subseteq log
      /\ \A f \in todo : e.ts <= f.ts
  BY DEF FoldStep, storeVars, NextRow, IInv, RowsInv, TypeInv, TypeOK
<1>3. /\ RowsInv /\ AllAllowed /\ ClaimMap(newClaims)
      /\ \A f \in rows, g \in todo : f.ts <= g.ts
      /\ ViewInv(newClaims, rows) /\ Realities(newClaims, rows)
  BY <1>2 DEF IInv, RowsInv, TypeInv, TypeOK, RebuildOrdered, RebuildView
<1>4. log' \ todo' = rows \cup {e}
  BY <1>1, <1>2
<1>5. RebuildOrdered'
  BY <1>1, <1>2, <1>3, <1>4 DEF RebuildOrdered, IInv
<1>6. ViewInv(newClaims', rows \cup {e}) /\ Realities(newClaims', rows \cup {e})
  <2>1. CASE Folds(e)
    <3>1. rows \subseteq log /\ e \notin rows /\ \A f \in rows : f.ts <= e.ts
      BY <1>2, <1>3
    <3> HIDE DEF rows
    <3> QED BY <1>1, <1>2, <1>3, <2>1, <3>1, ViewFold
  <2>2. CASE ~Folds(e)
    <3>1. newClaims' = newClaims
      BY <1>1, <2>2 DEF FoldClaims
    <3>2. e.source = "shell"
      BY <1>2, <1>3, <2>2
      DEF Folds, RowsInv, TypeInv, TypeOK, ShellEvent, ShellRow, Pending, ClaimRow
    <3> HIDE DEF rows
    <3> QED BY <1>3, <2>2, <3>1, <3>2, ViewGrows, RealitiesGrow
  <2> QED BY <2>1, <2>2
<1>7. RebuildView'
  BY <1>4, <1>6 DEF RebuildView
<1>8. TableView'
  BY <1>2 DEF TableView, IInv, Quiet
<1> QED BY <1>5, <1>7, <1>8 DEF ViewParts

LEMMA ViewInstall == IInv /\ Install => ViewParts'
<1> SUFFICES ASSUME IInv, Install PROVE ViewParts'
  OBVIOUS
<1>1. /\ writer # NONE /\ todo = {} /\ todo' = {} /\ log' = log
      /\ claimTable' = newClaims /\ writer' = NONE /\ newClaims' = Empty
      /\ daemon' = IF writer = STARTUP THEN "up" ELSE daemon
  BY DEF Install
<1>2. ViewInv(newClaims, log) /\ Realities(newClaims, log)
  <2>1. log \ todo = log
    BY <1>1
  <2> QED BY <1>1, <2>1 DEF IInv, RebuildView
<1>3. RebuildOrdered'
  BY <1>1, RequestsAssumption, WorkingStateAssumption DEF IInv, RebuildOrdered
<1>4. RebuildView'
  BY <1>1 DEF RebuildView
<1>5. TableView'
  BY <1>1, <1>2 DEF TableView
<1> QED BY <1>3, <1>4, <1>5 DEF ViewParts

LEMMA ViewCrash == IInv /\ Crash => ViewParts'
<1> SUFFICES ASSUME IInv, Crash PROVE ViewParts'
  OBVIOUS
<1>1. /\ writer' = NONE /\ todo' = {} /\ newClaims' = Empty /\ daemon' = "down"
      /\ log' = log /\ claimTable' = claimTable
  BY DEF Crash, storeVars
<1> QED BY <1>1 DEF ViewParts, RebuildOrdered, RebuildView, TableView, Quiet, IInv

LEMMA ViewIngest ==
  ASSUME IInv, NEW e \in bus, Ingest(e)
  PROVE  ViewParts'
<1>1. /\ daemon = "up" /\ daemon' = daemon /\ claimTable' = claimTable
  BY DEF Ingest
<1>2. e.source = "shell" /\ e.id \in EventId
  BY RequestsAssumption, WorkingStateAssumption
  DEF IInv, RowsInv, TypeInv, TypeOK, ShellEvent, ShellRow
<1>3. CASE ShouldDrop(e)
  <2>1. UNCHANGED <<log, writer, todo, newClaims>>
    BY <1>3 DEF Ingest, rebuildVars
  <2> QED BY <1>1, <2>1, ViewSame
<1>4. CASE ~ShouldDrop(e) /\ e.exit_code # NONE
  <2>1. BeginRebuild(e.id, log') /\ log \subseteq log'
    BY <1>4 DEF Ingest
  <2>2. e.id # NONE /\ e.id # STARTUP
    BY <1>2, RequestsAssumption, WorkingStateAssumption
  <2> QED BY <1>1, <2>1, <2>2, ViewBegin
<1>5. CASE ~ShouldDrop(e) /\ e.exit_code = NONE
  <2>1. /\ writer = NONE /\ log' = log \cup {e}
        /\ UNCHANGED <<writer, todo, newClaims>>
    BY <1>5 DEF Ingest, rebuildVars
  <2>2. ~Folds(e)
    BY <1>2, <1>5 DEF Folds
  <2>3. RebuildOrdered' /\ RebuildView'
    BY <1>1, <2>1 DEF IInv, RebuildOrdered, RebuildView
  <2>4. ViewInv(claimTable, log') /\ Realities(claimTable, log')
    BY <1>1, <1>2, <2>1, <2>2, ViewGrows, RealitiesGrow DEF IInv, TableView, Quiet
  <2> QED BY <1>1, <2>3, <2>4 DEF ViewParts, TableView
<1> QED BY <1>3, <1>4, <1>5

LEMMA InvNext == IInv /\ [Next]_vars => IInv'
<1> SUFFICES ASSUME IInv, [Next]_vars PROVE IInv'
  OBVIOUS
<1>1. RowsInv' /\ AllAllowed'
  BY RowsNext, AllowedNext DEF IInv
<1>2. SUFFICES ViewParts'
  BY <1>1 DEF IInv, ViewParts
<1>3. CASE Start
  <2>1. BeginRebuild(STARTUP, log') /\ daemon' = "starting"
        /\ log' = log /\ claimTable' = claimTable
    BY <1>3 DEF Start, storeVars
  <2> QED BY <2>1, RequestsAssumption, WorkingStateAssumption, ViewBegin
<1>4. CASE Crash
  BY <1>4, ViewCrash
<1>5. CASE FoldStep
  BY <1>5, ViewFoldStep
<1>6. CASE Install
  BY <1>6, ViewInstall
<1>7. ASSUME NEW x \in Run, NEW command \in Command,
             NEW code \in ExitCode \cup {NONE}, Publish(x, command, code)
      PROVE  ViewParts'
  BY <1>7, ViewSame DEF Publish, storeVars, rebuildVars
<1>8. ASSUME NEW e \in bus, Ingest(e)
      PROVE  ViewParts'
  BY <1>8, ViewIngest
<1>9. ASSUME NEW r \in Request, NEW i \in Input, Load(r, i)
      PROVE  ViewParts'
  BY <1>9, ViewSame DEF Load, storeVars, rebuildVars
<1>10. ASSUME NEW r \in Request, Decide(r)
       PROVE  ViewParts'
  BY <1>10, ViewSame DEF Decide, storeVars, rebuildVars
<1>11. ASSUME NEW r \in Request, AppendClaim(r)
       PROVE  ViewParts'
  <2>1. /\ BeginRebuild(r, log') /\ log \subseteq log' /\ daemon' = daemon
        /\ daemon = "up" /\ claimTable' = claimTable
    BY <1>11 DEF AppendClaim
  <2>2. r # NONE /\ r # STARTUP
    BY RequestsAssumption, WorkingStateAssumption
  <2> QED BY <2>1, <2>2, ViewBegin
<1>12. CASE UNCHANGED vars
  BY <1>12, ViewSame DEF vars, storeVars, rebuildVars
<1> QED BY <1>3, <1>4, <1>5, <1>6, <1>7, <1>8, <1>9, <1>10, <1>11, <1>12 DEF Next

LEMMA Invariant == Spec => []IInv
BY InvInit, InvNext, PTL DEF Spec

(* No interleaving of stale readers, late rows, rebuilds and crashes can   *)
(* make a rebuild break idx_claims_current_slot or the primary key of the  *)
(* claims table (db.rs): the rebuild that follows every append succeeds.   *)
THEOREM RebuildsSucceed == Spec => []RebuildNeverWedges
<1>1. ASSUME IInv PROVE RebuildNeverWedges
  <2>1. SlotUnique(claimTable)
    BY <1>1 DEF IInv, TableView, ViewInv
  <2>2. SlotUnique(newClaims)
    BY <1>1, EmptyMaps DEF IInv, RebuildView, RebuildOrdered, ViewInv
  <2>3. ASSUME NEW e \in todo, NEW i \in Asserts(e) \cap DOMAIN newClaims
        PROVE  FALSE
    <3>1. writer # NONE /\ e \in log
      BY <1>1 DEF IInv, RebuildOrdered, RowsInv, TypeInv, TypeOK
    <3>2. PICK f \in log \ todo : i \in Asserts(f)
      BY <1>1, <3>1 DEF IInv, RebuildView, ViewInv, Backed
    <3>3. e = f
      BY <1>1, <3>1, <3>2, AssertedOnce DEF IInv
    <3> QED BY <3>2, <3>3
  <2> QED BY <2>1, <2>2, <2>3 DEF RebuildNeverWedges
<1> QED BY <1>1, Invariant, PTL

(* Whenever no rebuild runs, the newest stored exit of every command is    *)
(* its current reality, with its exit code: neither a user nor an agent    *)
(* can retract or occupy it, whatever stale view they validated against.   *)
THEOREM ObservedRealityStands == Spec => []LatestExitIsReality
<1>1. ASSUME IInv PROVE LatestExitIsReality
  <2>1. SUFFICES ASSUME Quiet, NEW e \in log, IsLastExit(log, e)
                 PROVE  /\ <<"reality", e.id>> \in DOMAIN claimTable
                        /\ claimTable[<<"reality", e.id>>].status = "current"
                        /\ claimTable[<<"reality", e.id>>].outcome = e.exit_code
    BY DEF LatestExitIsReality
  <2> DEFINE k == <<"reality", e.id>>
  <2>2. k \in DOMAIN claimTable /\ claimTable[k].status = "current"
    BY <1>1, <2>1 DEF IInv, TableView, Realities
  <2>3. e.source = "shell" /\ k \in Asserts(e)
    BY <2>1 DEF IsLastExit, Asserts
  <2>4. PICK f \in log : k \in Asserts(f) /\ Describes(f, k, claimTable[k])
    BY <1>1, <2>2 DEF IInv, TableView, ViewInv, Backed
  <2>5. f = e
    BY <1>1, <2>3, <2>4, AssertedOnce DEF IInv
  <2>6. RealityOf(e, claimTable[k])
    BY <2>3, <2>4, <2>5 DEF Describes
  <2> QED BY <2>2, <2>6 DEF RealityOf
<1> QED BY <1>1, Invariant, PTL

(* What a user said stays in force until a user retracts it or states a    *)
(* newer intent: the validators (claim.rs) and the projector (project.rs)  *)
(* together keep it from agents and from exit codes.                       *)
THEOREM UserClaimsStand == Spec => []UserClaimsKept
<1>1. IInv => UserClaimsKept
  BY DEF IInv, TableView, ViewInv, UserKept, UserClaimsKept
<1> QED BY <1>1, Invariant, PTL

-----------------------------------------------------------------------------
(* What the write path promises to those it has answered.  IInv says that  *)
(* a view holds nothing its rows do not account for; here, that it holds   *)
(* everything they account for (Holds), and that nothing later in the fold *)
(* undoes it.                                                              *)
(* What the view owes to one row.                                          *)

TaskOf(e) == IF e.source = "shell" THEN e.command ELSE e.body.task_id
Closes(e) == e.source = "claim" /\ e.body.op = "close_task"

TasksHold(tasks, e) ==
  /\ Folds(e) => TaskOf(e) \in DOMAIN tasks
  /\ Closes(e) => tasks[TaskOf(e)].status = "done"

ClaimsHold(claims, e) ==
  /\ e.source = "shell" /\ Folds(e) => <<"reality", e.id>> \in DOMAIN claims
  /\ e.source = "claim" =>
       /\ e.body.text # NONE => e.body.claim_id \in DOMAIN claims
       /\ Target(e.body) \in DOMAIN claims =>
            claims[Target(e.body)].status = "superseded"

(* Every task of the view is some row's, and every closed one was closed.  *)
TasksTold(tasks, rows) ==
  \A t \in DOMAIN tasks :
    /\ \E e \in rows : Folds(e) /\ TaskOf(e) = t
    /\ tasks[t].status = "done" => \E e \in rows : Closes(e) /\ TaskOf(e) = t

(* A proposal to re-run stands beside the failure it is about.             *)
Failing(claims) ==
  \A i \in DOMAIN claims :
    /\ claims[i].kind = "next_action" /\ claims[i].status = "current"
    /\ claims[i].origin = "projector"
    => HasFailingReality(claims, claims[i].task_id)

FullView(tasks, claims, rows) ==
  /\ TasksTold(tasks, rows)
  /\ \A e \in rows : TasksHold(tasks, e) /\ ClaimsHold(claims, e)
  /\ Failing(claims)

(* What a request retires was asserted before the request was stamped, so  *)
(* the fold meets the two in that order, whenever either was appended.     *)
TargetsPrecede ==
  \A r \in Request : pending[r] # NONE /\ Target(pending[r].body) # NONE =>
    \E g \in log : Target(pending[r].body) \in Asserts(g) /\ g.ts < pending[r].ts

Answers ==
  \A r \in Request :
    /\ pc[r] = "rebuild" => pending[r] \in log
    /\ pc[r] = "ok" => /\ pending[r] \in log
                       /\ TasksHold(taskTable, pending[r])
                       /\ ClaimsHold(claimTable, pending[r])

DurableInv ==
  /\ TargetsPrecede
  /\ Answers
  /\ writer # NONE => FullView(newTasks, newClaims, log \ todo)
  /\ TasksTold(taskTable, log) /\ Failing(claimTable)

-----------------------------------------------------------------------------
(* One fold of the task table.                                             *)

LEMMA FoldTasksEffect ==
  ASSUME NEW tasks, TaskMap(tasks), NEW e \in ShellEvent \cup Pending, Folds(e)
  PROVE  LET d == FoldTasks(tasks, e) IN
         /\ DOMAIN d = DOMAIN tasks \cup {TaskOf(e)}
         /\ \A t \in DOMAIN tasks : t # TaskOf(e) => d[t] = tasks[t]
         /\ d[TaskOf(e)].status = IF Closes(e) THEN "done"
                                  ELSE IF TaskOf(e) \in DOMAIN tasks
                                       THEN tasks[TaskOf(e)].status ELSE "active"
<1> DEFINE task == TaskOf(e)
           open == OpenTask(tasks, task, e.id, e.ts)
           shut == CloseTask(open, task, e.id, e.ts)
           d == FoldTasks(tasks, e)
<1>1. d = IF Closes(e) THEN shut ELSE open
  BY DEF FoldTasks, TaskOf, Closes
<1>2. /\ DOMAIN open = DOMAIN tasks \cup {task}
      /\ \A t \in DOMAIN tasks : t # task => open[t] = tasks[t]
      /\ open[task] \in Task
      /\ open[task].status = IF task \in DOMAIN tasks THEN tasks[task].status
                             ELSE "active"
  <2>1. task \in TaskId /\ e.id \in EventId /\ e.ts \in Nat
    BY DEF TaskOf, ShellEvent, ShellRow, Pending, ClaimRow, ClaimEvent, TaskId
  <2> HIDE DEF task
  <2>2. CASE task \in DOMAIN tasks
    <3>1. open = [tasks EXCEPT ![task].updated_at = e.ts]
      BY <2>2 DEF OpenTask
    <3>2. open[task] = [tasks[task] EXCEPT !.updated_at = e.ts] /\ tasks[task] \in Task
      BY <2>2, <3>1 DEF TaskMap
    <3>3. open[task] \in Task /\ open[task].status = tasks[task].status
      BY <2>1, <3>2 DEF Task
    <3> QED BY <2>2, <3>1, <3>3
  <2>3. CASE task \notin DOMAIN tasks
    <3>1. open = Put(tasks, task, [status |-> "active", opened_by |-> e.id,
                                   closed_by |-> NONE, created_at |-> e.ts,
                                   updated_at |-> e.ts])
      BY <2>3 DEF OpenTask
    <3> QED BY <2>1, <2>3, <3>1 DEF Put, Task
  <2> QED BY <2>2, <2>3
<1> HIDE DEF task, open
<1>3. /\ DOMAIN shut = DOMAIN open
      /\ \A t \in DOMAIN open : t # task => shut[t] = open[t]
      /\ shut[task].status = "done"
  <2>1. shut = [open EXCEPT ![task] =
                  [open[task] EXCEPT !.status = "done", !.closed_by = e.id,
                                     !.updated_at = e.ts]]
    BY DEF CloseTask
  <2>2. shut[task] = [open[task] EXCEPT !.status = "done", !.closed_by = e.id,
                                        !.updated_at = e.ts]
    BY <1>2, <2>1
  <2>3. shut[task].status = "done"
    BY <1>2, <2>2 DEF Task
  <2> QED BY <2>1, <2>3
<1> HIDE DEF shut
<1> QED BY <1>1, <1>2, <1>3 DEF task

(* Folding one more row keeps what the task table owes to the rows.        *)
LEMMA TasksFold ==
  ASSUME NEW tasks, TaskMap(tasks), NEW rows \in SUBSET (ShellEvent \cup Pending),
         NEW e \in ShellEvent \cup Pending, Folds(e),
         TasksTold(tasks, rows), \A f \in rows : TasksHold(tasks, f)
  PROVE  LET d == FoldTasks(tasks, e) IN
         /\ TasksTold(d, rows \cup {e})
         /\ \A f \in rows \cup {e} : TasksHold(d, f)
<1> DEFINE d == FoldTasks(tasks, e)
<1>1. /\ DOMAIN d = DOMAIN tasks \cup {TaskOf(e)}
      /\ \A t \in DOMAIN tasks : t # TaskOf(e) => d[t] = tasks[t]
      /\ d[TaskOf(e)].status = IF Closes(e) THEN "done"
                               ELSE IF TaskOf(e) \in DOMAIN tasks
                                    THEN tasks[TaskOf(e)].status ELSE "active"
  BY FoldTasksEffect
<1> HIDE DEF d
<1>2. TasksTold(d, rows \cup {e})
  <2>1. SUFFICES ASSUME NEW t \in DOMAIN d
                 PROVE  /\ \E f \in rows \cup {e} : Folds(f) /\ TaskOf(f) = t
                        /\ d[t].status = "done" =>
                             \E f \in rows \cup {e} : Closes(f) /\ TaskOf(f) = t
    BY DEF TasksTold
  <2>2. CASE t # TaskOf(e)
    BY <1>1, <2>1, <2>2 DEF TasksTold
  <2>3. CASE t = TaskOf(e)
    BY <1>1, <2>1, <2>3 DEF TasksTold
  <2> QED BY <2>2, <2>3
<1>3. ASSUME NEW f \in rows \cup {e} PROVE TasksHold(d, f)
  <2>1. CASE f = e
    BY <1>1, <2>1 DEF TasksHold
  <2>2. CASE f \in rows
    <3>1. Closes(f) => Folds(f)
      BY DEF Closes, Folds
    <3> QED BY <1>1, <2>2, <3>1 DEF TasksHold
  <2> QED BY <2>1, <2>2
<1> QED BY <1>2, <1>3 DEF d

-----------------------------------------------------------------------------
(* One fold of the claim table.                                            *)

(* A success leaves no proposal of the projector's in the command's        *)
(* frontier.                                                               *)
LEMMA SuccessWithdraws ==
  ASSUME NEW c, ClaimMap(c), SlotUnique(c), NEW e \in ShellRow, e.exit_code = 0,
         NEW j \in CurrentSlot(FoldShell(c, e), e.command, "next_action",
                               FRONTIER_SUBJECT)
  PROVE  FoldShell(c, e)[j].origin # "projector"
<1> DEFINE b == SupersedeSlot(c, e.command, "reality", e.command, e.ts)
           k == <<"reality", e.id>>
           v == [task_id |-> e.command, kind |-> "reality",
                 subject |-> e.command, status |-> "current",
                 confidence |-> "observed", origin |-> "projector",
                 text |-> NONE, outcome |-> e.exit_code, evidence |-> {e.id},
                 supersedes |-> Occupant(c, e.command, "reality", e.command),
                 updated_at |-> e.ts]
           t == Put(b, k, v)
           n == Occupant(t, e.command, "next_action", FRONTIER_SUBJECT)
           d == FoldShell(c, e)
<1>1. d = SupersedeProjectorFrontier(t, e)
  BY DEF FoldShell
<1>2. ClaimMap(t) /\ SlotUnique(t)
  <2>1. ClaimMap(b) /\ \E i : Step(c, b, {}, {i})
    BY SupersedeSlotStep DEF ShellRow
  <2>2. SlotUnique(b)
    BY <2>1, SlotRetire
  <2>3. CurrentSlot(b, e.command, "reality", e.command) = {}
    BY SlotFreed DEF ShellRow, UniqueSlot
  <2>4. Occupant(c, e.command, "reality", e.command) \in ClaimId \cup {NONE}
    BY OccupantType
  <2>5. k \in ClaimId /\ v \in Claim
    BY <2>4 DEF ClaimId, Claim, ShellRow, TaskId, Subject, ClaimKind,
                ClaimConfidence, ClaimOrigin
  <2>6. v.kind = "reality" /\ v.task_id = e.command /\ v.subject = e.command
    OBVIOUS
  <2> HIDE DEF b, v, k
  <2> QED BY <2>1, <2>2, <2>3, <2>5, <2>6, PutClaim, SlotPut
<1> HIDE DEF b, v, t, d
<1>3. /\ n # NONE => n \in CurrentSlot(t, e.command, "next_action", FRONTIER_SUBJECT)
      /\ n = NONE => CurrentSlot(t, e.command, "next_action", FRONTIER_SUBJECT) = {}
  BY <1>2, OccupantType
<1>4. \A i \in CurrentSlot(t, e.command, "next_action", FRONTIER_SUBJECT) : i = n
  BY <1>2, <1>3 DEF CurrentSlot, SlotUnique, UniqueSlot
<1> HIDE DEF n
<1>5. j \in CurrentSlot(d, e.command, "next_action", FRONTIER_SUBJECT)
  BY DEF d
<1>6. CASE n # NONE /\ t[n].origin = "projector"
  <2>1. d = SupersedeClaim(t, n, e.ts)
    BY <1>1, <1>6 DEF SupersedeProjectorFrontier, n
  <2>2. Step(t, d, {}, {n})
    BY <1>2, <2>1, SupersedeClaimStep DEF ShellRow
  <2>3. j \in CurrentSlot(t, e.command, "next_action", FRONTIER_SUBJECT) /\ j # n
    BY <1>5, <2>2 DEF Step, Same, CurrentSlot
  <2> QED BY <1>4, <2>3
<1>7. CASE ~(n # NONE /\ t[n].origin = "projector")
  <2>1. d = t
    BY <1>1, <1>7 DEF SupersedeProjectorFrontier, n
  <2>2. d[j].origin # "projector"
    BY <1>3, <1>4, <1>5, <1>7, <2>1
  <2> QED BY <2>2 DEF d
<1> QED BY <1>6, <1>7

(* A claim row of the log is the one its request built.                    *)
LEMMA ClaimRowPending ==
  ASSUME RowsInv, AllAllowed, NEW e \in log, e.source = "claim"
  PROVE  /\ e \in Pending /\ e.id \in Request /\ e = pending[e.id] /\ e # NONE
         /\ Allowed(e.body)
<1>1. e \in Pending
  BY DEF RowsInv, TypeInv, TypeOK, ShellEvent, ShellRow
<1>2. e.id \in Request /\ e # NONE
  BY <1>1, RequestsAssumption, WorkingStateAssumption DEF Pending
<1>3. e = pending[e.id]
  BY DEF RowsInv, Minted
<1> QED BY <1>1, <1>2, <1>3 DEF AllAllowed

(* Folding one more row keeps what the claim table owes to the rows: what  *)
(* this row adds is nothing that an earlier one retired.                   *)
LEMMA ClaimsFold ==
  ASSUME RowsInv, AllAllowed, TargetsPrecede, NEW rows, rows \subseteq log,
         NEW e \in log, e \notin rows, \A f \in rows : f.ts <= e.ts,
         NEW c, ClaimMap(c), Folds(e), \A f \in rows : ClaimsHold(c, f)
  PROVE  \A f \in rows \cup {e} : ClaimsHold(FoldClaims(c, e), f)
<1> DEFINE d == FoldClaims(c, e)
<1>1. e \in ShellEvent \cup Pending /\ \A f \in log : f.ts \in Nat
  BY DEF RowsInv, TypeInv, TypeOK, ShellEvent, ShellRow, Pending, ClaimRow
<1>2. FoldEffect(c, d, e)
  BY <1>1, FoldClaimsEffect
<1> HIDE DEF d
<1>3. PICK A, R :
        /\ Step(c, d, A, R)
        /\ A \subseteq Asserts(e)
        /\ e.source = "shell" => <<"reality", e.id>> \in A
        /\ e.source = "claim" /\ e.body.text # NONE => e.body.claim_id \in A
        /\ e.source = "claim" => Target(e.body) \in R \/ Target(e.body) = NONE
  BY <1>2 DEF FoldEffect
<1>4. DOMAIN c \subseteq DOMAIN d /\ A \subseteq DOMAIN d
      /\ DOMAIN d \subseteq ClaimId
  BY <1>2, <1>3 DEF Step, FoldEffect, ClaimMap
<1>5. SUFFICES ASSUME NEW f \in rows \cup {e} PROVE ClaimsHold(d, f)
  BY DEF d
<1>6. f.source = "shell" /\ Folds(f) => <<"reality", f.id>> \in DOMAIN d
  BY <1>3, <1>4 DEF ClaimsHold
<1>7. f.source = "claim" /\ f.body.text # NONE => f.body.claim_id \in DOMAIN d
  BY <1>3, <1>4 DEF ClaimsHold
<1>8. ASSUME f.source = "claim", Target(f.body) \in DOMAIN d
      PROVE  d[Target(f.body)].status = "superseded"
  <2> DEFINE j == Target(f.body)
  <2>1. j # NONE
    BY <1>4, <1>8, NoneIsNoClaim
  <2>2. PICK g \in log : j \in Asserts(g) /\ g.ts < f.ts
    <3>1. f \in log
      OBVIOUS
    <3>2. f.id \in Request /\ f = pending[f.id] /\ f # NONE
      BY <1>8, <3>1, ClaimRowPending
    <3> QED BY <2>1, <3>2 DEF TargetsPrecede
  <2>3. j \notin A
    <3>1. SUFFICES ASSUME j \in A PROVE FALSE
      OBVIOUS
    <3>2. g = e
      BY <1>3, <2>2, <3>1, AssertedOnce
    <3>3. f.ts <= e.ts /\ f.ts \in Nat /\ e.ts \in Nat
      BY <1>1
    <3> QED BY <2>2, <3>2, <3>3
  <2>4. j \in DOMAIN c /\ d[j].status = IF j \in R THEN "superseded" ELSE c[j].status
    BY <1>3, <1>8, <2>3 DEF Step
  <2>5. CASE f = e
    BY <1>3, <1>8, <2>1, <2>4, <2>5
  <2>6. CASE f \in rows
    BY <1>8, <2>4, <2>6 DEF ClaimsHold
  <2> QED BY <2>5, <2>6
<1> QED BY <1>6, <1>7, <1>8 DEF ClaimsHold

(* No authored claim retires what the projector observed.                  *)
LEMMA RealityKept ==
  ASSUME RowsInv, AllAllowed, NEW e \in log, e.source = "claim", NEW g \in log,
         g.source = "shell", NEW c, ClaimMap(c), <<"reality", g.id>> \in DOMAIN c,
         RealityOf(g, c[<<"reality", g.id>>])
  PROVE  ~Caused(c, e, <<"reality", g.id>>)
<1> DEFINE k == <<"reality", g.id>>
<1>1. e \in Pending /\ Allowed(e.body)
  BY ClaimRowPending
<1>2. Target(e.body) # k
  <2>1. k \in ClaimId /\ k[1] = "reality"
    BY DEF ClaimMap
  <2> QED BY <1>1, <2>1, NoneIsNoClaim DEF Allowed
<1>3. ~(c[k].kind = e.body.kind /\ c[k].subject = e.body.subject)
  <2>1. SUFFICES ASSUME c[k].kind = e.body.kind, c[k].subject = e.body.subject
                 PROVE  FALSE
    OBVIOUS
  <2>2. e.body.kind = "reality" /\ e.body.subject = g.command
    BY <2>1 DEF RealityOf
  <2>3. e.body.op = "assert"
    BY <1>1, <2>2, VocabularyAssumption DEF Pending, ClaimRow, ClaimEvent, ClaimKind
  <2>4. e.body.subject \in ClaimId
    BY <1>1, <2>2, <2>3 DEF Allowed, Pending, ClaimRow, ClaimEvent
  <2>5. g.command \in Command
    BY DEF RowsInv, TypeInv, TypeOK, ShellEvent, ShellRow, Pending, ClaimRow
  <2> QED BY <2>2, <2>4, <2>5, VocabularyAssumption
<1> HIDE DEF k
<1>4. e.source # "shell"
  OBVIOUS
<1>5. ~Caused(c, e, k)
  BY <1>2, <1>3, <1>4 DEF Caused
<1> QED BY <1>5 DEF k

(* Folding one more row leaves no proposal without the failure it is about.*)
LEMMA FailingFold ==
  ASSUME RowsInv, AllAllowed, NEW rows, rows \subseteq log,
         NEW e \in log, e \notin rows, \A f \in rows : f.ts <= e.ts,
         NEW c, ClaimMap(c), Folds(e), ViewInv(c, rows), Realities(c, rows),
         Failing(c)
  PROVE  Failing(FoldClaims(c, e))
<1> DEFINE d == FoldClaims(c, e)
<1>1. /\ e \in ShellEvent \cup Pending
      /\ \A f \in log : f.source = "claim" =>
           f.body.origin # "projector" /\ f.body.origin \in {"user", "agent"}
  BY DEF RowsInv, TypeInv, TypeOK, ShellEvent, ShellRow, Pending, ClaimRow, ClaimEvent
<1>2. FoldEffect(c, d, e)
  BY <1>1, FoldClaimsEffect
<1>3. Backed(d, rows \cup {e}) /\ Backed(c, rows)
  BY ViewFold DEF ViewInv
<1>4. ASSUME e \in ShellRow, e.exit_code = 0,
             NEW j \in CurrentSlot(d, e.command, "next_action", FRONTIER_SUBJECT)
      PROVE  d[j].origin # "projector"
  <2>1. d = FoldShell(c, e)
    BY <1>4 DEF FoldClaims, ShellRow
  <2>2. SlotUnique(c)
    BY DEF ViewInv
  <2> HIDE DEF d
  <2> QED BY <1>4, <2>1, <2>2, SuccessWithdraws
<1> HIDE DEF d
<1>5. PICK A, R :
        /\ Step(c, d, A, R)
        /\ A \subseteq Asserts(e)
        /\ e.source = "shell" => <<"reality", e.id>> \in A
        /\ \A i \in A : Describes(e, i, d[i]) /\ d[i].status = "current"
        /\ \A j \in (DOMAIN c \ A) \cap R : Caused(c, e, j)
  BY <1>2 DEF FoldEffect
<1>6. SUFFICES ASSUME NEW i \in DOMAIN d, d[i].kind = "next_action",
                      d[i].status = "current", d[i].origin = "projector"
               PROVE  HasFailingReality(d, d[i].task_id)
  BY DEF Failing, d
<1>7. PICK h \in rows \cup {e} : i \in Asserts(h) /\ FrontierOf(h, d[i])
                                 /\ h.source = "shell"
  <2>1. PICK h \in rows \cup {e} : i \in Asserts(h) /\ Describes(h, i, d[i])
    BY <1>3 DEF Backed
  <2> QED BY <1>1, <1>6, <2>1 DEF Describes, RealityOf, AuthoredOf
<1>8. CASE e.source = "shell" /\ e.command = d[i].task_id
  <2>1. e \in ShellRow /\ e.exit_code # NONE
    BY <1>1, <1>8 DEF Folds, ShellEvent, ShellRow, Pending, ClaimRow
  <2>2. e.exit_code # 0
    BY <1>4, <1>6, <1>7, <1>8, <2>1 DEF CurrentSlot, FrontierOf
  <2>3. <<"reality", e.id>> \in DOMAIN d
    BY <1>5, <1>8 DEF Step
  <2>4. RealityOf(e, d[<<"reality", e.id>>])
        /\ d[<<"reality", e.id>>].status = "current"
    BY <1>5, <1>8 DEF Describes
  <2> QED BY <1>8, <2>1, <2>2, <2>3, <2>4 DEF HasFailingReality, RealityOf
<1>9. CASE ~(e.source = "shell" /\ e.command = d[i].task_id)
  <2>1. i \notin A
    BY <1>1, <1>5, <1>6, <1>9 DEF Describes, RealityOf, FrontierOf, AuthoredOf
  <2>2. i \in DOMAIN c /\ Same(d[i], c[i]) /\ c[i].status = "current"
    BY <1>5, <1>6, <2>1 DEF Step
  <2>3. PICK k \in DOMAIN c : /\ c[k].status = "current"
                              /\ c[k].task_id = d[i].task_id
                              /\ c[k].kind = "reality"
                              /\ c[k].outcome \notin {NONE, 0}
    BY <1>6, <2>2 DEF Failing, HasFailingReality, Same
  <2>4. PICK g \in rows : k \in Asserts(g) /\ Describes(g, k, c[k])
    BY <1>3, <2>3 DEF Backed
  <2>5. k \notin A
    BY <1>5, <2>4, AssertedOnce
  <2>6. g.source = "shell" /\ k = <<"reality", g.id>> /\ RealityOf(g, c[k])
    BY <2>3, <2>4 DEF Describes, AuthoredOf, FrontierOf
  <2>7. ~Caused(c, e, k)
    <3>1. CASE e.source = "claim"
      BY <2>3, <2>6, <3>1, RealityKept
    <3>2. CASE e.source = "shell"
      BY <1>9, <2>3, <3>2 DEF Caused
    <3> QED BY <1>1, <3>1, <3>2 DEF ShellEvent, ShellRow, Pending, ClaimRow
  <2>8. k \in DOMAIN d /\ Same(d[k], c[k]) /\ d[k].status = "current"
    BY <1>5, <2>3, <2>5, <2>7 DEF Step
  <2> QED BY <2>3, <2>8 DEF HasFailingReality, Same
<1> QED BY <1>8, <1>9

-----------------------------------------------------------------------------
(* The invariant of the write path.                                        *)

PathInv == IInv /\ DurableInv

LEMMA EmptyFull == FullView(Empty, Empty, {}) /\ TasksTold(Empty, {}) /\ Failing(Empty)
BY DEF FullView, TasksTold, Failing, Empty

LEMMA ToldGrows ==
  ASSUME NEW tasks, NEW rows, NEW more, rows \subseteq more, TasksTold(tasks, rows)
  PROVE  TasksTold(tasks, more)
BY DEF TasksTold

LEMMA PathInit == Init => PathInv
<1> SUFFICES ASSUME Init PROVE PathInv
  OBVIOUS
<1>1. IInv
  BY InvInit
<1>2. TargetsPrecede /\ Answers
  BY DEF Init, TargetsPrecede, Answers
<1>3. TasksTold(taskTable, log) /\ Failing(claimTable) /\ writer = NONE
  BY EmptyFull DEF Init
<1> QED BY <1>1, <1>2, <1>3 DEF PathInv, DurableInv

LEMMA TargetsStay ==
  ASSUME TargetsPrecede, log \subseteq log', pending' = pending
  PROVE  TargetsPrecede'
BY DEF TargetsPrecede

LEMMA TargetsDecide ==
  ASSUME PathInv, NEW r \in Request, Decide(r)
  PROVE  TargetsPrecede'
<1> DEFINE b == Body(r, input[r], FocalTask(loaded[r], claimTable), claimTable)
           e == RowOf(r, clock, b)
<1>1. /\ TypeOK /\ Distinct /\ TargetsPrecede /\ Backed(claimTable, log)
      /\ ClaimMap(claimTable)
  BY DEF PathInv, IInv, RowsInv, TypeInv, TypeOK, TableView, ViewInv, DurableInv
<1>2. /\ log' = log
      /\ \/ /\ ValidateAgainstProjection(b, claimTable)
            /\ pending' = [pending EXCEPT ![r] = e]
         \/ pending' = pending
  BY DEF Decide, RowOf, storeVars
<1>3. CASE pending' = pending
  BY <1>1, <1>2, <1>3, TargetsStay
<1>4. CASE pending' # pending
  <2>1. e.body = b /\ e.ts = clock
    BY DEF RowOf
  <2>2. ASSUME Target(b) # NONE
        PROVE  \E g \in log : Target(b) \in Asserts(g) /\ g.ts < clock
    <3>1. Target(b) \in DOMAIN claimTable
      BY <1>2, <1>4, <2>2 DEF ValidateAgainstProjection
    <3>2. PICK g \in log : Target(b) \in Asserts(g)
      BY <1>1, <3>1 DEF Backed
    <3>3. g.ts < clock
      BY <1>1 DEF Distinct, Rows
    <3> QED BY <3>2, <3>3
  <2> HIDE DEF b, e
  <2>3. \A q \in Request : pending'[q] = IF q = r THEN e ELSE pending[q]
    BY <1>1, <1>2, <1>4 DEF TypeOK
  <2> QED BY <1>1, <1>2, <2>1, <2>2, <2>3 DEF TargetsPrecede
<1> QED BY <1>3, <1>4

(* Steps that leave the tables, the rebuild and the answered requests be.  *)
LEMMA DurableStay ==
  ASSUME PathInv, TargetsPrecede', log \subseteq log',
         UNCHANGED <<taskTable, claimTable>>,
         writer' # NONE =>
           \/ UNCHANGED <<log, writer, todo, newTasks, newClaims>>
           \/ todo' = log' /\ newTasks' = Empty /\ newClaims' = Empty,
         \A r \in Request :
           /\ pc'[r] = "ok" => pc[r] = "ok" /\ pending'[r] = pending[r]
           /\ pc'[r] = "rebuild" =>
                \/ pc[r] = "rebuild" /\ pending'[r] = pending[r]
                \/ pending'[r] \in log'
  PROVE  DurableInv'
<1>1. Answers'
  BY DEF PathInv, DurableInv, Answers
<1>2. TasksTold(taskTable', log') /\ Failing(claimTable')
  BY ToldGrows DEF PathInv, DurableInv
<1>3. ASSUME writer' # NONE PROVE FullView(newTasks', newClaims', log' \ todo')
  <2>1. CASE UNCHANGED <<log, writer, todo, newTasks, newClaims>>
    BY <1>3, <2>1 DEF PathInv, DurableInv
  <2>2. CASE todo' = log' /\ newTasks' = Empty /\ newClaims' = Empty
    <3>1. log' \ todo' = {}
      BY <2>2
    <3> QED BY <2>2, <3>1, EmptyFull
  <2> QED BY <1>3, <2>1, <2>2
<1> QED BY <1>1, <1>2, <1>3 DEF DurableInv

LEMMA DurableFoldStep == PathInv /\ FoldStep => DurableInv'
<1> SUFFICES ASSUME PathInv, FoldStep PROVE DurableInv'
  OBVIOUS
<1> DEFINE rows == log \ todo
<1>1. PICK e \in NextRow(todo) : /\ todo' = todo \ {e}
                                 /\ newTasks' = FoldTasks(newTasks, e)
                                 /\ newClaims' = FoldClaims(newClaims, e)
  BY DEF FoldStep
<1>2. /\ writer # NONE
      /\ UNCHANGED <<log, taskTable, claimTable, pc, pending>>
      /\ e \in todo /\ e \in log /\ todo \subseteq log
  BY DEF FoldStep, storeVars, requestVars, NextRow, PathInv, IInv, RowsInv,
         TypeInv, TypeOK
<1>3. /\ RowsInv /\ AllAllowed /\ TaskMap(newTasks) /\ ClaimMap(newClaims)
      /\ log \subseteq ShellEvent \cup Pending
      /\ \A f \in rows : f.ts <= e.ts
      /\ ViewInv(newClaims, rows) /\ Realities(newClaims, rows)
      /\ FullView(newTasks, newClaims, rows) /\ TargetsPrecede
  BY <1>2 DEF PathInv, IInv, RowsInv, TypeInv, TypeOK, RebuildOrdered,
              RebuildView, DurableInv
<1>4. log' \ todo' = rows \cup {e} /\ rows \subseteq log /\ e \notin rows
  BY <1>1, <1>2
<1> HIDE DEF rows
<1>5. FullView(newTasks', newClaims', rows \cup {e})
  <2>1. CASE Folds(e)
    <3>1. /\ TasksTold(newTasks', rows \cup {e})
          /\ \A f \in rows \cup {e} : TasksHold(newTasks', f)
      BY <1>1, <1>2, <1>3, <1>4, <2>1, TasksFold DEF FullView
    <3>2. \A f \in rows \cup {e} : ClaimsHold(newClaims', f)
      BY <1>1, <1>2, <1>3, <1>4, <2>1, ClaimsFold DEF FullView
    <3>3. Failing(newClaims')
      BY <1>1, <1>2, <1>3, <1>4, <2>1, FailingFold DEF FullView
    <3> QED BY <3>1, <3>2, <3>3 DEF FullView
  <2>2. CASE ~Folds(e)
    <3>1. newTasks' = newTasks /\ newClaims' = newClaims
      BY <1>1, <2>2 DEF FoldTasks, FoldClaims
    <3>2. e.source = "shell"
      BY <1>2, <1>3, <2>2 DEF Folds, ShellEvent, ShellRow, Pending, ClaimRow
    <3>3. TasksHold(newTasks, e) /\ ClaimsHold(newClaims, e)
      BY <2>2, <3>2 DEF TasksHold, ClaimsHold, Closes
    <3>4. TasksTold(newTasks, rows \cup {e})
      BY <1>3, ToldGrows DEF FullView
    <3> QED BY <1>3, <3>1, <3>3, <3>4 DEF FullView
  <2> QED BY <2>1, <2>2
<1>6. TargetsPrecede'
  BY <1>2, <1>3, TargetsStay
<1>7. Answers'
  BY <1>2 DEF PathInv, DurableInv, Answers
<1>8. TasksTold(taskTable', log') /\ Failing(claimTable')
  BY <1>2 DEF PathInv, DurableInv
<1> QED BY <1>4, <1>5, <1>6, <1>7, <1>8 DEF DurableInv

(* What is installed holds every row of the log: those of the requests     *)
(* answered before and of the one answered now.                            *)
LEMMA DurableInstall == PathInv /\ Install => DurableInv'
<1> SUFFICES ASSUME PathInv, Install PROVE DurableInv'
  OBVIOUS
<1>1. /\ writer # NONE /\ todo = {} /\ log' = log /\ writer' = NONE
      /\ taskTable' = newTasks /\ claimTable' = newClaims /\ pending' = pending
      /\ pc' = IF writer \in Request THEN [pc EXCEPT ![writer] = "ok"] ELSE pc
  BY DEF Install
<1>2. FullView(newTasks, newClaims, log)
  <2>1. log \ todo = log
    BY <1>1
  <2> QED BY <1>1, <2>1 DEF PathInv, DurableInv
<1>3. Answers'
  <2>1. SUFFICES ASSUME NEW r \in Request
                 PROVE  /\ pc'[r] = "rebuild" => pending[r] \in log
                        /\ pc'[r] = "ok" => /\ pending[r] \in log
                                            /\ TasksHold(newTasks, pending[r])
                                            /\ ClaimsHold(newClaims, pending[r])
    BY <1>1 DEF Answers
  <2>2. pc[r] \in {"rebuild", "ok"} => pending[r] \in log
    BY DEF PathInv, DurableInv, Answers
  <2>3. /\ pc'[r] = "rebuild" => pc[r] = "rebuild"
        /\ pc'[r] = "ok" => pc[r] \in {"rebuild", "ok"}
    BY <1>1 DEF PathInv, IInv, RowsInv, TypeInv, TypeOK, RequestsTyped
  <2> QED BY <1>2, <2>2, <2>3 DEF FullView
<1>4. TargetsPrecede'
  BY <1>1, TargetsStay DEF PathInv, DurableInv
<1> QED BY <1>1, <1>2, <1>3, <1>4 DEF DurableInv, FullView

LEMMA DurableNext == PathInv /\ [Next]_vars => DurableInv'
<1> SUFFICES ASSUME PathInv, [Next]_vars PROVE DurableInv'
  OBVIOUS
<1>1. /\ TargetsPrecede /\ TypeOK
      /\ pc \in [Request -> {"idle", "loading", "append", "rebuild", "ok",
                             "refused", "lost"}]
      /\ pending \in [Request -> Pending \cup {NONE}]
  BY DEF PathInv, DurableInv, IInv, RowsInv, TypeInv, TypeOK
<1>2. CASE Start
  <2>1. /\ UNCHANGED <<log, taskTable, claimTable, pc, pending>>
        /\ todo' = log' /\ newTasks' = Empty /\ newClaims' = Empty
    BY <1>2 DEF Start, BeginRebuild, storeVars, requestVars
  <2> QED BY <1>1, <2>1, TargetsStay, DurableStay
<1>3. CASE Crash
  <2>1. /\ UNCHANGED <<log, taskTable, claimTable, pending>> /\ writer' = NONE
        /\ pc' = [r \in Request |-> IF pc[r] \in {"loading", "append", "rebuild"}
                                    THEN "lost" ELSE pc[r]]
    BY <1>3 DEF Crash, storeVars
  <2> QED BY <1>1, <2>1, TargetsStay, DurableStay
<1>4. CASE FoldStep
  BY <1>4, DurableFoldStep
<1>5. CASE Install
  BY <1>5, DurableInstall
<1>6. ASSUME NEW x \in Run, NEW command \in Command,
             NEW code \in ExitCode \cup {NONE}, Publish(x, command, code)
      PROVE  DurableInv'
  <2>1. UNCHANGED <<log, taskTable, claimTable, writer, todo, newTasks,
                    newClaims, pc, pending>>
    BY <1>6 DEF Publish, storeVars, rebuildVars, requestVars
  <2> QED BY <1>1, <2>1, TargetsStay, DurableStay
<1>7. ASSUME NEW e \in bus, Ingest(e)
      PROVE  DurableInv'
  <2>1. /\ log \subseteq log' /\ UNCHANGED <<taskTable, claimTable, pc, pending>>
        /\ writer' # NONE =>
             \/ UNCHANGED <<log, writer, todo, newTasks, newClaims>>
             \/ todo' = log' /\ newTasks' = Empty /\ newClaims' = Empty
    BY <1>7 DEF Ingest, BeginRebuild, rebuildVars, requestVars
  <2> QED BY <1>1, <2>1, TargetsStay, DurableStay
<1>8. ASSUME NEW r \in Request, NEW i \in Input, Load(r, i)
      PROVE  DurableInv'
  <2>1. /\ UNCHANGED <<log, taskTable, claimTable, writer, todo, newTasks,
                       newClaims, pending>>
        /\ pc' = [pc EXCEPT ![r] = "loading"]
    BY <1>8 DEF Load, storeVars, rebuildVars
  <2> QED BY <1>1, <2>1, TargetsStay, DurableStay
<1>9. ASSUME NEW r \in Request, Decide(r)
      PROVE  DurableInv'
  <2>1. /\ UNCHANGED <<log, taskTable, claimTable, writer, todo, newTasks,
                       newClaims>>
        /\ pc' \in {[pc EXCEPT ![r] = "append"], [pc EXCEPT ![r] = "refused"]}
        /\ \A q \in Request : q # r => pending'[q] = pending[q]
    BY <1>9, <1>1 DEF Decide, storeVars, rebuildVars
  <2> QED BY <1>1, <1>9, <2>1, TargetsDecide, DurableStay
<1>10. ASSUME NEW r \in Request, AppendClaim(r)
       PROVE  DurableInv'
  <2>1. /\ UNCHANGED <<taskTable, claimTable, pending>>
        /\ log' = log \cup {pending[r]} /\ pc' = [pc EXCEPT ![r] = "rebuild"]
        /\ todo' = log' /\ newTasks' = Empty /\ newClaims' = Empty
    BY <1>10 DEF AppendClaim, BeginRebuild
  <2> QED BY <1>1, <2>1, TargetsStay, DurableStay
<1>11. CASE UNCHANGED vars
  <2>1. UNCHANGED <<log, taskTable, claimTable, writer, todo, newTasks,
                    newClaims, pc, pending>>
    BY <1>11 DEF vars, storeVars, rebuildVars, requestVars
  <2> QED BY <1>1, <2>1, TargetsStay, DurableStay
<1> QED BY <1>2, <1>3, <1>4, <1>5, <1>6, <1>7, <1>8, <1>9, <1>10, <1>11 DEF Next

LEMMA PathNext == PathInv /\ [Next]_vars => PathInv'
BY InvNext, DurableNext DEF PathInv

LEMMA PathInvariant == Spec => []PathInv
BY PathInit, PathNext, PTL DEF Spec

(* The projector proposes to re-run a command only while the command       *)
(* stands as failing: no agent's or user's claim, and no rebuild, leaves   *)
(* the proposal behind without the failure (project.rs, fold_shell).       *)
THEOREM ProposalsAreOfFailures == Spec => []FrontierOnlyWhileFailing
<1>1. PathInv => FrontierOnlyWhileFailing
  BY DEF PathInv, DurableInv, Failing, FrontierOnlyWhileFailing
<1> QED BY <1>1, PathInvariant, PTL

(* What append_and_rebuild (main.rs) has answered ok stays done: later     *)
(* rebuilds, rows that arrive late with older timestamps, crashes and      *)
(* restarts keep the row in the log and its effect in the view.            *)
THEOREM AnswersAreDurable == Spec => []AckIsDurable
<1>1. ASSUME PathInv PROVE AckIsDurable
  <2>1. SUFFICES ASSUME NEW r \in Request, pc[r] = "ok"
                 PROVE  pending[r] \in log /\ Effective(pending[r].body)
    BY DEF AckIsDurable
  <2> DEFINE e == pending[r]
             b == e.body
  <2>2. /\ e \in log /\ TasksHold(taskTable, e) /\ ClaimsHold(claimTable, e)
        /\ e \in Pending /\ RowsInv /\ ClaimMap(claimTable)
        /\ Backed(claimTable, log)
    BY <1>1, <2>1 DEF PathInv, DurableInv, Answers, IInv, RowsInv, TypeInv,
                      RequestsTyped, TypeOK, TableView, ViewInv
  <2>3. e.source = "claim" /\ Folds(e) /\ TaskOf(e) = b.task_id
    BY <2>2 DEF Pending, ClaimRow, Folds, TaskOf
  <2> HIDE DEF e
  <2>4. ASSUME b.op = "assert"
        PROVE  /\ b.claim_id \in DOMAIN claimTable
               /\ claimTable[b.claim_id].origin = b.origin
               /\ claimTable[b.claim_id].text = b.text
    <3>1. b.text # NONE /\ b.claim_id \in Asserts(e)
      BY <2>2, <2>3, <2>4 DEF Pending, Asserts
    <3>2. b.claim_id \in DOMAIN claimTable
      BY <2>2, <2>3, <3>1 DEF ClaimsHold
    <3>3. PICK f \in log : /\ b.claim_id \in Asserts(f)
                           /\ Describes(f, b.claim_id, claimTable[b.claim_id])
      BY <2>2, <3>2 DEF Backed
    <3>4. f = e
      BY <2>2, <3>1, <3>3, AssertedOnce
    <3> QED BY <2>3, <3>2, <3>3, <3>4 DEF Describes, AuthoredOf
  <2>5. ASSUME b.op = "close_task"
        PROVE  /\ b.task_id \in DOMAIN taskTable
               /\ taskTable[b.task_id].status = "done"
    BY <2>2, <2>3, <2>5 DEF TasksHold, Closes
  <2>6. Target(b) \in DOMAIN claimTable =>
          claimTable[Target(b)].status = "superseded"
    BY <2>2, <2>3 DEF ClaimsHold
  <2>7. Effective(b)
    BY <2>4, <2>5, <2>6 DEF Effective
  <2> QED BY <2>2, <2>7 DEF e
<1> QED BY <1>1, PathInvariant, PTL

(* No install forgets a claim a user, an agent or an exit made, or reopens *)
(* a task: replace_projection (db.rs) always replaces a view by one that   *)
(* accounts for at least the same rows.                                    *)
THEOREM InstallsForgetNothing == Spec => NothingIsForgotten
<1> DEFINE Kept == /\ \A i \in DOMAIN claimTable \ DOMAIN claimTable' :
                        i[1] = "frontier"
                   /\ \A t \in DOMAIN taskTable :
                        /\ t \in DOMAIN taskTable'
                        /\ taskTable[t].status = "done" =>
                             taskTable'[t].status = "done"
<1>1. ASSUME PathInv, [Next]_vars PROVE [Kept]_vars
  <2>1. CASE Install
    <3>1. claimTable' = newClaims /\ taskTable' = newTasks /\ writer # NONE /\ todo = {}
      BY <2>1 DEF Install
    <3>2. FullView(newTasks, newClaims, log)
      <4>1. log \ todo = log
        BY <3>1
      <4> QED BY <1>1, <3>1, <4>1 DEF PathInv, DurableInv
    <3>3. Backed(claimTable, log) /\ TasksTold(taskTable, log)
      BY <1>1 DEF PathInv, DurableInv, IInv, TableView, ViewInv
    <3>4. ASSUME NEW i \in DOMAIN claimTable, i \notin DOMAIN newClaims
          PROVE  i[1] = "frontier"
      <4>1. PICK f \in log : i \in Asserts(f) /\ Describes(f, i, claimTable[i])
        BY <3>3, <3>4 DEF Backed
      <4>2. ClaimsHold(newClaims, f)
        BY <3>2 DEF FullView
      <4>3. CASE f.source = "claim"
        BY <3>4, <4>1, <4>2, <4>3 DEF Asserts, ClaimsHold
      <4>4. CASE f.source = "shell"
        <5>1. \/ i = <<"frontier", f.id>>
              \/ i = <<"reality", f.id>> /\ f.exit_code # NONE
          BY <4>1, <4>4 DEF Describes, RealityOf
        <5>2. i # <<"reality", f.id>> \/ f.exit_code = NONE
          BY <3>4, <4>2, <4>4 DEF ClaimsHold, Folds
        <5> QED BY <5>1, <5>2
      <4> QED BY <4>1, <4>3, <4>4 DEF Describes
    <3>5. ASSUME NEW t \in DOMAIN taskTable
          PROVE  /\ t \in DOMAIN newTasks
                 /\ taskTable[t].status = "done" => newTasks[t].status = "done"
      BY <3>2, <3>3 DEF FullView, TasksTold, TasksHold
    <3> QED BY <3>1, <3>4, <3>5
  <2>2. ASSUME ~Install PROVE UNCHANGED <<taskTable, claimTable>>
    BY <1>1, <2>2 DEF Next, Start, Crash, FoldStep, Publish, Ingest, Load, Decide,
                      AppendClaim, vars, storeVars
  <2> QED BY <2>1, <2>2
<1> QED BY <1>1, PathInvariant, PTL DEF Spec, NothingIsForgotten

-----------------------------------------------------------------------------
(* The fold of the log.                                                    *)

LEMMA LogStamped ==
  ASSUME RowsInv
  PROVE  Stamped(log) /\ clock \in Nat /\ \A e \in log : e.ts < clock
BY DEF RowsInv, TypeInv, TypeOK, Distinct, Rows, Stamped, ShellEvent, ShellRow,
       Pending, ClaimRow

LEMMA ViewOfNext ==
  ASSUME RowsInv, NEW R, R \subseteq Folding(log), NEW e \in Folding(log), e \notin R,
         \A f \in R : f.ts <= e.ts
  PROVE  ViewsOf(Folding(log))[R \cup {e}] = Grown(ViewsOf(Folding(log))[R], e)
<1>1. LET F == Folding(log) IN
      Stamped(F) /\ clock \in Nat /\ \A f \in F : f.ts < clock
  BY LogStamped DEF Folding, Stamped
<1> QED BY <1>1, GrownView

-----------------------------------------------------------------------------
(* The write path implements the board.                                    *)

ShownInv ==
  /\ daemon = "down" => writer = NONE
  /\ bus \cap log = {}
  /\ writer # NONE =>
       [tasks |-> newTasks, claims |-> newClaims] = ViewsOf(Folding(log))[Folding(log \ todo)]
  /\ Quiet => [tasks |-> taskTable, claims |-> claimTable] = FoldOf(log)

BoardInv == PathInv /\ ShownInv

LEMMA FoldOfFolded == \A rows : FoldOf(rows) = ViewsOf(Folding(rows))[Folding(rows)]
BY DEF FoldOf, Folding

LEMMA ShownInit == Init => ShownInv
BY DEF Init, ShownInv, Quiet

(* A rebuild begins with no row folded.                                    *)
LEMMA ShownBegin ==
  ASSUME RowsInv', writer' # NONE, daemon' # "down", bus' \cap log' = {},
         todo' = log', newTasks' = Empty, newClaims' = Empty
  PROVE  ShownInv'
<1>1. Folding(log' \ todo') = {}
  BY DEF Folding
<1>2. ViewsOf(Folding(log'))[{}] = [tasks |-> Empty, claims |-> Empty]
  <2>1. Stamped(log') /\ clock' \in Nat /\ \A e \in log' : e.ts < clock'
    BY DEF RowsInv, TypeInv, TypeOK, Distinct, Rows, Stamped, ShellEvent, ShellRow,
           Pending, ClaimRow
  <2>2. Stamped(Folding(log')) /\ \A e \in Folding(log') : e.ts < clock'
    BY <2>1 DEF Folding, Stamped
  <2> QED BY <2>1, <2>2, ViewOfNone
<1>3. ~Quiet'
  BY DEF Quiet
<1> QED BY <1>1, <1>2, <1>3 DEF ShownInv

LEMMA ShownSame ==
  ASSUME ShownInv, bus' \cap log' = {},
         UNCHANGED <<log, taskTable, claimTable, writer, todo, newTasks,
                     newClaims, daemon>>
  PROVE  ShownInv'
BY DEF ShownInv, Quiet

LEMMA ShownFoldStep == BoardInv /\ FoldStep => ShownInv'
<1> SUFFICES ASSUME BoardInv, FoldStep PROVE ShownInv'
  OBVIOUS
<1> DEFINE R == Folding(log \ todo)
<1>1. PICK e \in NextRow(todo) : /\ todo' = todo \ {e}
                                 /\ newTasks' = FoldTasks(newTasks, e)
                                 /\ newClaims' = FoldClaims(newClaims, e)
  BY DEF FoldStep
<1>2. /\ writer # NONE /\ RowsInv /\ todo \subseteq log /\ e \in todo /\ e \in log
      /\ UNCHANGED <<log, taskTable, claimTable, writer, daemon, bus>>
      /\ \A f \in log \ todo : f.ts <= e.ts
      /\ [tasks |-> newTasks, claims |-> newClaims] = ViewsOf(Folding(log))[R]
      /\ bus \cap log = {} /\ (daemon = "down" => writer = NONE)
  BY DEF FoldStep, storeVars, NextRow, BoardInv, PathInv, IInv, RowsInv, TypeInv,
         TypeOK, RebuildOrdered, ShownInv
<1>3. log' \ todo' = (log \ todo) \cup {e} /\ e \notin log \ todo
  BY <1>1, <1>2
<1>4. [tasks |-> newTasks', claims |-> newClaims'] = ViewsOf(Folding(log))[Folding(log' \ todo')]
  <2>1. CASE Folds(e)
    <3>1. /\ Folding(log' \ todo') = R \cup {e} /\ R \subseteq Folding(log)
          /\ e \in Folding(log) /\ e \notin R /\ \A f \in R : f.ts <= e.ts
      BY <1>2, <1>3, <2>1 DEF Folding
    <3>2. ViewsOf(Folding(log))[R \cup {e}] = Grown(ViewsOf(Folding(log))[R], e)
      BY <1>2, <3>1, ViewOfNext
    <3>3. Grown([tasks |-> newTasks, claims |-> newClaims], e) = [tasks |-> newTasks', claims |-> newClaims']
      BY <1>1 DEF Grown
    <3> QED BY <1>2, <3>1, <3>2, <3>3
  <2>2. CASE ~Folds(e)
    <3>1. newTasks' = newTasks /\ newClaims' = newClaims
      BY <1>1, <2>2 DEF FoldTasks, FoldClaims
    <3>2. Folding(log' \ todo') = R
      BY <1>3, <2>2 DEF Folding
    <3> QED BY <1>2, <3>1, <3>2
  <2> QED BY <2>1, <2>2
<1>5. ~Quiet'
  BY <1>2 DEF Quiet
<1> QED BY <1>2, <1>4, <1>5 DEF ShownInv

(* What is installed is the fold of the whole log.                         *)
LEMMA InstallsFold ==
  ASSUME BoardInv, Install
  PROVE  /\ [tasks |-> taskTable', claims |-> claimTable'] = FoldOf(log) /\ log' = log
         /\ daemon' = "up" /\ ~Quiet /\ Quiet'
<1>1. /\ writer # NONE /\ todo = {} /\ log' = log /\ writer' = NONE
      /\ taskTable' = newTasks /\ claimTable' = newClaims
      /\ daemon' = IF writer = STARTUP THEN "up" ELSE daemon
  BY DEF Install
<1>2. log \ todo = log
  BY <1>1
<1>3. [tasks |-> newTasks, claims |-> newClaims] = FoldOf(log)
  BY <1>1, <1>2, FoldOfFolded DEF BoardInv, ShownInv
<1>4. daemon' = "up"
  BY <1>1 DEF BoardInv, ShownInv, PathInv, IInv, RebuildOrdered, RowsInv, TypeInv,
              TypeOK
<1> QED BY <1>1, <1>3, <1>4 DEF Quiet

(* A row that no rebuild is for changes no fold.                           *)
LEMMA FoldSame ==
  ASSUME NEW rows, NEW e, ~Folds(e)
  PROVE  FoldOf(rows \cup {e}) = FoldOf(rows)
<1>1. Folding(rows \cup {e}) = Folding(rows)
  BY DEF Folding
<1> QED BY <1>1, FoldOfFolded

LEMMA ShownNext == BoardInv /\ [Next]_vars => ShownInv'
<1> SUFFICES ASSUME BoardInv, [Next]_vars PROVE ShownInv'
  OBVIOUS
<1>1. RowsInv' /\ RowsInv /\ ShownInv /\ bus \cap log = {} /\ TypeOK /\ Minted
  BY PathNext DEF BoardInv, PathInv, IInv, RowsInv, TypeInv, ShownInv
<1>2. CASE Start
  <2>1. /\ UNCHANGED <<log, bus>> /\ writer' = STARTUP /\ daemon' = "starting"
        /\ todo' = log' /\ newTasks' = Empty /\ newClaims' = Empty
    BY <1>2 DEF Start, BeginRebuild, storeVars
  <2> QED BY <1>1, <2>1, ShownBegin, WorkingStateAssumption
<1>3. CASE Crash
  BY <1>3 DEF Crash, ShownInv, Quiet
<1>4. CASE FoldStep
  BY <1>4, ShownFoldStep
<1>5. CASE Install
  <2>1. bus' = bus /\ writer' = NONE
    BY <1>5 DEF Install
  <2> QED BY <1>1, <1>5, <2>1, InstallsFold DEF ShownInv
<1>6. ASSUME NEW x \in Run, NEW command \in Command,
             NEW code \in ExitCode \cup {NONE}, Publish(x, command, code)
      PROVE  ShownInv'
  <2> DEFINE e == [id |-> x, ts |-> clock, source |-> "shell",
                   command |-> command, exit_code |-> code]
  <2>1. /\ x \notin published /\ bus' \subseteq bus \cup {e}
        /\ UNCHANGED <<log, taskTable, claimTable, writer, todo, newTasks,
                       newClaims, daemon>>
    BY <1>6 DEF Publish, storeVars, rebuildVars
  <2>2. e \notin log
    BY <1>1, <2>1 DEF Minted
  <2> HIDE DEF e
  <2> QED BY <1>1, <2>1, <2>2, ShownSame
<1>7. ASSUME NEW e \in bus, Ingest(e)
      PROVE  ShownInv'
  <2>1. /\ daemon = "up" /\ UNCHANGED <<taskTable, claimTable, daemon>>
        /\ bus' = bus \ {e} /\ bus' \cap log' = {}
    BY <1>1, <1>7 DEF Ingest
  <2>2. e.source = "shell" /\ e.id \in Run
    BY <1>1 DEF TypeOK, ShellEvent, ShellRow
  <2>3. CASE ShouldDrop(e)
    BY <1>1, <1>7, <2>1, <2>3, ShownSame DEF Ingest, rebuildVars
  <2>4. CASE ~ShouldDrop(e) /\ e.exit_code # NONE
    <3>1. /\ writer' = e.id /\ todo' = log' /\ newTasks' = Empty
          /\ newClaims' = Empty
      BY <1>7, <2>4 DEF Ingest, BeginRebuild
    <3>2. e.id # NONE
      BY <2>2, RequestsAssumption, WorkingStateAssumption
    <3> QED BY <1>1, <2>1, <3>1, <3>2, ShownBegin
  <2>5. CASE ~ShouldDrop(e) /\ e.exit_code = NONE
    <3>1. writer = NONE /\ writer' = NONE /\ log' = log \cup {e}
      BY <1>7, <2>5 DEF Ingest, rebuildVars
    <3>2. ~Folds(e)
      BY <2>2, <2>5 DEF Folds
    <3> QED BY <1>1, <2>1, <3>1, <3>2, FoldSame DEF ShownInv, Quiet
  <2> QED BY <2>3, <2>4, <2>5
<1>8. ASSUME NEW r \in Request, NEW i \in Input, Load(r, i)
      PROVE  ShownInv'
  BY <1>1, <1>8, ShownSame DEF Load, storeVars, rebuildVars
<1>9. ASSUME NEW r \in Request, Decide(r)
      PROVE  ShownInv'
  BY <1>1, <1>9, ShownSame DEF Decide, storeVars, rebuildVars
<1>10. ASSUME NEW r \in Request, AppendClaim(r)
       PROVE  ShownInv'
  <2>1. /\ daemon' = "up" /\ bus' = bus /\ log' = log \cup {pending[r]}
        /\ writer' = r /\ todo' = log' /\ newTasks' = Empty /\ newClaims' = Empty
        /\ pc[r] = "append"
    BY <1>10 DEF AppendClaim, BeginRebuild
  <2>2. pending[r].source = "claim"
    BY <1>1, <2>1 DEF RowsInv, TypeInv, RequestsTyped, Pending, ClaimRow
  <2>3. bus' \cap log' = {}
    BY <1>1, <2>1, <2>2 DEF Minted
  <2>4. r # NONE
    BY RequestsAssumption, WorkingStateAssumption
  <2> QED BY <1>1, <2>1, <2>3, <2>4, ShownBegin
<1>11. CASE UNCHANGED vars
  BY <1>1, <1>11, ShownSame DEF vars, storeVars, rebuildVars
<1> QED BY <1>2, <1>3, <1>4, <1>5, <1>6, <1>7, <1>8, <1>9, <1>10, <1>11 DEF Next

LEMMA BoardInvariant == Spec => []BoardInv
<1>1. Init => BoardInv
  BY PathInit, ShownInit DEF BoardInv
<1>2. BoardInv /\ [Next]_vars => BoardInv'
  BY PathNext, ShownNext DEF BoardInv
<1> QED BY <1>1, <1>2, PTL DEF Spec

(* Whenever the daemon is at rest, the tables of the view are the fold of  *)
(* the whole log in the order of its stamps: the rebuilds, which read it   *)
(* row by row beside writers and crashes, add up to that.                  *)
ViewIsTheFold == Quiet => [tasks |-> taskTable, claims |-> claimTable] = FoldOf(log)

THEOREM RestShowsTheFold == Spec => []ViewIsTheFold
<1>1. BoardInv => ViewIsTheFold
  BY DEF BoardInv, ShownInv, ViewIsTheFold
<1> QED BY <1>1, BoardInvariant, PTL

LEMMA BoardInitially == Init => Board!BoardInit
<1> SUFFICES ASSUME Init PROVE Board!BoardInit
  OBVIOUS
<1>1. FoldOf({}) = [tasks |-> Empty, claims |-> Empty]
  <2>1. Folding({}) = {} /\ Stamped({}) /\ \A e \in {} : e.ts < 0
    BY DEF Folding, Stamped
  <2> QED BY <2>1, ViewOfNone, FoldOfFolded
<1>2. Answered = {}
  BY DEF Init, Answered
<1> QED BY <1>1, <1>2 DEF Init, Board!BoardInit, Quiet

(* What the board sees of a step that answers nobody.                      *)
LEMMA GrantedSame ==
  ASSUME TypeOK,
         \A r \in Request : (pc[r] = "ok" <=> pc'[r] = "ok") /\
                            (pc[r] = "ok" => pending'[r] = pending[r])
  PROVE  {pending'[r] : r \in Answered'} = {pending[r] : r \in Answered}
BY DEF Answered

LEMMA BoardStep == BoardInv /\ [Next]_vars => [Board!BoardNext]_(Board!boardVars)
<1> SUFFICES ASSUME BoardInv, [Next]_vars PROVE [Board!BoardNext]_(Board!boardVars)
  OBVIOUS
<1> DEFINE granted == {pending[r] : r \in Answered}
<1>1. /\ RowsInv /\ ShownInv /\ bus \cap log = {} /\ TypeOK /\ Minted
      /\ pc \in [Request -> {"idle", "loading", "append", "rebuild", "ok",
                             "refused", "lost"}]
      /\ pending \in [Request -> Pending \cup {NONE}]
  BY DEF BoardInv, PathInv, IInv, RowsInv, TypeInv, TypeOK, ShownInv
<1>2. ASSUME UNCHANGED <<log, taskTable, claimTable, Quiet>>, granted' = granted
      PROVE  [Board!BoardNext]_(Board!boardVars)
  BY <1>2 DEF Board!boardVars
<1>3. CASE Start
  <2>1. UNCHANGED <<log, taskTable, claimTable, pc, pending>> /\ ~Quiet /\ ~Quiet'
    BY <1>3 DEF Start, storeVars, requestVars, Quiet
  <2>2. granted' = granted
    BY <1>1, <2>1, GrantedSame
  <2>3. Quiet' = Quiet
    BY <2>1 DEF Quiet
  <2> QED BY <1>2, <2>1, <2>2, <2>3
<1>4. CASE Crash
  <2>1. /\ UNCHANGED <<log, taskTable, claimTable, pending>> /\ ~Quiet'
        /\ \A r \in Request : pc[r] = "ok" <=> pc'[r] = "ok"
    BY <1>1, <1>4 DEF Crash, storeVars, Quiet
  <2>2. granted' = granted
    BY <1>1, <2>1, GrantedSame
  <2>3. CASE Quiet
    <3>1. [tasks |-> taskTable', claims |-> claimTable'] =
            [tasks |-> taskTable, claims |-> claimTable]
      BY <2>1
    <3>2. Quiet' = FALSE
      BY <2>1 DEF Quiet
    <3>3. Board!Close
      BY <2>1, <2>2, <2>3, <3>1, <3>2 DEF Board!Close
    <3> QED BY <3>3 DEF Board!BoardNext
  <2>4. CASE ~Quiet
    <3>1. Quiet' = Quiet
      BY <2>1, <2>4 DEF Quiet
    <3> QED BY <1>2, <2>1, <2>2, <3>1
  <2> QED BY <2>3, <2>4
<1>5. CASE FoldStep
  <2>1. /\ UNCHANGED <<log, taskTable, claimTable, pc, pending, writer, daemon>>
    BY <1>5 DEF FoldStep, storeVars, requestVars
  <2>2. granted' = granted
    BY <1>1, <2>1, GrantedSame
  <2> QED BY <1>2, <2>1, <2>2 DEF Quiet
<1>6. CASE Install
  <2>1. /\ [tasks |-> taskTable', claims |-> claimTable'] = FoldOf(log) /\ log' = log
        /\ ~Quiet /\ Quiet'
    BY <1>6, InstallsFold
  <2>2. /\ pending' = pending
        /\ pc' = IF writer \in Request THEN [pc EXCEPT ![writer] = "ok"] ELSE pc
    BY <1>6 DEF Install
  <2>3. granted' = granted \/ \E e \in log : granted' = granted \cup {e}
    <3>1. CASE writer \in Request
      <4>1. pc[writer] = "rebuild" /\ pending[writer] \in log
        BY <3>1 DEF BoardInv, PathInv, DurableInv, Answers, IInv, RowsInv, TypeInv,
                    RequestsTyped
      <4>2. Answered' = Answered \cup {writer}
        BY <1>1, <2>2, <3>1 DEF Answered
      <4>3. granted' = granted \cup {pending[writer]}
        BY <2>2, <4>2
      <4> QED BY <4>1, <4>3
    <3>2. CASE writer \notin Request
      BY <1>1, <2>2, <3>2, GrantedSame
    <3> QED BY <3>1, <3>2
  <2>4. Board!Show
    BY <2>1, <2>3 DEF Board!Show
  <2> QED BY <2>4 DEF Board!BoardNext
<1>7. ASSUME NEW x \in Run, NEW command \in Command,
             NEW code \in ExitCode \cup {NONE}, Publish(x, command, code)
      PROVE  [Board!BoardNext]_(Board!boardVars)
  <2>1. UNCHANGED <<log, taskTable, claimTable, pc, pending, writer, daemon>>
    BY <1>7 DEF Publish, storeVars, rebuildVars, requestVars
  <2>2. granted' = granted
    BY <1>1, <2>1, GrantedSame
  <2> QED BY <1>2, <2>1, <2>2 DEF Quiet
<1>8. ASSUME NEW e \in bus, Ingest(e)
      PROVE  [Board!BoardNext]_(Board!boardVars)
  <2>1. /\ daemon = "up" /\ UNCHANGED <<taskTable, claimTable, daemon, pc, pending>>
        /\ e \notin log /\ e.source = "shell" /\ e.id \in Run
    BY <1>1, <1>8 DEF Ingest, requestVars, TypeOK, ShellEvent, ShellRow
  <2>2. granted' = granted
    BY <1>1, <2>1, GrantedSame
  <2>3. CASE ShouldDrop(e)
    <3>1. UNCHANGED <<log, writer>>
      BY <1>8, <2>3 DEF Ingest, rebuildVars
    <3> QED BY <1>2, <2>1, <2>2, <3>1 DEF Quiet
  <2>4. CASE ~ShouldDrop(e)
    <3>1. /\ Quiet /\ log' = log \cup {e}
          /\ \/ e.exit_code # NONE /\ writer' = e.id
             \/ e.exit_code = NONE /\ writer' = writer
      BY <1>8, <2>1, <2>4 DEF Ingest, BeginRebuild, rebuildVars, Quiet
    <3>2. Quiet' => [tasks |-> taskTable, claims |-> claimTable] = FoldOf(log')
      <4>1. ASSUME e.exit_code # NONE PROVE ~Quiet'
        <5>1. writer' # NONE
          BY <2>1, <3>1, <4>1, RequestsAssumption, WorkingStateAssumption
        <5> QED BY <5>1 DEF Quiet
      <4>2. ASSUME e.exit_code = NONE
            PROVE  [tasks |-> taskTable, claims |-> claimTable] = FoldOf(log')
        <5>1. ~Folds(e)
          BY <2>1, <4>2 DEF Folds
        <5> QED BY <1>1, <3>1, <5>1, FoldSame DEF ShownInv
      <4> QED BY <4>1, <4>2
    <3>3. Board!Post
      <4>1. Quiet' \in BOOLEAN
        BY DEF Quiet
      <4> QED BY <2>1, <2>2, <3>1, <3>2, <4>1 DEF Board!Post
    <3> QED BY <3>3 DEF Board!BoardNext
  <2> QED BY <2>3, <2>4
<1>9. ASSUME NEW r \in Request, NEW i \in Input, Load(r, i)
      PROVE  [Board!BoardNext]_(Board!boardVars)
  <2>1. /\ UNCHANGED <<log, taskTable, claimTable, pending, writer, daemon>>
        /\ pc[r] = "idle" /\ pc' = [pc EXCEPT ![r] = "loading"]
    BY <1>9 DEF Load, storeVars, rebuildVars
  <2>2. granted' = granted
    BY <1>1, <2>1, GrantedSame
  <2> QED BY <1>2, <2>1, <2>2 DEF Quiet
<1>10. ASSUME NEW r \in Request, Decide(r)
       PROVE  [Board!BoardNext]_(Board!boardVars)
  <2>1. /\ UNCHANGED <<log, taskTable, claimTable, writer, daemon>>
        /\ pc[r] = "loading"
        /\ pc' \in {[pc EXCEPT ![r] = "append"], [pc EXCEPT ![r] = "refused"]}
        /\ \A q \in Request : q # r => pending'[q] = pending[q]
    BY <1>1, <1>10 DEF Decide, storeVars, rebuildVars
  <2>2. granted' = granted
    BY <1>1, <2>1, GrantedSame
  <2> QED BY <1>2, <2>1, <2>2 DEF Quiet
<1>11. ASSUME NEW r \in Request, AppendClaim(r)
       PROVE  [Board!BoardNext]_(Board!boardVars)
  <2>1. /\ Quiet /\ UNCHANGED <<taskTable, claimTable, pending>> /\ writer' = r
        /\ pc[r] = "append" /\ pc' = [pc EXCEPT ![r] = "rebuild"]
        /\ log' = log \cup {pending[r]}
    BY <1>11 DEF AppendClaim, BeginRebuild, Quiet
  <2>2. granted' = granted
    BY <1>1, <2>1, GrantedSame
  <2>3. pending[r] \notin log
    <3>1. pending[r].source = "claim" /\ pending[r].id = r
      BY <1>1, <2>1 DEF RowsInv, TypeInv, RequestsTyped, Pending, ClaimRow
    <3> QED BY <1>1, <2>1, <3>1 DEF Minted
  <2>4. ~Quiet'
    <3>1. r # NONE
      BY RequestsAssumption, WorkingStateAssumption
    <3> QED BY <2>1, <3>1 DEF Quiet
  <2>5. Board!Post
    <3>1. Quiet' \in BOOLEAN
      BY DEF Quiet
    <3> QED BY <2>1, <2>2, <2>3, <2>4, <3>1 DEF Board!Post
  <2> QED BY <2>5 DEF Board!BoardNext
<1>12. CASE UNCHANGED vars
  <2>1. UNCHANGED <<log, taskTable, claimTable, pc, pending, writer, daemon>>
    BY <1>12 DEF vars, storeVars, rebuildVars, requestVars
  <2>2. granted' = granted
    BY <1>1, <2>1, GrantedSame
  <2> QED BY <1>2, <2>1, <2>2 DEF Quiet
<1> QED BY <1>3, <1>4, <1>5, <1>6, <1>7, <1>8, <1>9, <1>10, <1>11, <1>12 DEF Next

(* The daemon's write path (store_ingested, append_and_rebuild, run_daemon *)
(* of main.rs and rebuild of project.rs) implements the claim board: all   *)
(* that is proved of the board holds of what clients of the daemon see.    *)
THEOREM WritePathIsABoard == Spec => ImplementsBoard
BY BoardInitially, BoardStep, BoardInvariant, PTL DEF Spec, ImplementsBoard, Board!BoardSpec

=============================================================================
