------------------------------- MODULE Claims -------------------------------
(***************************************************************************)
(* The vocabulary of the working state and its projector: tasks, claims,   *)
(* authored claim events, the two validators (crates/core/src/claim.rs)    *)
(* and the fold of one event into the materialised view                    *)
(* (crates/memory/src/project.rs).  Everything here is a constant          *)
(* operator; the modules that extend it own the state.                     *)
(*                                                                         *)
(* Data that is abstracted:                                                *)
(*  - a shell subject (cwd, newline, collapsed command) is a Command, and  *)
(*    it is also its own task id: the code hashes it with 128 bits of      *)
(*    BLAKE3, which is taken to be injective;                              *)
(*  - an event id is an element of EventId; a claim id is a pair of the    *)
(*    rule that made it and the event it was made for, which is what the   *)
(*    "c_" prefix and the hash of (task, subject, event) amount to;        *)
(*  - texts are members of Text; an exit code is 0 or not 0.               *)
(*                                                                         *)
(* The materialised view is two partial functions, TaskId -> Task and      *)
(* ClaimId -> Claim.  The code's vectors are searched by id, and by        *)
(* (status, task, kind, subject); the first search has one answer because  *)
(* ids are unique, the second because of SlotUnique.                       *)
(***************************************************************************)
EXTENDS Naturals

CONSTANTS Command,           \* normalized commands the shell reports
          EventId,           \* ids of events (ULIDs)
          Text,              \* claim texts that pass check_text
          INTENT_SUBJECT,    \* subject of the one intent slot of a task
          FRONTIER_SUBJECT,  \* subject of the one next-action slot of a task
          NONE               \* Option::None

ClaimId == {"authored", "reality", "frontier"} \X EventId
TaskId  == Command \cup EventId
Subject == Command \cup ClaimId \cup {INTENT_SUBJECT, FRONTIER_SUBJECT}

ClaimKind == {"reality", "intent", "decision", "constraint", "ruled_out",
              "unknown", "next_action"}
ClaimOrigin     == {"projector", "user", "agent"}
ClaimConfidence == {"observed", "stated", "inferred", "hypothesis"}
ExitCode        == {0, 1}

(* Subjects of different sources are different, and NONE is no value of    *)
(* any other domain.                                                       *)
ASSUME VocabularyAssumption ==
  /\ INTENT_SUBJECT # FRONTIER_SUBJECT
  /\ Command \cap EventId = {}
  /\ {INTENT_SUBJECT, FRONTIER_SUBJECT} \cap (Command \cup ClaimId) = {}
  /\ Command \cap ClaimId = {}
  /\ NONE \notin TaskId \cup Subject \cup ClaimKind \cup ClaimConfidence
                   \cup Text \cup ExitCode

(* Kinds with at most one current claim per (task, subject).               *)
UniqueSlot == {"intent", "next_action", "reality"}

Task == [status        : {"active", "done"},
         opened_by     : EventId,
         closed_by     : EventId \cup {NONE},
         created_at    : Nat,
         updated_at    : Nat]

Claim == [task_id    : TaskId,
          kind       : ClaimKind,
          subject    : Subject,
          status     : {"current", "superseded"},
          confidence : ClaimConfidence,
          origin     : ClaimOrigin,
          text       : Text \cup {NONE},
          outcome    : ExitCode \cup {NONE},
          evidence   : SUBSET EventId,
          supersedes : ClaimId \cup {NONE},
          updated_at : Nat]

ClaimEvent == [op         : {"assert", "supersede", "close_task"},
               claim_id   : ClaimId,
               task_id    : TaskId,
               kind       : ClaimKind \cup {NONE},
               subject    : Subject \cup {NONE},
               text       : Text \cup {NONE},
               confidence : ClaimConfidence \cup {NONE},
               origin     : {"user", "agent"},
               evidence   : SUBSET EventId,
               supersedes : ClaimId \cup {NONE}]

(* The rows of the events table the fold reads.                            *)
ShellRow == [id : EventId, ts : Nat, source : {"shell"},
             command : Command, exit_code : ExitCode \cup {NONE}]
ClaimRow == [id : EventId, ts : Nat, source : {"claim"}, body : ClaimEvent]

(* A function with the domain extended by k, or overridden at k.           *)
Put(f, k, v) == [x \in DOMAIN f \cup {k} |-> IF x = k THEN v ELSE f[x]]

Empty == [x \in {} |-> x]

-----------------------------------------------------------------------------
(* Projection (claim.rs)                                                   *)

(* Ids of the current claims in a uniqueness slot.                         *)
CurrentSlot(claims, task, kind, subject) ==
  {i \in DOMAIN claims : /\ claims[i].status = "current"
                         /\ claims[i].task_id = task
                         /\ claims[i].kind = kind
                         /\ claims[i].subject = subject}

HasFailingReality(claims, task) ==
  \E i \in DOMAIN claims : /\ claims[i].status = "current"
                           /\ claims[i].task_id = task
                           /\ claims[i].kind = "reality"
                           /\ claims[i].outcome \notin {NONE, 0}

(* Mutant: a bump reopens the task.                                        *)
OpenTaskReopens(tasks, task, id, ts) ==
  Put(tasks, task, [status |-> "active", opened_by |-> id, closed_by |-> NONE,
                    created_at |-> ts, updated_at |-> ts])

(* open_task bumps an existing task, whatever its status, or adds it.      *)
OpenTask(tasks, task, id, ts) ==
  IF task \in DOMAIN tasks
  THEN [tasks EXCEPT ![task].updated_at = ts]
  ELSE Put(tasks, task, [status |-> "active", opened_by |-> id,
                         closed_by |-> NONE, created_at |-> ts,
                         updated_at |-> ts])

CloseTask(tasks, task, id, ts) ==
  [tasks EXCEPT ![task].status = "done", ![task].closed_by = id,
                ![task].updated_at = ts]

(* Mutant: a status the tables do not have.                                *)
SupersedeClaimAsRetracted(claims, id, ts) ==
  IF id \in DOMAIN claims
  THEN [claims EXCEPT ![id].status = "retracted"] ELSE claims
SupersedeClaim(claims, id, ts) ==
  IF id \in DOMAIN claims
  THEN [claims EXCEPT ![id].status = "superseded", ![id].updated_at = ts]
  ELSE claims

(* The occupant of a slot, or NONE.                                        *)
Occupant(claims, task, kind, subject) ==
  LET slot == CurrentSlot(claims, task, kind, subject)
  IN  IF slot = {} THEN NONE ELSE CHOOSE i \in slot : TRUE

SupersedeSlot(claims, task, kind, subject, ts) ==
  LET occupant == Occupant(claims, task, kind, subject)
  IN  IF occupant = NONE THEN claims ELSE SupersedeClaim(claims, occupant, ts)

-----------------------------------------------------------------------------
(* Validators (claim.rs).  A predicate is TRUE where the function returns  *)
(* Ok.  The body carries the origin it is validated for.                   *)

Validate(b) ==
  \/ b.op = "close_task" /\ b.origin = "user"
  \/ b.op = "supersede" /\ b.text = NONE
  \/ /\ b.op # "close_task"
     /\ b.text # NONE
     /\ \/ /\ b.origin = "user"
           /\ b.confidence = "stated"
           /\ b.kind \in {"intent", "constraint", "decision", "ruled_out"}
        \/ /\ b.origin = "agent"
           /\ b.confidence \in {"inferred", "hypothesis"}
           /\ b.kind \in {"reality", "decision", "ruled_out", "unknown",
                          "next_action"}
           /\ b.kind = "unknown" => b.confidence = "hypothesis"

(* The claim an event replaces or retracts.                                *)
Target(b) == IF b.supersedes # NONE THEN b.supersedes
             ELSE IF b.op = "supersede" THEN b.claim_id ELSE NONE

(* Mutant: the target has only to exist.                                   *)
ValidateAnyTarget(b, claims) ==
  Target(b) # NONE => Target(b) \in DOMAIN claims

ValidateAgainstProjection(b, claims) ==
  /\ Target(b) # NONE =>
       /\ Target(b) \in DOMAIN claims
       /\ b.origin = "user" =>
            ~ (/\ claims[Target(b)].origin = "projector"
               /\ claims[Target(b)].confidence = "observed")
       /\ b.origin = "agent" => /\ claims[Target(b)].origin = "agent"
                                /\ claims[Target(b)].task_id = b.task_id
  /\ b.origin = "agent" /\ b.kind = "next_action" =>
       \A i \in CurrentSlot(claims, b.task_id, "next_action", FRONTIER_SUBJECT) :
          claims[i].origin # "user"

-----------------------------------------------------------------------------
(* The projector (project.rs).  An event changes the task table and the    *)
(* claim table independently: neither half of the fold reads the other.    *)

(* What the fold ignores: a shell row without an exit code.                *)
Folds(e) == e.source = "claim" \/ e.exit_code # NONE

EnsureProjectorFrontier(claims, e) ==
  LET occupant == Occupant(claims, e.command, "next_action", FRONTIER_SUBJECT)
      open     == SupersedeSlot(claims, e.command, "next_action",
                                FRONTIER_SUBJECT, e.ts)
  IN  IF occupant # NONE /\ claims[occupant].origin # "projector"
      THEN claims
      ELSE Put(open, <<"frontier", e.id>>,
               [task_id |-> e.command, kind |-> "next_action",
                subject |-> FRONTIER_SUBJECT, status |-> "current",
                confidence |-> "inferred", origin |-> "projector",
                text |-> NONE, outcome |-> NONE, evidence |-> {e.id},
                supersedes |-> occupant, updated_at |-> e.ts])

(* Mutant: a success leaves the proposal.                                  *)
KeepProjectorFrontier(claims, e) == claims

SupersedeProjectorFrontier(claims, e) ==
  LET occupant == Occupant(claims, e.command, "next_action", FRONTIER_SUBJECT)
  IN  IF occupant # NONE /\ claims[occupant].origin = "projector"
      THEN SupersedeClaim(claims, occupant, e.ts)
      ELSE claims

(* Mutant: the reality before it is left current.                          *)
FoldShellBeside(claims, e) ==
  LET told == Put(claims, <<"reality", e.id>>,
                  [task_id |-> e.command, kind |-> "reality",
                   subject |-> e.command, status |-> "current",
                   confidence |-> "observed", origin |-> "projector",
                   text |-> NONE, outcome |-> e.exit_code,
                   evidence |-> {e.id}, supersedes |-> NONE,
                   updated_at |-> e.ts])
  IN  IF e.exit_code # 0 THEN EnsureProjectorFrontier(told, e)
                         ELSE SupersedeProjectorFrontier(told, e)

(* The latest exit of a command is its reality; a failure also proposes    *)
(* to re-run it, a success withdraws that proposal.                        *)
FoldShell(claims, e) ==
  LET open == SupersedeSlot(claims, e.command, "reality", e.command, e.ts)
      told == Put(open, <<"reality", e.id>>,
                  [task_id |-> e.command, kind |-> "reality",
                   subject |-> e.command, status |-> "current",
                   confidence |-> "observed", origin |-> "projector",
                   text |-> NONE, outcome |-> e.exit_code,
                   evidence |-> {e.id},
                   supersedes |-> Occupant(claims, e.command, "reality", e.command),
                   updated_at |-> e.ts])
  IN  IF e.exit_code # 0 THEN EnsureProjectorFrontier(told, e)
                         ELSE SupersedeProjectorFrontier(told, e)

(* A slotted claim takes its slot; an explicit `supersedes` is applied as  *)
(* well, whether or not it names the occupant.  Every writer sets subject  *)
(* and confidence, so the defaults for their absence are left out.         *)
AssertClaim(claims, e) ==
  LET b      == e.body
      slot   == IF b.kind \in UniqueSlot
                THEN Occupant(claims, b.task_id, b.kind, b.subject) ELSE NONE
      freed  == IF b.kind \in UniqueSlot
                THEN SupersedeSlot(claims, b.task_id, b.kind, b.subject, e.ts)
                ELSE claims
      open   == IF b.supersedes # NONE
                THEN SupersedeClaim(freed, b.supersedes, e.ts) ELSE freed
  IN  IF b.kind = NONE \/ b.text = NONE THEN claims
      ELSE Put(open, b.claim_id,
               [task_id |-> b.task_id, kind |-> b.kind, subject |-> b.subject,
                status |-> "current", confidence |-> b.confidence,
                origin |-> b.origin, text |-> b.text, outcome |-> NONE,
                evidence |-> b.evidence,
                supersedes |-> IF slot # NONE THEN slot ELSE b.supersedes,
                updated_at |-> e.ts])

FoldClaim(claims, e) ==
  IF e.body.op = "close_task" THEN claims
  ELSE AssertClaim(IF e.body.op = "supersede"
                   THEN SupersedeClaim(claims, Target(e.body), e.ts)
                   ELSE claims, e)

FoldClaims(claims, e) ==
  IF ~Folds(e) THEN claims
  ELSE IF e.source = "shell" THEN FoldShell(claims, e) ELSE FoldClaim(claims, e)

FoldTasks(tasks, e) ==
  IF ~Folds(e) THEN tasks
  ELSE LET task == IF e.source = "shell" THEN e.command ELSE e.body.task_id
           open == OpenTask(tasks, task, e.id, e.ts)
       IN  IF e.source = "claim" /\ e.body.op = "close_task"
           THEN CloseTask(open, task, e.id, e.ts) ELSE open

(* The view that rows come to, whichever they are: they are folded in the  *)
(* order of their timestamps, which are distinct (fold of project.rs).     *)
Folding(rows)  == {e \in rows : Folds(e)}
LatestIn(rows) == CHOOSE e \in rows : \A f \in rows : f.ts <= e.ts

Grown(view, e) == [tasks  |-> FoldTasks(view.tasks, e),
                   claims |-> FoldClaims(view.claims, e)]

ViewsOf(rows) ==
  LET view[R \in SUBSET rows] ==
        IF R = {} THEN [tasks |-> Empty, claims |-> Empty]
        ELSE LET e == LatestIn(R) IN Grown(view[R \ {e}], e)
  IN  view

FoldOf(rows) == ViewsOf(Folding(rows))[Folding(rows)]

(* Oldest active task with a failing reality; otherwise the active task    *)
(* with the newest user intent; otherwise none.  Timestamps are distinct,  *)
(* so the code's tie-breaks by id never decide.                            *)
FocalTask(tasks, claims) ==
  LET active  == {t \in DOMAIN tasks : tasks[t].status = "active"}
      failing == {t \in active : HasFailingReality(claims, t)}
      intents == {i \in DOMAIN claims : /\ claims[i].status = "current"
                                        /\ claims[i].kind = "intent"
                                        /\ claims[i].origin = "user"
                                        /\ claims[i].task_id \in active}
      oldest  == {t \in failing :
                    \A u \in failing : tasks[t].created_at <= tasks[u].created_at}
      newest  == {claims[i].task_id : i \in
                    {i \in intents : \A j \in intents :
                                       claims[j].updated_at <= claims[i].updated_at}}
  IN  IF oldest # {} THEN CHOOSE t \in oldest : TRUE
      ELSE IF newest # {} THEN CHOOSE t \in newest : TRUE
      ELSE NONE

=============================================================================
