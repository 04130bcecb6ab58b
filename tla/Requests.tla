------------------------------ MODULE Requests ------------------------------
(***************************************************************************)
(* What clients of the daemon's socket ask for, and the claim event each   *)
(* request becomes (record_user_intent, record_user_claim and              *)
(* record_agent_claim of bin/contextd/src/main.rs), given the view the     *)
(* handler has read.  Constant operators; WorkingState and Retention say   *)
(* when a handler runs.                                                    *)
(***************************************************************************)
EXTENDS Claims

CONSTANTS Run,          \* shell commands run; also the ids of their events
          Request,      \* socket requests; also the ids of the events they mint
          Ask,          \* what clients ask for: who, kind, confidence
          Named         \* claim ids clients name

UserKind == {"intent", "constraint", "decision", "ruled_out", "retract", "done"}

ASSUME RequestsAssumption ==
  /\ Run \cup Request \subseteq EventId
  /\ Run \cap Request = {}
  /\ Text # {}
  /\ Ask \subseteq [who : {"user"}, kind : UserKind, confidence : {"stated"}]
             \cup [who : {"agent"}, kind : ClaimKind, confidence : ClaimConfidence]
  /\ Named \subseteq ClaimId

-----------------------------------------------------------------------------
(* An input.  `target` is the claim a retraction, or an agent's `replaces`, *)
(* names; a retraction names one and no other user request does.           *)
Input == {i \in [ask : Ask, target : Named \cup {NONE}] :
            i.ask.who = "user" => (i.target # NONE) = (i.ask.kind = "retract")}

Assertion(r, task, kind, subject, confidence, origin, supersedes) ==
  [op |-> "assert", claim_id |-> <<"authored", r>>, task_id |-> task,
   kind |-> kind, subject |-> subject, text |-> CHOOSE x \in Text : TRUE,
   confidence |-> confidence, origin |-> origin, evidence |-> {},
   supersedes |-> supersedes]

(* A close or a retraction carries no claim.                               *)
Retirement(op, id, task, supersedes) ==
  [op |-> op, claim_id |-> id, task_id |-> task, kind |-> NONE,
   subject |-> NONE, text |-> NONE, confidence |-> NONE, origin |-> "user",
   evidence |-> {}, supersedes |-> supersedes]

(* An agent's next action replaces the frontier unless a user wrote it.    *)
AgentClaim(r, i, focal, claims) ==
  LET frontier == Occupant(claims, focal, "next_action", FRONTIER_SUBJECT)
      replaces == IF /\ i.ask.kind = "next_action"
                     /\ frontier # NONE
                     /\ claims[frontier].origin # "user"
                  THEN frontier ELSE i.target
  IN  Assertion(r, focal, i.ask.kind,
                IF i.ask.kind = "next_action" THEN FRONTIER_SUBJECT
                ELSE <<"authored", r>>,
                IF i.ask.kind = "unknown" THEN "hypothesis" ELSE i.ask.confidence,
                "agent", replaces)

(* An intent goes to the focal task, or opens one of its own.              *)
UserIntent(r, focal) ==
  Assertion(r, IF focal = NONE THEN r ELSE focal, "intent", INTENT_SUBJECT,
            "stated", "user", NONE)

UserClaim(r, i, focal) ==
  IF i.ask.kind = "done"
  THEN Retirement("close_task", <<"authored", r>>, focal, NONE)
  ELSE Assertion(r, focal, i.ask.kind, <<"authored", r>>, "stated", "user", NONE)

UserRetraction(i, claims) ==
  IF i.target \notin DOMAIN claims THEN NONE
  ELSE Retirement("supersede", i.target, claims[i.target].task_id, i.target)

(* The claim event request r asks for, or NONE when it needs a task or a   *)
(* claim that is not there.                                                *)
Body(r, i, focal, claims) ==
  IF i.ask.who = "user" /\ i.ask.kind = "retract" THEN UserRetraction(i, claims)
  ELSE IF i.ask.who = "user" /\ i.ask.kind = "intent" THEN UserIntent(r, focal)
  ELSE IF focal = NONE THEN NONE
  ELSE IF i.ask.who = "agent" THEN AgentClaim(r, i, focal, claims)
  ELSE UserClaim(r, i, focal)

-----------------------------------------------------------------------------
(* The rows a run and a request may leave, and the views they are folded   *)
(* into.                                                                   *)

ShellEvent == {e \in ShellRow : e.id \in Run}

(* An assertion is complete and its claim is named after its own event; a  *)
(* close or a retraction carries no claim.                                 *)
Pending == {e \in ClaimRow :
  /\ e.id \in Request
  /\ e.body.op = "assert" =>
       /\ e.body.claim_id = <<"authored", e.id>>
       /\ NONE \notin {e.body.kind, e.body.subject, e.body.text, e.body.confidence}
  /\ e.body.op # "assert" => e.body.kind = NONE /\ e.body.text = NONE
  /\ e.body.op = "supersede" => e.body.supersedes = e.body.claim_id
  /\ e.body.op = "close_task" => e.body.supersedes = NONE}

(* Partial functions with their domain in one set and values in another.   *)
TaskMap(f)  == DOMAIN f \subseteq TaskId /\ \A t \in DOMAIN f : f[t] \in Task
ClaimMap(f) == DOMAIN f \subseteq ClaimId /\ \A i \in DOMAIN f : f[i] \in Claim

(* At most one current claim in a uniqueness slot.                         *)
SlotUnique(claims) ==
  \A i, j \in DOMAIN claims :
    /\ claims[i].kind \in UniqueSlot
    /\ claims[i].status = "current" /\ claims[j].status = "current"
    /\ claims[i].task_id = claims[j].task_id
    /\ claims[i].kind = claims[j].kind
    /\ claims[i].subject = claims[j].subject
    => i = j

(* Ids of the claims one row adds to the view, at most.                    *)
Asserts(e) == IF e.source = "shell" THEN {<<"reality", e.id>>, <<"frontier", e.id>>}
              ELSE IF e.body.text # NONE THEN {e.body.claim_id} ELSE {}

=============================================================================
