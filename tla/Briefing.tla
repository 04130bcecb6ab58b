------------------------------ MODULE Briefing ------------------------------
(***************************************************************************)
(* The briefing (crates/broker/src/snapshot.rs): what an agent reads when  *)
(* it calls context_now.  It is built from the tasks and claims tables,    *)
(* which are read by two SELECTs while writers go on, and then trimmed     *)
(* until it fits a budget of tokens.                                       *)
(*                                                                         *)
(* Rows come here one at a time, each folded into the view it was          *)
(* validated against; WorkingState has the races between writers.  A       *)
(* claim, a task and a line cost one token each.  No writer sets           *)
(* artifact_refs, so the lists of artifacts, which are trimmed first, are  *)
(* empty and left out.                                                     *)
(***************************************************************************)
EXTENDS Requests, Sequences, FiniteSets, SequencesExt

CONSTANTS Budget,    \* token budgets, in items
          MaxRows    \* bound on stored rows

ASSUME BriefingAssumption == Budget \subseteq Nat /\ MaxRows \in Nat

VARIABLES
  tasks, claims,  \* the tables
  rows,           \* stored rows
  reading,        \* "idle", "claims" between the SELECTs, "trim", "answered"
  loaded,         \* the tasks read
  packet,         \* the ContextSnapshot
  budget,
  full,           \* history: the packet before it was trimmed
  lasting,        \* history: tasks active and failing since the first SELECT
  known           \* history: the rows when the claims were read

briefVars == <<tasks, claims, rows, reading, loaded, packet, budget, full, lasting, known>>

-----------------------------------------------------------------------------
(* Writers.                                                                *)

Failing == {t \in DOMAIN tasks : tasks[t].status = "active" /\ HasFailingReality(claims, t)}

Append1(row) ==
  /\ Cardinality(rows) < MaxRows
  /\ ~\E e \in rows : e.id = row.id
  /\ rows' = rows \cup {row}
  /\ tasks' = FoldTasks(tasks, row) /\ claims' = FoldClaims(claims, row)
  /\ lasting' = IF reading = "claims" THEN lasting \cap Failing' ELSE lasting
  /\ UNCHANGED <<reading, loaded, packet, budget, full, known>>

Now == Cardinality(rows) + 1

RunCommand(x, command, code) ==
  Append1([id |-> x, ts |-> Now, source |-> "shell", command |-> command, exit_code |-> code])

Author(r, i) ==
  LET body == Body(r, i, FocalTask(tasks, claims), claims)
  IN  /\ body # NONE /\ Validate(body) /\ ValidateAgainstProjection(body, claims)
      /\ Append1([id |-> r, ts |-> Now, source |-> "claim", body |-> body])

-----------------------------------------------------------------------------
(* Rendering a projection: the tasks ts and the claims cs that were read.  *)

ConfidenceRank(confidence) ==
  CASE confidence = "observed" -> 0 [] confidence = "stated" -> 1
    [] confidence = "inferred" -> 2 [] confidence = "hypothesis" -> 3

CurrentForTask(cs, t) == {i \in DOMAIN cs : cs[i].task_id = t /\ cs[i].status = "current"}

(* The members of S, each after those that come before it.                 *)
InOrder(S, Before(_, _)) ==
  [k \in 1..Cardinality(S) |->
     CHOOSE i \in S : Cardinality({j \in S : Before(j, i)}) = k - 1]

(* The surest first, then the oldest.  A command that passes is no reality. *)
Pick(cs, t, kind) ==
  InOrder({i \in CurrentForTask(cs, t) : /\ cs[i].kind = kind
                                         /\ kind = "reality" => cs[i].outcome # 0},
          LAMBDA i, j : \/ ConfidenceRank(cs[i].confidence) < ConfidenceRank(cs[j].confidence)
                        \/ /\ cs[i].confidence = cs[j].confidence
                           /\ cs[i].updated_at < cs[j].updated_at)

FirstOrNone(s) == IF s = <<>> THEN NONE ELSE s[1]

FocalView(cs, t) ==
  [id |-> t, intent |-> FirstOrNone(Pick(cs, t, "intent")),
   reality |-> Pick(cs, t, "reality"), decisions |-> Pick(cs, t, "decision"),
   ruled_out |-> Pick(cs, t, "ruled_out"), unknowns |-> Pick(cs, t, "unknown"),
   next_action |-> FirstOrNone(Pick(cs, t, "next_action"))]

Active(ts) == {t \in DOMAIN ts : ts[t].status = "active"}

(* Constraints stand whatever their task does.                             *)
StandingConstraints(cs) ==
  {i \in DOMAIN cs : cs[i].status = "current" /\ cs[i].kind = "constraint"}

(* Mutant: any reality before it will do.                                  *)
PreviouslyRan(cs, i) ==
  \E j \in DOMAIN cs \ {i} : cs[j].task_id = cs[i].task_id /\ cs[j].kind = "reality"

PreviouslyFailed(cs, i) ==
  \E j \in DOMAIN cs \ {i} :
    /\ cs[j].task_id = cs[i].task_id /\ cs[j].kind = "reality"
    /\ cs[j].subject = cs[i].subject /\ cs[j].status = "superseded"
    /\ cs[j].outcome \notin {NONE, 0}

(* The commands that pass now and failed before.                           *)
PassedChecks(ts, cs) ==
  {cs[i].task_id : i \in {i \in DOMAIN cs :
     /\ cs[i].status = "current" /\ cs[i].kind = "reality" /\ cs[i].outcome = 0
     /\ PreviouslyFailed(cs, i) /\ cs[i].task_id \in Active(ts)}}

HasAuthoredContinuation(cs, t) ==
  \E i \in CurrentForTask(cs, t) :
    \/ cs[i].kind \in {"decision", "ruled_out", "unknown", "intent"}
    \/ cs[i].kind \in {"next_action", "reality"} /\ cs[i].origin # "projector"

OpenWork(ts, cs, focal) ==
  LET open == InOrder({t \in Active(ts) \ {focal} : HasAuthoredContinuation(cs, t)},
                      LAMBDA t, u : ts[t].created_at < ts[u].created_at)
  IN  [k \in DOMAIN open |-> FocalView(cs, open[k])]

(* One line for every other task that fails, in the order of its id.  The  *)
(* hash of the command is as good as any order.                            *)
(* Mutant: a task with more to say has no line.                            *)
OtherOfUser(ts, cs, focal) ==
  IF focal = NONE THEN <<>>
  ELSE SetToSeq({t \in Active(ts) \ {focal} :
                   HasFailingReality(cs, t) /\ \E i \in CurrentForTask(cs, t) : cs[i].origin # "projector"})

OtherTasks(ts, cs, focal) ==
  IF focal = NONE THEN <<>>
  ELSE SetToSeq({t \in Active(ts) \ {focal} : HasFailingReality(cs, t)})

Render(ts, cs) ==
  LET focal == FocalTask(ts, cs)
  IN  [constraints |-> StandingConstraints(cs), passed_checks |-> PassedChecks(ts, cs),
       open_work |-> OpenWork(ts, cs, focal),
       focal_task |-> IF focal = NONE THEN <<>> ELSE <<FocalView(cs, focal)>>,
       other_active_tasks |-> OtherTasks(ts, cs, focal), truncated |-> FALSE]

-----------------------------------------------------------------------------
(* Trimming.                                                               *)

(* A packet's focal task is a sequence of one view, or of none.            *)
Views(p) == p.open_work \o p.focal_task

CostOfView(v) ==
  1 + Len(v.reality) + Len(v.decisions) + Len(v.ruled_out) + Len(v.unknowns)
    + Cardinality({v.intent, v.next_action} \ {NONE})

PacketCost(p) ==
  FoldLeft(LAMBDA n, v : n + CostOfView(v),
           Cardinality(p.constraints) + Cardinality(p.passed_checks) + Len(p.other_active_tasks),
           Views(p))

CanTrim(v) == v.unknowns # <<>> \/ Len(v.decisions) > 1

(* Mutant: the surest decision goes, not the least sure.                   *)
TrimTaskBare(v) ==
  IF v.unknowns # <<>> THEN [v EXCEPT !.unknowns = Front(@)]
  ELSE [v EXCEPT !.decisions = Tail(@)]

TrimTask(v) ==
  IF v.unknowns # <<>> THEN [v EXCEPT !.unknowns = Front(@)]
  ELSE [v EXCEPT !.decisions = Front(@)]

Trimmable(p) == {k \in DOMAIN p.open_work : CanTrim(p.open_work[k])}

(* The focal task gives up its details, then the newest open work, then    *)
(* the lines of other tasks go.                                            *)
TrimOne(p) ==
  LET last == CHOOSE k \in Trimmable(p) : \A j \in Trimmable(p) : j <= k
  IN  IF p.focal_task # <<>> /\ CanTrim(p.focal_task[1])
      THEN [p EXCEPT !.focal_task[1] = TrimTask(@)]
      ELSE IF Trimmable(p) # {} THEN [p EXCEPT !.open_work[last] = TrimTask(@)]
      ELSE [p EXCEPT !.other_active_tasks = Front(@)]

NothingToTrim(p) ==
  /\ p.focal_task # <<>> => ~CanTrim(p.focal_task[1])
  /\ Trimmable(p) = {} /\ p.other_active_tasks = <<>>

-----------------------------------------------------------------------------
(* An agent asks.                                                          *)

SelectTasks(b) ==
  /\ reading = "idle" /\ reading' = "claims"
  /\ loaded' = tasks /\ budget' = b /\ lasting' = Failing
  /\ UNCHANGED <<tasks, claims, rows, packet, full, known>>

SelectClaims ==
  /\ reading = "claims" /\ reading' = "trim"
  /\ packet' = Render(loaded, claims)
  /\ full' = packet' /\ known' = rows
  /\ UNCHANGED <<tasks, claims, rows, loaded, budget, lasting>>

(* A turn of the loop of trim_to_budget.                                   *)
Trim ==
  /\ reading = "trim"
  /\ IF PacketCost(packet) <= budget
     THEN reading' = "answered" /\ UNCHANGED packet
     ELSE IF NothingToTrim(packet)
     THEN reading' = "answered" /\ packet' = [packet EXCEPT !.truncated = TRUE]
     ELSE packet' = [TrimOne(packet) EXCEPT !.truncated = TRUE] /\ UNCHANGED reading
  /\ UNCHANGED <<tasks, claims, rows, loaded, budget, full, lasting, known>>

BriefInit ==
  /\ tasks = Empty /\ claims = Empty /\ rows = {}
  /\ reading = "idle" /\ loaded = Empty /\ packet = NONE /\ budget = 0
  /\ full = NONE /\ lasting = {} /\ known = {}

BriefNext ==
  \/ /\ reading \in {"idle", "claims"}   \* later rows no longer reach the packet
     /\ \/ \E x \in Run, command \in Command, code \in ExitCode : RunCommand(x, command, code)
        \/ \E r \in Request, i \in Input : Author(r, i)
  \/ \E b \in Budget : SelectTasks(b)
  \/ SelectClaims \/ Trim

BriefSpec == BriefInit /\ [][BriefNext]_briefVars

-----------------------------------------------------------------------------
(* Properties.                                                             *)

Lines(p) == {p.other_active_tasks[k] : k \in DOMAIN p.other_active_tasks}
Tasks(p) == {Views(p)[k].id : k \in DOMAIN Views(p)} \cup Lines(p)

(* A task that fails all the while an agent reads the briefing is in it,   *)
(* as the focal task, as open work or as a line, whatever else was written *)
(* between the two SELECTs, or the briefing says that it was cut.          *)
NothingFailsUnseen ==
  reading = "answered" => lasting \subseteq Tasks(packet) \/ packet.truncated

(* "now passes" is said of the commands of active tasks whose newest exit  *)
(* is 0 and that failed before, and of all of them.                        *)
Exits(command, code) == {e \in known : e.source = "shell" /\ e.command = command /\ e.exit_code = code}
Fixed(command) ==
  /\ Exits(command, 1) # {}
  /\ \E e \in Exits(command, 0) : \A f \in Exits(command, 1) : f.ts < e.ts
PassesAreTold ==
  reading = "answered" =>
    packet.passed_checks = {t \in Active(loaded) \cap Command : Fixed(t)}

(* A briefing that does not say it was cut is whole and fits; of one that  *)
(* does, whatever the budget, what is in force stays: constraints, passed  *)
(* checks, and of every task its intent, its failing realities, what is    *)
(* ruled out, its next action and its surest decision.  A line goes only   *)
(* when no task has a detail left.                                         *)
Core(v) == [id |-> v.id, intent |-> v.intent, reality |-> v.reality,
            ruled_out |-> v.ruled_out, next_action |-> v.next_action,
            decision |-> FirstOrNone(v.decisions)]
KeepsCore ==
  /\ packet.constraints = full.constraints
  /\ packet.passed_checks = full.passed_checks
  /\ Len(Views(packet)) = Len(Views(full))
  /\ \A k \in DOMAIN Views(full) : Core(Views(packet)[k]) = Core(Views(full)[k])
  /\ Lines(packet) # Lines(full) => \A k \in DOMAIN Views(packet) : ~CanTrim(Views(packet)[k])
CutsAreTold ==
  reading = "answered" =>
    IF packet.truncated THEN KeepsCore
    ELSE packet = full /\ PacketCost(packet) <= budget

=============================================================================
