---------------------------- MODULE WorkingState ----------------------------
(***************************************************************************)
(* The write path of the contextd daemon: shell exits arrive on a bus,     *)
(* socket requests author claims, and every fold-relevant append rebuilds  *)
(* the materialised view from the log while it holds the writer lock.      *)
(*                                                                         *)
(* Sources: bin/contextd/src/main.rs (store_ingested, the request          *)
(* handlers, append_and_rebuild, start-up), crates/memory/src/project.rs   *)
(* (rebuild), crates/store/src/db.rs (the tables), and                     *)
(* crates/store/src/store.rs (one writer behind a mutex, readers beside    *)
(* it).                                                                    *)
(*                                                                         *)
(* Each request runs as a task of its own.  It reads the view through a    *)
(* reader connection with no lock, one SELECT for the tasks and a later    *)
(* one for the claims; validates; mints its event id and timestamp; and    *)
(* only then queues for the writer.  So what it validated against may be   *)
(* stale by the time it is appended, and rows need not be appended in the  *)
(* order of their timestamps.  The row is committed before the view is     *)
(* rebuilt, and a crash may fall between the two.                          *)
(***************************************************************************)
EXTENDS Requests, FiniteSets

CONSTANTS Noise,        \* navigation (cd, ls), not research: only a failure is stored
          BusCapacity,  \* events the broadcast bus holds for its slowest reader
          MaxCrashes,   \* bound on crashes
          STARTUP       \* the start-up code as a holder of the writer lock

ASSUME WorkingStateAssumption ==
  /\ NONE \notin EventId \cup ClaimRow
  /\ STARTUP \notin EventId \cup {NONE}
  /\ Noise \subseteq Command
  /\ BusCapacity \in Nat \ {0}
  /\ MaxCrashes \in Nat

VARIABLES
  log,         \* events table: the shell and claim rows, which the fold reads
  taskTable,   \* tasks table
  claimTable,  \* claims table
  writer,      \* holder of the writer mutex, or NONE
  todo,        \* rows the running rebuild has still to fold
  newTasks,    \* its projection so far
  newClaims,
  daemon,      \* "down", "starting" (before it listens) or "up"
  bus,         \* shell events published and not yet received
  published,   \* runs that have reported
  pc,          \* where each request is
  input,       \* what it asks for
  loaded,      \* the task rows it has read
  pending,     \* the row it has built
  clock,       \* milliseconds
  crashes

storeVars   == <<log, taskTable, claimTable>>
rebuildVars == <<writer, todo, newTasks, newClaims>>
requestVars == <<pc, input, loaded, pending>>
vars == <<storeVars, rebuildVars, daemon, bus, published, requestVars, clock,
          crashes>>

-----------------------------------------------------------------------------
Init ==
  /\ log = {}
  /\ taskTable = Empty /\ claimTable = Empty
  /\ writer = NONE /\ todo = {} /\ newTasks = Empty /\ newClaims = Empty
  /\ daemon = "down"
  /\ bus = {} /\ published = {}
  /\ pc = [r \in Request |-> "idle"]
  /\ input = [r \in Request |-> NONE]
  /\ loaded = [r \in Request |-> Empty]
  /\ pending = [r \in Request |-> NONE]
  /\ clock = 0 /\ crashes = 0

(* rebuild: get_fold_events reads the log while its holder has the lock.   *)
BeginRebuild(holder, rows) ==
  /\ writer' = holder
  /\ todo' = rows
  /\ newTasks' = Empty /\ newClaims' = Empty

(* ORDER BY timestamp_ms, id.                                              *)
NextRow(rows) == {e \in rows : \A f \in rows : e.ts <= f.ts}

FoldStep ==
  /\ writer # NONE
  /\ \E e \in NextRow(todo) :
       /\ todo' = todo \ {e}
       /\ newTasks' = FoldTasks(newTasks, e)
       /\ newClaims' = FoldClaims(newClaims, e)
  /\ UNCHANGED <<storeVars, writer, daemon, bus, published, requestVars, clock,
                 crashes>>

(* Mutant: the daemon never opens its socket.                              *)
InstallUnopened ==
  /\ writer # NONE /\ todo = {}
  /\ taskTable' = newTasks /\ claimTable' = newClaims
  /\ writer' = NONE
  /\ newTasks' = Empty /\ newClaims' = Empty
  /\ pc' = IF writer \in Request THEN [pc EXCEPT ![writer] = "ok"] ELSE pc
  /\ UNCHANGED <<log, todo, daemon, bus, published, input, loaded, pending,
                 clock, crashes>>

(* replace_projection is one transaction.  Releasing the lock lets the     *)
(* holder answer, or the daemon start listening.                           *)
Install ==
  /\ writer # NONE /\ todo = {}
  /\ taskTable' = newTasks /\ claimTable' = newClaims
  /\ writer' = NONE
  /\ newTasks' = Empty /\ newClaims' = Empty
  /\ daemon' = IF writer = STARTUP THEN "up" ELSE daemon
  /\ pc' = IF writer \in Request THEN [pc EXCEPT ![writer] = "ok"] ELSE pc
  /\ UNCHANGED <<log, todo, bus, published, input, loaded, pending, clock,
                 crashes>>

-----------------------------------------------------------------------------
(* Shell events.                                                           *)

(* A connection stamps the event and sends it.  A full bus loses the       *)
(* oldest event sent, and the main loop sees Lagged; connections race      *)
(* between the stamp and the send, so that may be any event on it.         *)
Publish(x, command, code) ==
  LET e == [id |-> x, ts |-> clock, source |-> "shell",
            command |-> command, exit_code |-> code]
  IN  /\ daemon = "up"
      /\ x \in Run \ published
      /\ published' = published \cup {x}
      /\ \/ /\ Cardinality(bus) < BusCapacity
            /\ bus' = bus \cup {e}
         \/ /\ Cardinality(bus) >= BusCapacity
            /\ \E lost \in bus : bus' = (bus \ {lost}) \cup {e}
      /\ clock' = clock + 1
      /\ UNCHANGED <<storeVars, rebuildVars, daemon, requestVars, crashes>>

(* should_drop: a quiet event that is not a failure.                       *)
ShouldDrop(e) == e.command \in Noise /\ e.exit_code \in {0, NONE}

(* Mutant: only a failure rebuilds.                                        *)
IngestFailuresOnly(e) ==
  /\ daemon = "up" /\ writer \notin Run
  /\ e \in bus
  /\ bus' = bus \ {e}
  /\ \/ /\ ShouldDrop(e)
        /\ UNCHANGED <<log, rebuildVars>>
     \/ /\ ~ShouldDrop(e)
        /\ writer = NONE
        /\ log' = log \cup {e}
        /\ IF e.exit_code = 1 THEN BeginRebuild(e.id, log')
                              ELSE UNCHANGED rebuildVars
  /\ UNCHANGED <<taskTable, claimTable, daemon, published, requestVars, clock,
                 crashes>>
(* store_ingested, for one event at a time: any on the bus may be the next *)
(* received.                                                               *)
Ingest(e) ==
  /\ daemon = "up" /\ writer \notin Run
  /\ e \in bus
  /\ bus' = bus \ {e}
  /\ \/ /\ ShouldDrop(e)
        /\ UNCHANGED <<log, rebuildVars>>
     \/ /\ ~ShouldDrop(e)
        /\ writer = NONE
        /\ log' = log \cup {e}
        /\ IF e.exit_code # NONE THEN BeginRebuild(e.id, log')
                                 ELSE UNCHANGED rebuildVars
  /\ UNCHANGED <<taskTable, claimTable, daemon, published, requestVars, clock,
                 crashes>>

-----------------------------------------------------------------------------
(* Authored claims.                                                        *)

(* load_projection, first SELECT.                                          *)
Load(r, i) ==
  /\ daemon = "up" /\ pc[r] = "idle"
  /\ pc' = [pc EXCEPT ![r] = "loading"]
  /\ input' = [input EXCEPT ![r] = i]
  /\ loaded' = [loaded EXCEPT ![r] = taskTable]
  /\ UNCHANGED <<storeVars, rebuildVars, daemon, bus, published, pending,
                 clock, crashes>>

(* load_projection, second SELECT; then the handler builds its event, and  *)
(* validates it against what it has read.                                  *)
Decide(r) ==
  LET b == Body(r, input[r], FocalTask(loaded[r], claimTable), claimTable)
  IN  /\ daemon = "up" /\ pc[r] = "loading"
      /\ loaded' = [loaded EXCEPT ![r] = Empty]
      /\ IF b # NONE /\ Validate(b) /\ ValidateAgainstProjection(b, claimTable)
         THEN /\ pc' = [pc EXCEPT ![r] = "append"]
              /\ pending' = [pending EXCEPT ![r] =
                   [id |-> r, ts |-> clock, source |-> "claim", body |-> b]]
              /\ clock' = clock + 1
         ELSE /\ pc' = [pc EXCEPT ![r] = "refused"]
              /\ UNCHANGED <<pending, clock>>
      /\ input' = [input EXCEPT ![r] = NONE]
      /\ UNCHANGED <<storeVars, rebuildVars, daemon, bus, published, crashes>>

(* Mutant: the rebuild reads the log before the insert.                    *)
AppendAfterRead(r) ==
  /\ daemon = "up" /\ pc[r] = "append" /\ writer = NONE
  /\ log' = log \cup {pending[r]}
  /\ BeginRebuild(r, log)
  /\ pc' = [pc EXCEPT ![r] = "rebuild"]
  /\ UNCHANGED <<taskTable, claimTable, daemon, bus, published, input, loaded,
                 pending, clock, crashes>>

(* append_and_rebuild: the insert commits on its own, then the rebuild     *)
(* runs under the same lock.                                               *)
AppendClaim(r) ==
  /\ daemon = "up" /\ pc[r] = "append" /\ writer = NONE
  /\ log' = log \cup {pending[r]}
  /\ BeginRebuild(r, log')
  /\ pc' = [pc EXCEPT ![r] = "rebuild"]
  /\ UNCHANGED <<taskTable, claimTable, daemon, bus, published, input, loaded,
                 pending, clock, crashes>>

-----------------------------------------------------------------------------
(* The process.                                                            *)

(* Mutant: cut connections are not noticed.                                *)
CrashUnnoticed ==
  /\ daemon # "down" /\ crashes < MaxCrashes
  /\ daemon' = "down"
  /\ writer' = NONE /\ todo' = {} /\ newTasks' = Empty /\ newClaims' = Empty
  /\ bus' = {}
  /\ crashes' = crashes + 1
  /\ UNCHANGED <<storeVars, published, requestVars, clock>>

(* The tables are on disk; everything else goes.                           *)
Crash ==
  /\ daemon # "down" /\ crashes < MaxCrashes
  /\ daemon' = "down"
  /\ writer' = NONE /\ todo' = {} /\ newTasks' = Empty /\ newClaims' = Empty
  /\ bus' = {}
  /\ pc' = [r \in Request |-> IF pc[r] \in {"loading", "append", "rebuild"}
                              THEN "lost" ELSE pc[r]]
  /\ input' = [r \in Request |-> NONE]
  /\ loaded' = [r \in Request |-> Empty]
  /\ crashes' = crashes + 1
  /\ UNCHANGED <<storeVars, published, pending, clock>>

(* run_daemon rebuilds before it opens the socket.                         *)
Start ==
  /\ daemon = "down"
  /\ daemon' = "starting"
  /\ BeginRebuild(STARTUP, log)
  /\ UNCHANGED <<storeVars, bus, published, requestVars, clock, crashes>>

Next ==
  \/ Start \/ Crash
  \/ FoldStep \/ Install
  \/ \E x \in Run, command \in Command, code \in ExitCode \cup {NONE} :
       Publish(x, command, code)
  \/ \E e \in bus : Ingest(e)
  \/ \E r \in Request :
       \/ \E i \in Input : Load(r, i)
       \/ Decide(r)
       \/ AppendClaim(r)

Spec == Init /\ [][Next]_vars

(* The writer mutex is a fair queue, so a waiter is not overtaken for ever; *)
(* readers never wait.  systemd restarts the daemon (Restart=on-failure).  *)
Fairness ==
  /\ WF_vars(Start) /\ WF_vars(FoldStep) /\ WF_vars(Install)
  /\ \A x \in Run : SF_vars(\E e \in bus : e.id = x /\ Ingest(e))
  /\ \A r \in Request : WF_vars(Decide(r)) /\ SF_vars(AppendClaim(r))

FairSpec == Spec /\ Fairness

-----------------------------------------------------------------------------
(* Properties.                                                             *)

(* The type of every variable; a row of the log is a shell event or a      *)
(* claim event of the shape the handlers build.                            *)
TypeOK ==
  /\ log \subseteq ShellEvent \cup Pending
  /\ TaskMap(taskTable) /\ ClaimMap(claimTable)
  /\ writer \in EventId \cup {NONE, STARTUP}
  /\ todo \subseteq log
  /\ TaskMap(newTasks) /\ ClaimMap(newClaims)
  /\ daemon \in {"down", "starting", "up"}
  /\ bus \subseteq ShellEvent
  /\ published \subseteq Run
  /\ pc \in [Request -> {"idle", "loading", "append", "rebuild", "ok",
                         "refused", "lost"}]
  /\ input \in [Request -> Input \cup {NONE}]
  /\ DOMAIN loaded = Request /\ \A r \in Request : TaskMap(loaded[r])
  /\ pending \in [Request -> Pending \cup {NONE}]
  /\ clock \in Nat /\ crashes \in Nat

(* A rebuild never meets the two constraints that would fail its           *)
(* transaction, and every later one: at most one current claim per slot    *)
(* (idx_claims_current_slot), and no claim id pushed twice (the primary    *)
(* key of claims).                                                         *)
RebuildNeverWedges ==
  /\ SlotUnique(newClaims) /\ SlotUnique(claimTable)
  /\ \A e \in todo : Asserts(e) \cap DOMAIN newClaims = {}

(* The view is at rest: no rebuild runs, and start-up is over.             *)
Quiet == daemon = "up" /\ writer = NONE

(* The exits of a command that the given rows hold, and the newest.        *)
IsExit(e, command) == /\ e.source = "shell" /\ e.exit_code # NONE
                      /\ e.command = command
IsLastExit(rows, e) == /\ e \in rows /\ e.source = "shell" /\ e.exit_code # NONE
                       /\ \A f \in rows : IsExit(f, e.command) => f.ts <= e.ts

(* Whatever users and agents write, and in whatever order connections,     *)
(* rebuilds and crashes interleave, what the view holds as observed of a   *)
(* command is its newest stored exit.                                      *)
LatestExitIsReality ==
  Quiet => \A e \in log : IsLastExit(log, e) =>
             /\ <<"reality", e.id>> \in DOMAIN claimTable
             /\ claimTable[<<"reality", e.id>>].status = "current"
             /\ claimTable[<<"reality", e.id>>].outcome = e.exit_code

(* The projector proposes to re-run a command only while the command       *)
(* stands as failing.                                                      *)
FrontierOnlyWhileFailing ==
  \A i \in DOMAIN claimTable :
    /\ claimTable[i].kind = "next_action" /\ claimTable[i].status = "current"
    /\ claimTable[i].origin = "projector"
    => HasFailingReality(claimTable, claimTable[i].task_id)

(* A user's claim goes out of force only by a user: by a retraction that   *)
(* names it, or a newer intent on the same task.  No agent, exit code,     *)
(* stale read or crash ever takes one back.                                *)
UserClaimsKept ==
  \A i \in DOMAIN claimTable :
    claimTable[i].origin = "user" /\ claimTable[i].status = "superseded" =>
      \E e \in log :
        /\ e.source = "claim" /\ e.body.origin = "user"
        /\ \/ Target(e.body) = i
           \/ /\ e.body.kind = "intent" /\ claimTable[i].kind = "intent"
              /\ e.body.task_id = claimTable[i].task_id
              /\ e.body.claim_id # i

(* What a request did, seen in the view.                                   *)
Effective(b) ==
  /\ b.op = "assert" => /\ b.claim_id \in DOMAIN claimTable
                        /\ claimTable[b.claim_id].origin = b.origin
                        /\ claimTable[b.claim_id].text = b.text
  /\ b.op = "close_task" => /\ b.task_id \in DOMAIN taskTable
                            /\ taskTable[b.task_id].status = "done"
  /\ Target(b) \in DOMAIN claimTable =>
       claimTable[Target(b)].status = "superseded"

(* Once a request is answered ok, its row is in the log and its effect is  *)
(* in every view from then on: later rebuilds, rows that arrive late with  *)
(* older timestamps, and restarts all keep it.                             *)
AckIsDurable ==
  \A r \in Request : pc[r] = "ok" => pending[r] \in log /\ Effective(pending[r].body)

(* No install forgets a claim that an event asserted, or reopens a task:   *)
(* only the projector's own proposals may vanish from the table (an        *)
(* agent's next action with an older timestamp, appended later, leaves     *)
(* them no slot).                                                          *)
NothingIsForgotten ==
  [][/\ \A i \in DOMAIN claimTable \ DOMAIN claimTable' : i[1] = "frontier"
     /\ \A t \in DOMAIN taskTable :
          /\ t \in DOMAIN taskTable'
          /\ taskTable[t].status = "done" => taskTable'[t].status = "done"]_vars

(* Every request that reaches the daemon is answered, or its connection    *)
(* is cut by a crash.                                                      *)
RequestsAnswered ==
  \A r \in Request : pc[r] = "loading" ~> pc[r] \in {"ok", "refused", "lost"}

(* After a crash the daemon comes back to serve a view that is at rest.    *)
Recovers == daemon = "down" ~> Quiet

-----------------------------------------------------------------------------
(* The board this implements.                                              *)

Answered == {r \in Request : pc[r] = "ok"}

Board == INSTANCE ClaimBoard WITH
           Fold <- FoldOf, posted <- log, shown <- [tasks |-> taskTable, claims |-> claimTable],
           open <- Quiet, granted <- {pending[r] : r \in Answered}

(* The write path implements the board: whatever interleaves and wherever  *)
(* it is killed, clients read the fold of every stored row in timestamp    *)
(* order, at one moment or another and at rest always the latest; no late  *)
(* row is folded out of place, no append leaves a stale view behind, and   *)
(* no request is answered before the view holds its row.                   *)
ImplementsBoard == Board!BoardSpec

=============================================================================
