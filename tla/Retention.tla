------------------------------ MODULE Retention ------------------------------
(***************************************************************************)
(* What happens to a row after it is stored: the enrichment worker, fed by *)
(* a bounded queue and by a sweeper that reads the two backlogs            *)
(* (crates/background/src/enrichment.rs), classifies, compacts and embeds  *)
(* it; the pruner (crates/background/src/pruner.rs) moves old, quiet rows  *)
(* to the archive (crates/store/src/archive.rs).  The view is a fold of    *)
(* the rows, so both can change what is in force.                          *)
(*                                                                         *)
(* An append and the rebuild it causes are one step here: WorkingState     *)
(* shows that the view at rest is the fold of the log.                     *)
(***************************************************************************)
EXTENDS Requests, Sequences, FiniteSets

CONSTANTS Noise,          \* navigation: scored below the pruner's threshold
          Research,       \* commands of the use case that is kept however quiet
          Durable,        \* events of a semantic or procedural memory type
          Evidence,       \* sources the fold ignores
          Long,           \* events with a payload over LONG_PAYLOAD_CHARS
          QueueCapacity,  \* QUEUE_CAPACITY
          BacklogBatch,   \* BACKLOG_BATCH
          PruneBatch,     \* BATCH of the pruner
          HasModel,       \* an Ollama client was configured
          WORKER,         \* the enrichment worker holding the writer lock
          PRUNER,         \* the pruner holding it
          LastStamp,      \* bound on timestamps
          MaxCrashes      \* bound on crashes

ASSUME RetentionAssumption ==
  /\ Noise \subseteq Command /\ Research \subseteq Command
  /\ Durable \subseteq Run
  /\ Evidence \subseteq {"filesystem", "note"}
  /\ Long \subseteq EventId
  /\ {QueueCapacity, BacklogBatch, PruneBatch} \subseteq Nat \ {0}
  /\ HasModel \in BOOLEAN
  /\ {LastStamp, MaxCrashes} \subseteq Nat
  /\ NONE \notin EventId \cup {WORKER, PRUNER} /\ WORKER # PRUNER

VARIABLES
  events,      \* events table: id -> row and enrichment columns
  vectors,     \* vec_events: ids with an embedding
  archived,    \* how many archive segments hold each event
  taskTable,   \* tasks table
  claimTable,  \* claims table
  stored,      \* every row ever inserted (history)
  queue,       \* enrichment queue
  worker,      \* the event the worker is at, and its next step; or NONE
  backlog,     \* ids the sweeper has still to offer
  batch,       \* ids the pruner has archived and not yet deleted
  writer,      \* WORKER or PRUNER between two statements of one hold, or NONE
  daemon,      \* "up" or "down"
  cutoff,      \* rows before it are older than RETENTION_MS
  crashes

diskVars == <<events, vectors, archived, taskTable, claimTable, stored>>
vars == <<diskVars, queue, worker, backlog, batch, writer, daemon, cutoff, crashes>>

-----------------------------------------------------------------------------
(* The fold of the rows a rebuild can read.                                *)

(* compact_payload keeps IDENTITY_KEYS: a shell row keeps all the fold     *)
(* reads, and a claim row loses the fields without which it does not parse. *)
Readable(entry) == entry.row.source = "claim" => ~entry.compacted

LogRows(entries) == {entries[x].row : x \in {y \in DOMAIN entries : Readable(entries[y])}}

Rebuild(entries) ==
  LET view == FoldOf(LogRows(entries))
  IN  taskTable' = view.tasks /\ claimTable' = view.claims

Init ==
  /\ events = Empty /\ vectors = {}
  /\ archived = [x \in EventId |-> 0]
  /\ taskTable = Empty /\ claimTable = Empty
  /\ stored = {}
  /\ queue = <<>> /\ worker = NONE /\ backlog = <<>> /\ batch = {}
  /\ writer = NONE /\ daemon = "up" /\ cutoff = 0 /\ crashes = 0

-----------------------------------------------------------------------------
(* Appends.                                                                *)

Insert(row) ==
  /\ daemon = "up" /\ writer = NONE
  /\ row.ts >= cutoff
  /\ \A e \in stored : e.id # row.id /\ e.ts # row.ts
  /\ events' = Put(events, row.id, [row |-> row, analysed |-> FALSE,
                                    enriched |-> FALSE, compacted |-> FALSE])
  /\ stored' = stored \cup {row}
  /\ IF Folds(row) THEN Rebuild(events') ELSE UNCHANGED <<taskTable, claimTable>>
  /\ UNCHANGED <<vectors, archived, worker, backlog, batch, writer, daemon, cutoff, crashes>>

(* Mutant: the queue grows without bound.                                  *)
OfferAlways(q, x) == Append(q, x)

(* try_send: a full queue leaves the row to the backlog.                   *)
Offer(q, x) == IF Len(q) < QueueCapacity THEN Append(q, x) ELSE q

(* store_ingested, for the rows should_drop keeps; a row may arrive after  *)
(* rows of a later timestamp.  Navigation is kept if it failed, if it has  *)
(* no exit code and an error in its output, or if it is research.          *)
IngestShell(x, ts, command, code) ==
  /\ command \in Noise => code \in {1, NONE} \/ command \in Research
  /\ Insert([id |-> x, ts |-> ts, source |-> "shell", command |-> command,
             exit_code |-> code])
  /\ queue' = Offer(queue, x)

IngestEvidence(x, ts, source) ==
  /\ Insert([id |-> x, ts |-> ts, source |-> source, exit_code |-> NONE])
  /\ queue' = Offer(queue, x)

(* A request that is validated against the view it is appended to.         *)
(* Requests do not feed the queue.                                         *)
Author(r, ts, i) ==
  LET b == Body(r, i, FocalTask(taskTable, claimTable), claimTable)
  IN  /\ \A e \in stored : e.id # r /\ e.ts < ts
      /\ b # NONE
      /\ Validate(b) /\ ValidateAgainstProjection(b, claimTable)
      /\ Insert([id |-> r, ts |-> ts, source |-> "claim", body |-> b])
      /\ UNCHANGED queue

-----------------------------------------------------------------------------
(* The enrichment worker.  It reads the row once, without a lock; what it  *)
(* writes later is an UPDATE, and finds no row if it was pruned since.     *)

Update(x, entry) ==
  events' = IF x \in DOMAIN events THEN [events EXCEPT ![x] = entry] ELSE events

Take ==
  /\ daemon = "up" /\ worker = NONE /\ queue # <<>>
  /\ LET x == Head(queue)
     IN  worker' = IF x \in DOMAIN events
                   THEN [id |-> x, row |-> events[x].row,
                         at |-> IF ~events[x].analysed THEN "analyse"
                                ELSE IF x \in Long THEN "compact" ELSE "embed"]
                   ELSE NONE
  /\ queue' = Tail(queue)
  /\ UNCHANGED <<diskVars, backlog, batch, writer, daemon, cutoff, crashes>>

Working(step) == daemon = "up" /\ worker # NONE /\ worker.at = step

(* decide says Summarize: a long row that is not loud, durable, a failure  *)
(* or navigation.                                                          *)
Summarized(row) == /\ row.source \in {"shell", "filesystem"} /\ row.exit_code # 1
                   /\ row.source = "shell" => row.command \notin Noise
                   /\ row.id \in Long \ Durable

Compacted(entry) == [entry EXCEPT !.compacted = TRUE]
Analysed(entry)  == [entry EXCEPT !.analysed = TRUE,
                                  !.compacted = @ \/ Summarized(entry.row)]
Enriched(entry)  == [entry EXCEPT !.enriched = TRUE]

(* A row that was already classified when it was read is compacted         *)
(* whatever it is.                                                         *)
Compact ==
  /\ Working("compact") /\ writer = NONE
  /\ Update(worker.id, Compacted(events[worker.id]))
  /\ worker' = [worker EXCEPT !.at = "embed"]
  /\ UNCHANGED <<vectors, archived, taskTable, claimTable, stored, queue, backlog,
                 batch, writer, daemon, cutoff, crashes>>

(* record_analysis_and_maybe_compact, one transaction.                     *)
Analyse ==
  /\ Working("analyse") /\ writer = NONE
  /\ Update(worker.id, Analysed(events[worker.id]))
  /\ worker' = [worker EXCEPT !.at = "embed"]
  /\ UNCHANGED <<vectors, archived, taskTable, claimTable, stored, queue, backlog,
                 batch, writer, daemon, cutoff, crashes>>

IsNote == worker.row.source = "note"

(* A note is never sent to the model.                                      *)
FinishNote ==
  /\ Working("embed") /\ IsNote /\ writer = NONE
  /\ Update(worker.id, Enriched(events[worker.id]))
  /\ worker' = NONE
  /\ UNCHANGED <<vectors, archived, taskTable, claimTable, stored, queue, backlog,
                 batch, writer, daemon, cutoff, crashes>>

(* No client, a pause after a failure, or a failure.                       *)
SkipEmbedding ==
  /\ Working("embed") /\ ~IsNote
  /\ worker' = NONE
  /\ UNCHANGED <<diskVars, queue, backlog, batch, writer, daemon, cutoff, crashes>>

Embed ==
  /\ Working("embed") /\ ~IsNote /\ HasModel
  /\ worker' = [worker EXCEPT !.at = "store"]
  /\ UNCHANGED <<diskVars, queue, backlog, batch, writer, daemon, cutoff, crashes>>

(* insert_embedding deletes the old vector, then inserts the new one, then *)
(* the row is marked: three statements, no transaction.                    *)
DeleteOldVector ==
  /\ Working("store") /\ writer = NONE
  /\ writer' = WORKER
  /\ vectors' = vectors \ {worker.id}
  /\ worker' = [worker EXCEPT !.at = "insert"]
  /\ UNCHANGED <<events, archived, taskTable, claimTable, stored, queue, backlog,
                 batch, daemon, cutoff, crashes>>

InsertVector ==
  /\ Working("insert")
  /\ vectors' = vectors \cup {worker.id}
  /\ worker' = [worker EXCEPT !.at = "mark"]
  /\ UNCHANGED <<events, archived, taskTable, claimTable, stored, queue, backlog,
                 batch, writer, daemon, cutoff, crashes>>

MarkEnriched ==
  /\ Working("mark")
  /\ Update(worker.id, Enriched(events[worker.id]))
  /\ worker' = NONE /\ writer' = NONE
  /\ UNCHANGED <<vectors, archived, taskTable, claimTable, stored, queue, backlog,
                 batch, daemon, cutoff, crashes>>

-----------------------------------------------------------------------------
(* The backlog sweeper.                                                    *)

(* ORDER BY timestamp_ms LIMIT n: as a set, and in that order.             *)
Older(ids, x) == {y \in ids : events[y].row.ts < events[x].row.ts}
Oldest(ids, n) == {x \in ids : Cardinality(Older(ids, x)) < n}
OldestFirst(ids, n) ==
  [k \in 1..Cardinality(Oldest(ids, n)) |->
     CHOOSE x \in ids : Cardinality(Older(ids, x)) = k - 1]

Unenriched(analysed) ==
  {x \in DOMAIN events : ~events[x].enriched /\ events[x].analysed = analysed}

(* Mutants: embeddings are retried first; only the analysis backlog is read. *)
BacklogEmbeddingFirst ==
  OldestFirst(Unenriched(TRUE), BacklogBatch) \o OldestFirst(Unenriched(FALSE), BacklogBatch)
BacklogAnalysisOnly == OldestFirst(Unenriched(FALSE), BacklogBatch)

(* get_analysis_backlog, then get_embedding_backlog.                       *)
Backlog ==
  OldestFirst(Unenriched(FALSE), BacklogBatch) \o OldestFirst(Unenriched(TRUE), BacklogBatch)

Sweep ==
  /\ daemon = "up" /\ backlog = <<>>
  /\ backlog' = Backlog
  /\ UNCHANGED <<diskVars, queue, worker, batch, writer, daemon, cutoff, crashes>>

(* The first refused offer ends the sweep.                                 *)
OfferBacklog ==
  /\ daemon = "up" /\ backlog # <<>>
  /\ queue' = Offer(queue, Head(backlog))
  /\ backlog' = IF Len(queue) < QueueCapacity THEN Tail(backlog) ELSE <<>>
  /\ UNCHANGED <<diskVars, worker, batch, writer, daemon, cutoff, crashes>>

-----------------------------------------------------------------------------
(* The pruner.                                                             *)

(* A score below SCORE_THRESHOLD.                                          *)
Quiet(row) == \/ row.source = "filesystem"
              \/ row.source = "shell" /\ row.command \in Noise

OpensActiveTask(x) ==
  \E t \in DOMAIN taskTable : taskTable[t].status = "active"
                              /\ taskTable[t].opened_by = x
IsCurrentEvidence(x) ==
  \E i \in DOMAIN claimTable : claimTable[i].status = "current"
                               /\ x \in claimTable[i].evidence

(* Mutant: openers are not protected.                                      *)
PrunableOpeners ==
  {x \in DOMAIN events : /\ events[x].row.ts < cutoff /\ Quiet(events[x].row)
                         /\ ~(events[x].analysed /\ x \in Durable)
                         /\ ~IsCurrentEvidence(x)}

(* get_prunable_events.  The memory type is known once a row is analysed.  *)
Prunable ==
  {x \in DOMAIN events : /\ events[x].row.ts < cutoff /\ Quiet(events[x].row)
                         /\ ~(events[x].analysed /\ x \in Durable)
                         /\ ~OpensActiveTask(x) /\ ~IsCurrentEvidence(x)}

(* Mutants: a declined archive goes unnoticed; the delete is skipped.      *)
ArchiveDeclined ==
  /\ daemon = "up" /\ writer = NONE /\ Prunable # {}
  /\ batch' = Oldest(Prunable, PruneBatch)
  /\ writer' = PRUNER
  /\ UNCHANGED <<diskVars, queue, worker, backlog, daemon, cutoff, crashes>>
ArchiveOnly ==
  /\ daemon = "up" /\ writer = NONE /\ Prunable # {}
  /\ archived' = [x \in EventId |->
       IF x \in Oldest(Prunable, PruneBatch)
       THEN archived[x] + 1 ELSE archived[x]]
  /\ UNCHANGED <<events, vectors, taskTable, claimTable, stored, queue, worker,
                 batch, writer, backlog, daemon, cutoff, crashes>>

(* archive_pass: one INSERT into the archive, then one DELETE at a time.   *)
Archive ==
  /\ daemon = "up" /\ writer = NONE /\ Prunable # {}
  /\ batch' = Oldest(Prunable, PruneBatch)
  /\ archived' = [x \in EventId |-> IF x \in batch' THEN archived[x] + 1
                                                    ELSE archived[x]]
  /\ writer' = PRUNER
  /\ UNCHANGED <<events, vectors, taskTable, claimTable, stored, queue, worker,
                 backlog, daemon, cutoff, crashes>>

(* delete_events, per id: the row, then its vector.                        *)
DeleteRow ==
  /\ writer = PRUNER /\ batch \subseteq DOMAIN events
  /\ \E x \in batch : events' = [y \in DOMAIN events \ {x} |-> events[y]]
  /\ UNCHANGED <<vectors, archived, taskTable, claimTable, stored, queue, worker,
                 backlog, batch, writer, daemon, cutoff, crashes>>

DeleteVector ==
  /\ writer = PRUNER
  /\ \E x \in batch \ DOMAIN events :
       /\ vectors' = vectors \ {x}
       /\ batch' = batch \ {x}
       /\ writer' = IF batch' = {} THEN NONE ELSE PRUNER
  /\ UNCHANGED <<events, archived, taskTable, claimTable, stored, queue, worker,
                 backlog, daemon, cutoff, crashes>>

-----------------------------------------------------------------------------
Crash ==
  /\ daemon = "up" /\ crashes < MaxCrashes
  /\ daemon' = "down"
  /\ queue' = <<>> /\ worker' = NONE /\ backlog' = <<>> /\ batch' = {}
  /\ writer' = NONE
  /\ crashes' = crashes + 1
  /\ UNCHANGED <<diskVars, cutoff>>

(* Start-up rebuilds the view from whatever rows are left.                 *)
Start ==
  /\ daemon = "down"
  /\ daemon' = "up"
  /\ Rebuild(events)
  /\ UNCHANGED <<events, vectors, archived, stored, queue, worker, backlog, batch,
                 writer, cutoff, crashes>>

(* Rows grow old.  RETENTION_MS, a week, is longer than the worker takes   *)
(* to analyse what is stored while the daemon runs, but it may be down.    *)
Age(t) ==
  /\ cutoff < t
  /\ daemon = "up" => \A x \in DOMAIN events : events[x].analysed
  /\ cutoff' = t
  /\ UNCHANGED <<diskVars, queue, worker, backlog, batch, writer, daemon, crashes>>

Stamp == 1..LastStamp

(* The steps of the worker that need the writer lock, and the others.      *)
EnrichLocking == Analyse \/ Compact \/ FinishNote \/ DeleteOldVector
EnrichFree    == Take \/ SkipEmbedding \/ Embed \/ InsertVector \/ MarkEnriched
Prune  == Archive \/ DeleteRow \/ DeleteVector

Next ==
  \/ \E x \in Run, ts \in Stamp :
       \/ \E command \in Command, code \in ExitCode \cup {NONE} :
            IngestShell(x, ts, command, code)
       \/ \E source \in Evidence : IngestEvidence(x, ts, source)
  \/ \E r \in Request, ts \in Stamp, i \in Input : Author(r, ts, i)
  \/ EnrichLocking \/ EnrichFree \/ Sweep \/ OfferBacklog \/ Prune \/ Crash \/ Start
  \/ \E t \in Stamp : Age(t)

Spec == Init /\ [][Next]_vars

(* Tasks run when they can; the writer mutex is a fair queue, so whoever   *)
(* waits for it again and again gets it; systemd restarts the daemon.  The *)
(* actions joined in one condition are steps of one task, never enabled    *)
(* together; Start is the one step that brings the daemon up.              *)
Fairness ==
  /\ WF_daemon(daemon = "down" /\ daemon' = "up")
  /\ WF_vars(DeleteRow \/ DeleteVector)
  /\ WF_vars(Sweep \/ OfferBacklog)
  /\ WF_vars(EnrichFree) /\ SF_vars(EnrichLocking)

FairSpec == Spec /\ Fairness

-----------------------------------------------------------------------------
(* Properties.                                                             *)

(* What is in force: the tasks that are active and the claims that are     *)
(* current.  The link from a claim to the one it superseded is history.    *)
InForceTasks(tasks) ==
  [t \in {t \in DOMAIN tasks : tasks[t].status = "active"} |-> tasks[t]]
InForceClaims(claims) ==
  [i \in {i \in DOMAIN claims : claims[i].status = "current"} |->
     [claims[i] EXCEPT !.supersedes = NONE]]

(* Whatever the pruner has moved out of the log, and wherever it was cut   *)
(* short, a rebuild from the rows that are left puts in force exactly what *)
(* is in force now, the focal task included.                               *)
PruningIsInvisible ==
  LET view == FoldOf(LogRows(events))
  IN  /\ InForceTasks(view.tasks) = InForceTasks(taskTable)
      /\ InForceClaims(view.claims) = InForceClaims(claimTable)
      /\ FocalTask(view.tasks, view.claims) = FocalTask(taskTable, claimTable)

(* Every row ever stored is in the log or in the archive, at every moment  *)
(* of a pass and after a crash in the middle of one.                       *)
NothingIsLost ==
  \A e \in stored : e.id \in DOMAIN events \/ archived[e.id] > 0

(* Only a crash in the middle of a pass archives a row twice.              *)
ArchivedOnce == \A x \in EventId : archived[x] <= 1 + crashes

(* A row leaves the analysis backlog whether or not the model answers, the *)
(* queue has room, or the daemon crashes.                                  *)
EveryRowAnalysed ==
  \A x \in EventId :
    x \in DOMAIN events ~> (x \in DOMAIN events => events[x].analysed)

(* If the model answers for a row that it is asked about again and again,  *)
(* the row leaves the embedding backlog.                                   *)
EveryRowEnriched ==
  (\A x \in EventId : SF_vars(Embed /\ worker.id = x)) =>
    \A x \in EventId :
      x \in DOMAIN events ~> (x \in DOMAIN events => events[x].enriched)

-----------------------------------------------------------------------------
(* What the repository's documents say and the code does not do.           *)

(* docs/component-2-design.md:9: authored claims survive a rebuild.        *)
AuthoredClaimsSurvive ==
  \A e \in stored : e.source = "claim" /\ e.body.op = "assert" =>
                      e.body.claim_id \in DOMAIN claimTable

=============================================================================
