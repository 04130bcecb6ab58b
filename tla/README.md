# A TLA+ verification of contextd

contextd is a local daemon that watches what a developer does (shell commands,
file saves, git operations, processes), keeps it in SQLite, and answers agents
that ask "what is being worked on, what is known, what is in force". This
directory holds TLA+ modules of it, the TLC configurations that check them, and
TLAPS proofs of the properties that matter most.

| file | what it is |
|---|---|
| `Claims.tla` | tasks, claims, claim events, the two validators, the fold of one event and of a set of rows, the focal task: constant operators |
| `Requests.tla` | the shapes of rows and views; what a client asks for and the claim event each request becomes: constant operators |
| `WorkingState.tla` | the write path: ingest, requests, rebuilds, the writer mutex, crashes |
| `ClaimBoard.tla` | what the write path promises, without a log, a fold or a lock: the abstract specification `WorkingState` implements |
| `Retention.tla` | what happens to a stored row: enrichment, compaction, embedding, pruning, archive |
| `Handoff.tla` | notes quoted as claims: extraction, its stamps, its inserts, its report |
| `Verdicts.tla` | the rules on one payload: score, verdict, analysis, compaction, archive |
| `Tiers.tla` | the working set and the graph, with its flush to disk |
| `Briefing.tla` | the packet agents read: two SELECTs, rendering, trimming |
| `Search.tla` | search and recall over rows and vectors that change meanwhile |
| `Shells.tla` | prompt hooks of bash, zsh and fish, their senders, the socket file |
| `Clients.tla` | one request, one reply: command line and MCP tools against a daemon that may die |
| `Processes.tla` | the process poller |
| `Watcher.tla` | the file-system watcher, the noise filter, the manifest watcher |
| `Wiring.tla` | what `install` and `uninstall` do to git hooks and shell profiles |
| `Sieve.tla` | what is left of a sequence when it is filtered: the one recursive function that `Tiers`, `Search`, `Watcher` and `Wiring` share, with no `RECURSIVE` operator, so that it can be proved about |
| `WorkingState_proofs`, `Retention_proofs`, `Broker_proofs`, `Tiers_proofs`, `Terminal_proofs`, `Sources_proofs` | theorems; `Broker_proofs` is about `Handoff`, `Briefing` and `Search`, `Tiers_proofs` about `Verdicts` and `Tiers`, `Terminal_proofs` about `Shells`, `Processes` and `Clients`, `Sources_proofs` about `Watcher` and `Wiring` |
| `Claims_proofs.tla`, `Sieve_proofs.tla` | lemmas of the others: what one fold does to the views; least counterexamples, filtering, concatenation |
| `MC*.tla`, `*.cfg` | instances for TLC |
| `PROJECT.json` | components, runs, mutants, the map from definitions to source lines, findings, hazards, theorems |

## 1. Inventory

### 1.1 Components

**Claim vocabulary** (`crates/core/src/claim.rs`). No state of its own. A
`Projection` is two vectors, tasks and claims. A *claim* says one thing about a
task (`reality`, `intent`, `decision`, `constraint`, `ruled_out`, `unknown`,
`next_action`) and is `current` or `superseded`; for three kinds at most one
claim may be current per (task, subject). `validate` judges a claim event by
itself, `validate_against_projection` against a projection. Correct when: no
origin can overrule an origin above it (projector observations, then users,
then agents), and an accepted event cannot break the slot rule.

**Projector** (`crates/memory/src/project.rs`). Folds the shell and claim rows,
ordered by (timestamp, id), into a projection; `rebuild` reads the log, folds it
from nothing and replaces the tables. `focal_task` picks the task agents are
told about. Correct when: the tables are the fold of the log; a command's
newest exit is its reality; a proposal to re-run lives exactly as long as the
failure it is about; a rebuild never fails.

**Daemon write path** (`bin/contextd/src/main.rs`). The main loop receives from
the event bus and stores (`store_ingested`); every socket request runs in a task
of its own (`answer_query`): it loads the projection through a reader with no
lock, decides, mints an event and calls `append_and_rebuild`, which takes the
writer mutex, commits the row, rebuilds, and answers. Correct when: what is
acknowledged is durable and visible; a decision made on a stale view cannot do
what a decision on the current one could not; every request is answered.

**Store** (`crates/store/src/{store,db}.rs`). One SQLite writer connection
behind a tokio mutex, readers beside it (WAL). Tables `events`, `tasks`,
`claims`, `vec_events`, `archive`, `intents`. Single statements autocommit;
`replace_projection`, `record_analysis_and_maybe_compact` and the graph's `save`
are transactions. Correct when: no crash between two statements leaves
something that a later run does not repair.

**Shell listener and bus** (`crates/sources/src/shell.rs`). One task per
connection stamps an event and sends it on a tokio broadcast channel of
`EVENT_BUS_CAPACITY`; a slow receiver loses the oldest. Query lines become
requests, note lines go to a channel of their own. Correct when: an event that
was not overwritten is eventually stored.

**Ingest filter** (`crates/pipeline`). `process_event` scores an event by
source and words; `should_drop` discards a quiet event that is not a failure
before it is stored; `analyze`/`decide` classify a stored one. Correct when:
nothing the projector needs is dropped.

**Enrichment** (`crates/background/src/enrichment.rs`). A queue of
`QUEUE_CAPACITY` ids, dropped when full; one worker that classifies, compacts,
embeds and marks; a sweeper that every minute re-offers the oldest
`BACKLOG_BATCH` of two backlogs. Correct when: every row is classified even
with no model; a finished row can be found; what the fold reads is not changed.

**Retention** (`crates/background/src/pruner.rs`, `crates/store/src/archive.rs`).
Hourly, moves up to `BATCH` old, quiet, episodic rows that support nothing in
force from `events` to a compressed segment: archive first, then delete row by
row. Correct when: what is in force is the same before and after; nothing is
lost.

**Handoff extraction** (`crates/broker/src/extract.rs`). Reads notes, drafts
claims from them, admits those that cite evidence and pass the validators,
stamps them after everything in the log, inserts them one by one and rebuilds.
Runs at start-up, after a note and on request. Correct when: extraction run
twice adds nothing; a crash between inserts is repaired by the next run; a claim
is withdrawn only for a reason; the report says what clients then read.

**Tiers 0 and 2** (`crates/memory/src/{working,tier2,graph,graph_store}.rs`). A
bounded deque of recent events in memory, and a weighted graph of entities that
is written to SQLite every five minutes as a whole. Correct when: the deque is
the newest events; weight counts what appeared together; a crash loses at most
one interval of the graph.

**Classification** (`crates/pipeline/src/{classify,content}.rs`). Rules that
give a stored row a use case, a memory type and a summary. Correct when: every
pass over a row, compacted or not, agrees with the one before.

**Briefing and search** (`crates/broker/src/{snapshot,search}.rs`). Read the
store by several statements without a transaction, render and cut. Correct when:
what is in force is shown or said to be cut; what matches is found.

**Shell hook, emitters, installers** (`crates/sources/src/{install,emit,git}.rs`).
Write into files of the user: profile, systemd unit, git hooks. Correct when:
each typed command is sent once; nobody else's hook or line is lost, wherever an
install is cut short.

**File-system and manifest watchers** (`crates/sources/src/{filesystem,noise,manifest}.rs`).
One inotify watch per interesting directory, or polling. Correct when: what the
project has is watched; the daemon does not observe itself.

**Process poller** (`crates/sources/src/proc_poller.rs`). A map from pids to what
ran under them. Correct when: starts and ends match although pids are reused.

**MCP server, command line** (`crates/mcp`, `bin/contextd/src/cli.rs`). One
connection per request. Correct when: what they tell the user happened, happened.

**Model client** (`crates/ai`), **configuration and wire types** (`crates/core`,
`crates/mcp`), **offline evaluation** (`eval/component0`): an HTTP client, data
types, and a program that is not part of the running system.

### 1.2 How they interact

    shell hook, git, fs, proc --> connections --> bus --> main loop --+--> working set, graph --> disk
                                                           |          | append
                              manifest watcher <-----------+          |
    agents, user (socket) ------> request tasks -- append_and_rebuild +--> events --fold--> tasks, claims
             |                         ^                              |       |                 |
             +-- briefing, search      +--- load_projection (reader) -|-------|-----------------+
                                                                      |       v                 v
    enrichment worker <-- queue <-- ingest, sweeper ------ UPDATE ----+     pruner <--- what is in force
                                                                      |        |
    notes --> handoff: claims stamped after the log, one by one ------+     archive

Everything that writes holds the one mutex, sometimes over several
autocommitted statements. Everything that reads does so beside it. So the
behaviours that are hard are: a request that decides on a view which is
replaced before it appends; rows appended out of timestamp order; a crash
between two statements of one hold; queues that drop; since the view is a
cache of the log, anything that changes the log's rows after they were folded;
and, outside the daemon, files that others write and processes that die at any
line. `PROJECT.json` lists the hazards, each at its line, with the properties
that would catch it going wrong or the reason there is none.

## 2. Plan and structure

In the order of importance; all of it is in place.

1. `Claims`, `Requests`, `WorkingState`: the write path and the view.
2. `Retention` (over `Claims` and `Requests`): enrichment, pruning, archive.
3. `ClaimBoard`, and `WorkingState` as an implementation of it.
4. `Handoff` (over `Requests`): extraction, crashes between its inserts, the race
   of its future stamps with user requests.
5. `Verdicts` and `Tiers`: what becomes of one row by the rules, and what is kept
   of all of them beside the log.
6. `Briefing` (over `Requests`) and `Search`: reading while others write.
7. `Shells`, `Clients`, `Processes`, `Watcher`, `Wiring`: the edges.
8. Proofs: of the write path and the board it implements, of retention,
   handoffs, the rules, the working set and the graph, briefing and search, the
   terminal, the watcher, installers (section 11).

Modules that share no state are checked in one run: in `MCTiers`, `MCAsking`,
`MCTerminal` and `MCWiring` a variable `part`, chosen in the initial state, says
which one a behaviour is about; in `MCWiring` it also says which hooks directory
is worked on, and in `MCTiers` whether noise is forgotten or the graph is flushed.
It changes nothing in what is explored of either.

## 3. Claims and Requests

Every operator of `Projection`, both validators, the fold of a shell exit and of
a claim event, and `focal_task`, one operator per function. A projection's two
vectors become two partial functions, from task ids and from claim ids; the two
halves of the fold never read each other, so they are folded separately
(`FoldTasks`, `FoldClaims`).

What is abstracted: 128-bit hashes are injective, so a shell subject is its
command and its task id, and a claim id is a pair of the rule and the event that
made it; texts are members of a set, since no rule looks inside one (`check_text`
bounds the length); an exit code is zero or not; the fold order (timestamp, id)
is a unique timestamp, minted in the order of the clock. Clients other than the
shell hook, which may supply a timestamp, are not modelled, nor are database
errors in the write path.

`Requests` is the three handlers `record_user_intent`, `record_user_claim` and
`record_agent_claim`, as a function from the request and the view it read to the
claim event it builds, or `NONE` where it answers with an error first.

## 4. WorkingState

| variable | code |
|---|---|
| `log` | shell and claim rows of `events` |
| `taskTable`, `claimTable` | tables `tasks`, `claims` |
| `writer`, `todo`, `newTasks`, `newClaims` | who holds the mutex and rebuilds; the rows still to fold; the projection so far |
| `bus`, `published` | the broadcast channel; commands that have reported |
| `pc`, `input`, `loaded`, `pending` | a request task: where it is, what it was asked, the tasks it has read, the row it has built |
| `daemon`, `crashes`, `clock` | the process |

| action | code |
|---|---|
| `Publish` | `handle_client`: stamp, send; a full bus loses an event |
| `Ingest` | `store_ingested`: `should_drop`, insert, rebuild if there is an exit code |
| `Load`, `Decide` | the handler up to its append: first SELECT of `load_projection`; second SELECT, the event, both validators, id and stamp |
| `AppendClaim` | the insert of `append_and_rebuild`, committed before the rebuild |
| `FoldStep`, `Install` | `rebuild` one row at a time; `replace_projection`, one transaction; the answer |
| `Crash`, `Start` | the process dies anywhere; `run_daemon` rebuilds before it listens |

Choices. The rebuild is spread over many steps although it is synchronous code,
because requests read beside it and a crash can fall inside it. The bus is a set
and any event on it may be lost or received next: connections race between the
stamp and the send, so this only adds behaviours. `ClaimId`s that clients name
are restricted to `Named`, which the configurations fill with every id that can
exist. The log only grows here; `Retention` is where it shrinks.

### The board it implements

`ClaimBoard` is a set of `posted` entries that only grows, a view `shown` that is
replaced at one go, and authors who have been `granted` an answer. While it is
`open`, it shows the fold of all that is posted; it closes for an entry that
changes the view, and opens again when the view has caught up. Clients may rely on
no more, and `WorkingState` does no less: with `posted` the log, `shown` the two
tables, `open` the absence of a rebuild and `granted` the rows of the requests
answered `ok`, `WorkingState` implements it (`ImplementsBoard`). The mapping says
what a rebuild, spread over many steps, amounts to, and that it amounts to the
fold in timestamp order of every stored row: the abstract `Fold` is instantiated
with `FoldOf` of `Claims`, a recursion over sets of rows that takes the last row
of a set and shares no step with the rebuild's.

### Runs

`Safety`: two shell runs over two commands, one of them navigation that
`should_drop` filters when it succeeds, two requests (intent, decision,
retraction, done; an agent's decision or next action), a bus of one (so that a
second exit may be lost to a loop that lags) and a crash.
Two runs are enough for a failure and the success or failure that replaces it, in
either order; two requests for one to validate against what the other destroys;
one crash falls at every point of both. It checks:

- `RebuildNeverWedges`: a rebuild never meets the slot index or the claims'
  primary key. The row that broke either would already be in the log, and every
  later rebuild would fail too.
- `LatestExitIsReality`: at rest, a command's newest stored exit is its current
  reality, whatever users, agents and stale reads did.
- `FrontierOnlyWhileFailing`: the projector's proposal to re-run stands only
  while the command stands as failing.
- `UserClaimsKept`: a user's claim is retired only by a user's row.
- `AckIsDurable`: what was answered `ok` is in the log, and in every later view,
  across late rows and restarts.
- `NothingIsForgotten`: no install drops an asserted claim or reopens a task.
- `ImplementsBoard`: above.

`Live`: `RequestsAnswered`, `Recovers`, with a request and two runs competing for
the writer and a crash.

Fairness. `Start` is weakly fair: the unit that `install.rs:232` writes says
`Restart=on-failure`. `FoldStep` and `Install` are weakly fair: they are
synchronous code. `Decide` is weakly fair: readers never wait. `AppendClaim` and
`Ingest` are strongly fair: they wait for a mutex that others take again and
again, and tokio's mutex is a first-come queue. Nothing is assumed of clients or
of the shell: `Publish` and `Load` need never happen, and `Crash` may.

## 5. Retention

An append and its rebuild are one step here: that the view at rest is the fold of
the log is what `WorkingState` establishes. Shell rows may arrive late; an
authored row is validated and appended at once.

| variable | code |
|---|---|
| `events`, `vectors`, `archived`, `taskTable`, `claimTable` | the tables; of a row's enrichment columns, whether it is classified, marked embedded and compacted; `archived` counts the segments that hold an event |
| `queue`, `worker`, `backlog`, `batch` | the mpsc queue; the row the worker read and its next step; the ids the sweeper has left to offer; the ids the pruner has left to delete |
| `writer` | holder of the mutex between two statements of one hold |
| `cutoff` | now minus `RETENTION_MS` |
| `stored` | every row ever inserted (history) |

The worker's steps are the stages of `enrich_one`, split where it takes or
releases the lock and where two statements commit separately: `Take`, `Analyse` or
`Compact`, `FinishNote` or `SkipEmbedding` or `Embed`, then `DeleteOldVector`,
`InsertVector`, `MarkEnriched` under one hold. `Archive`, `DeleteRow` and
`DeleteVector` are one pass of the pruner under one hold. `Sweep` and
`OfferBacklog` are the sweeper. A crash clears all that is in memory.

`Age` moves the cutoff. While the daemon is up it waits for all rows to be
analysed, because a week is longer than that takes; while it is down it does not.
The model's answer is a free choice between `Embed` and `SkipEmbedding`; the pause
after a failure is a skip. The worker's own `Drop` verdict is in `Verdicts`, where
it is shown never to come of a row that was stored.

What is quiet and stored: file saves, and navigation (`Noise`) that failed, that has
no exit code but an error in its output, or that the rules classify as research
(`Research`: `ls | grep x`, `cd x && cat y`; `decision.rs:64-66`), which is kept
however it ends. So the exits of a quiet command that the pruner chooses from are
failures and passes in any mix.

`Retention`: three exits of two research commands, each a failure, a pass or without
a code, in any order of arrival (a failure opens the task, the second exit becomes
superseded evidence, the third decides what stands: the least that gives the
pruner a fold row it may take from an active task), a request of a user or an agent
about either, a crash, a queue and backlog batch of one. In this run (`AtOnceSpec`) a
row that waits for the worker is analysed before anything else happens: the worker
writes nothing that the fold or, with no durable and no long rows, the pruner reads,
so its interleavings are left to the next run.
- `PruningIsInvisible`: whatever has been removed, and wherever a pass was cut
  short, a rebuild from the rows that are left puts in force what is in force now:
  same active tasks, same current claims, same focal task. Only the link from a
  claim to its predecessor may change.
- `NothingIsLost`: every row ever stored is in the log or in the archive.

`Enrichment`: two observed rows (a file save or a note each, one of them long), a queue
and a batch of one so that every offer can be refused, and two crashes. A shell row
takes the worker's steps of a file save.
- `EveryRowAnalysed`: with no assumption on the model.
- `EveryRowEnriched`: if the model answers for each row it is asked about again
  and again.

Fairness: the tasks run; the worker is strongly fair where it waits for the
writer (the same mutex); start-up as above. The conditions join actions of one
task that are never enabled together.

## 6. Handoff

| variable | code |
|---|---|
| `log`, `taskTable`, `claimTable` | shell, note and claim rows; the view |
| `phase`, `todo`, `foreseen` | a handoff holds the writer; the extracted rows it has still to insert; the claims of the projection it extended in memory, which its report is computed from |
| `noted` | a note line whose handoff has still to run |
| `clock`, `settled`, `crashes` | stamps; a handoff has completed since the last append; bound |

`ObserveTool`, `ObserveNote`, `NoteLine` and `Author` are the requests that add
rows; `StartHandoff` computes the whole extraction (the writer is held, and it is
synchronous up to there), `InsertExtracted` commits one row, `FinishHandoff`
rebuilds; `CompactOutput` is the enrichment worker on a tool's output; `Crash` may
fall between any two inserts, `Restart` runs a handoff before it listens.

`Extraction` is the algorithm: a state of rows, claims and seen texts threaded
through the notes in log order, each note a `RetractNote`, `UpdateNote` or a
quotation whose drafts are admitted one by one, with the ids of `push_event`,
its stamp (`StampAhead`), and its skipping of a row that is already there. What
the extractor finds in the words of a note is data: a note says a sequence of
(kind, text), and a tool's output is the set of texts that overlap it enough. A note
says at most `MAX_SENTENCES` things: from the 27th sentence on, `suffix_for`
gives ids that were given before, and such notes are left out. The loops over notes
(`Extracting`), drafts (`Accepting`) and rows (`FoldedIn`) are recursive functions,
over a set in the order of the log or over an index, so that they can be proved
about.

Run `Handoff`: two tool reports, two notes of five kinds, one user request, and
either a crash or a file read whose output may be compacted (`part` in `MCHandoff`:
a compaction takes something from a handoff only when what the tool read
grounds a note, and a crash falls between inserts whatever they quote). Two notes
are what it takes for one to withdraw or correct what the other said, and for a
crash to leave one of them done.
- `RemovedForAReason`: a claim of a person or an agent ceases to be current only
  if a request names it, a note quotes its text, or its slot is taken.
- `RerunAddsNothing`: a handoff over the log of another adds nothing, for logs
  without retracting notes (section 10 says what happens with them).
- `ReportMatchesView`: what it reports is what clients read after the rebuild.

## 7. Verdicts and Tiers

`Verdicts` follows any one payload from its sensor through `should_drop`, the
worker's first pass, its later passes over what compaction has left, and the
pruner. A payload is the keys it has and what the rules find in their values:
the kind of command, of file, of error line, which value is long.
- `NothingStoredIsDropped`: the verdict is taken at ingest, before tiers that
  cannot give a row back; no later pass comes to `Drop`.
- `CompactionIsInvisible`: no pass takes a key that the projector or the handoff
  reads, of shell rows and notes. (Claim rows: section 10.)

`Tiers`: `working` is the deque, `graph` and `recent` Tier 2 in memory, `disk` the
tables, `copied` the copy a flush made under the graph's lock and writes without
it; `step` is how far `store_ingested` has come with each event. `Insert`,
`RecordEvent` and `ObserveEvent` interleave between the main loop and observe
requests; `DropRow` and `ForgetDropped` are the worker's removal; `CopyGraph` and
`SaveGraph` the flush; `Crash`, and `Restart` with a load that may fail.
`DropRow` may take any row of `Noise`: more than the code does, which
`NothingStoredIsDropped` shows only rows of an older version can be subject to.
- `RecentIsComplete`: a fresh event is among the recent ones unless `CAPACITY`
  came after it.
- `WeightIsEarned`: an edge weighs no more than the times its ends were seen
  together, across flushes, crashes and reloads.
- `RelatedIsStrongest`: cutting each neighbour list, merging, and cutting again
  loses no stronger relation. What is related is a set of entity and weight: who
  asks is told in order of weight, which is a matter of rendering.
- `DiskGrows`: while the tables can be read at start-up, no flush takes anything
  off disk.

Run `Tiers`: four events whose entities overlap in pairs, a ring of two, a window
of two, one crash, one failed load; and the payloads `MCObservation` enumerates,
the key sets the sensors fill. Decay of weights by age is data and is left out:
`recency` only enters the score, not what is stored.

## 8. Briefing and Search

`Briefing`: `SelectTasks` and `SelectClaims` are the two SELECTs, between which
commands and authored claims may be stored; `Render` is `build_snapshot`; `Trim`
one step of the loop that removes detail until the packet fits. A claim, a task
and a line cost one token each. `InOrder` puts the members of a set in a sequence
by what the code's `sort_by` compares; times are unique here, so its last key, the
id, never decides.
- `NothingFailsUnseen`: a task that fails all the while is shown, or the packet
  says that it was cut.
- `PassesAreTold`: `now passes` is said of exactly the commands whose newest exit
  is 0 and that failed before.
- `CutsAreTold`: a packet that does not say so is whole and fits; in one that
  does, what is in force stays, and a line goes only when no task has a detail
  left.

`Search`: a query embeds, asks the vectors, fetches the rows one by one, asks for
text; rows and vectors come and go between any two of those.
- `SearchIsHonest`: an answer below its limit has missed no row that contained
  the query all along, and lists none twice.

Run `Asking`: five rows over two commands (a failure of each, a pass, and two
authored claims: enough for open work beside a focal task), budgets that fit
nothing, some and all; three events, limits 1 to 3.

## 9. The edges

`Shells`. `Run`, `Enter`, `OpenShell` and `CloseShell` are what the user does; the
prompt that follows runs the hook as part of the same action, with bash's history
line, zsh's preexec and fish's event. `Try` and `TimesOut` are one attempt of a
background sender with each dialect of netcat; `Start`, `Unlink`, `Bind`,
`RestrictPermissions` and `Stop` a daemon. Properties: `NewCommandsAreSent`,
`LoneDaemonIsReached` (whatever a predecessor left behind), `SendersEnd`. The third
attempt is a bare `nc -U`, which waits for its daemon whichever netcat it is. So
`SendersEnd` promises an end where `timeout` stops it, where fish does not start it,
where socat or nothing is used; and to a sender whose netcat can be told to hang up,
unless the daemon it first met goes away, for it may meet another at that last
attempt and stay (section 10).
Fairness: a sender's attempts and a daemon's start-up are sequential code.

`Clients`. `StartCall`, `ReadReply`, `Interrupt` on one side, `Dispatch`, `Take`,
`WriteRow`, `Serve`, `WriteReply` on the other; `Die` loses channels and cuts
wires, possibly in the middle of a reply. Properties: `NotedMeansStored`,
`CallsEnd`. Fairness: the tasks of a daemon that lives run, and a client that
waits reads; a wire whose daemon died is cut by the kernel.

`Processes`. Pids are given out again between polls, a process may become
another program, the wall clock may be set. Property: `EndsAreOfStarts`.

Run `Terminal`: three shells, three commands, two daemons; two processes, five
ticks; two calls and a death. The processes of one poll are told of in any
order: the code walks a hash map.

`Watcher`. `List`, `Attach` and the fall-back to polling are start-up; `ListNew`
and `WatchNew` the attachment of a directory that appears; `Publish`,
`ManifestTakes` and `StoreTakes` the bus; `MakeDir`, `Save`, `RemoveTree` and
`MoveTree` the user. inotify and notify's polling watcher are external: an event
for each entry of a watched directory. A scan of the polling watcher compares what
it finds with what it found before, and tells of one difference at a time, so that
a batch may be cut anywhere. Properties:
- `NoFeedback`: nothing of contextd's own is sent, and each change of a user causes
  a bounded number of events;
- `SettledIsWatched`: a watcher with nothing to do watches what it should;
- `ChangesAreReported`: and has sent what changed under its watches;
- `ManifestFollows`: the manifest watcher derives one event from each change of a
  manifest that it takes, and none from its own.

`SettledIsWatched` and `ChangesAreReported` except what nobody could tell the
watcher of, and the history variables `missed` and `owed` say when that is: what
appears in a directory before it is watched, and, of a polled tree, what is
removed and made again between two scans, or made before a watch attached anew
takes stock. Run `Watcher`: six directories, among them nested ones that move whole
and contextd's own, which is ignored; three operations, a limit of three
watches (so that the fall-back happens with all its interleavings), a bus of two.
The bound in `NoFeedback` of four events to an operation is one of these trees: a
larger tree that moves, or that a scan finds new, has more paths to report.

`Wiring`. `Look`, `Move`, `Write` and `SetPermissions` are the calls of
`install_one`, between any of which the installer may `Die`, another may work,
and another tool may touch the hook; `InstallShellHook`, `Uninstall` and
`InstallSystemdUnit` work on the home directory, between the user's edits.
`GitRuns` is what git then does, for a commit, a checkout of a branch, one of files
(`restore`) and a push, with any set of other people's hooks failing. Our hook runs
the one it moved aside first and ends with its status if that fails; it sends
nothing for a checkout of files. Three hooks of one directory are one file here:
`install_one` treats each alike and alone. Where git looks is not what the
installer asks: git also takes `core.hooksPath` from the user's or the system's
configuration (`Inherited`, per tree, as `includeIf` allows), where neither the
repository nor the worktree sets it. A profile is a sequence of lines: markers, what an
install writes between them, and the user's. Properties: `TheirsIsKept`,
`InstalledHookWorks`, `ProfileIsTheUsers`. `InstalledHookWorks` says of an install
that ran to its end what each operation runs, sends and sees fail, and excepts the
trees where only inherited configuration says where hooks are (section
10). Run `Wiring`: two installers of two versions in a
repository, or in a linked worktree with a hooks path of its own over an inherited
one, two foreign hooks, four edits, two deaths; or the profile, with four edits.

## 10. Where the code and the documents disagree

Two runs that TLC refutes; `PROJECT.json` quotes the lines.

| run | what happens |
|---|---|
| `Compaction` | a claim row over 512 characters that the worker meets a second time (its embedding is missing, as with no model) loses the fields the fold reads; the next rebuild forgets the claim |
| `LateStamp` | extracted claims are stamped a second ahead; a retraction a user makes within that second sorts before the claim it names, is answered `ok`, and has no effect |

Met while modelling, and in the models as the code has them:

- An agent's next action on a failing focal task is refused: the handler
  (`main.rs:377-384`) makes it replace the projector's proposal, and the validator
  (`claim.rs:468-470`) does not let an agent replace that.
  `docs/connecting-agents.md:29` offers it.
- A failure after `done` leaves the task done (`claim.rs:266`; the repository's own
  list has it as C1-01).
- A passing `cd` or `ls` is dropped before storage (`decision.rs:81`) unless its text
  makes it research (`decision.rs:64-66`), so the failure stored before it stays
  current (`docs/working-state-representation.md:382`). A quiet command with a durable tail
  (`cd x && make deploy`) is dropped as well.
- A row not yet classified has no memory type and is pruned as episodic
  (`db.rs:298-309`) if the daemon restarts a week later; the verdict `Promote`
  ("durable enough to survive pruning", `decision.rs:27`) is not consulted.
- A row can be queued twice (`enrichment.rs:288-291`); re-embedding deletes the
  vector first (`vector.rs:42`), and a crash before the insert leaves a row that is
  marked embedded, has no vector and is in no backlog.
- Handoff: with a retracting note, running it again is not free of effect
  (`docs/component-2-design.md:133`): what was retracted may be restated by an
  earlier note and retracted again. A long tool output compacted before a handoff
  reads it no longer grounds a conclusion; a long note compacted twice loses its
  role and the text it replaces.
- `summarize_shell` says "failed" of an exit 0 whose output has an error line.
- Two intents that both see no focal task open two tasks (`main.rs:244`); a
  timestamp that goes back reorders the log (`main.rs:175`); a vector may be
  written for a row that was pruned meanwhile (`enrichment.rs:176`).
- "Everything here is also in Tier 1" (`main.rs`) holds of Tier 0 up to the moment
  between the deletion of a row and `forget`. A graph that cannot be read is
  replaced by an empty one, and the next flush erases what was stored.
- `install` reads the profile with `unwrap_or_default` (`install.rs:146`): one that
  is not UTF-8 is replaced by the block alone, against `install.rs:7`. `uninstall`
  leaves the git hooks. A hook torn by a crash beside a backup is never repaired.
- With `core.hooksPath` in the user's or the system's git configuration and in no
  other, the hooks go to the repository's directory, where git does not look:
  install succeeds and nothing is heard. `git.rs:277` says of `git_hooks_dir` that it
  is where git actually keeps hooks; `InstalledHookWorks` excepts these trees.
- Senders are "time-bounded on purpose" (`emit.rs:38`). One is not: a command is
  typed on a socket file nobody listens on, two attempts fail, a daemon binds, and
  the third, a bare `nc -U` (`emit.rs:44-52`), connects and, with no `timeout` on the
  machine, stays as long as the daemon does, although its netcat knows `-N` or
  `-q0`. `SendersEnd` excepts it.
- The watcher's task ends when a directory disappears between the listing and its
  watch; a directory made in that window, and files already in a new directory,
  are not reported; a relative database path makes everything noise; past the
  kernel's limit, a directory that appears later is only logged.
- A new bash knows no last line, so its first prompt sends the last line of the
  history file once more, although "bash skips a history line it has already sent"
  (`docs/briefing-selection-failure.md:113`); and a command that is
  typed again exactly is not seen: fail, fix in an editor, run again.
- `contextd intent` prints "Noted" whatever the daemon replied (`cli.rs:278`); "did
  not store" is printed after a crash although the row was stored.
- A pid first seen and a pid that has lasted need not be the same process
  (`proc_poller.rs`).
- A packet mixes two moments of the store (`snapshot.rs:3`), and is costed with a
  token count of 0 in its own field. `search.rs:45-47` promises that a literal match
  is found; `limit` semantic hits before it push it out.

## 11. Proofs

Every theorem holds for all values of the constants that the named assumptions
admit; the assumptions say that different sorts of ids, markers and values are
different and that bounds are numbers, and TLC evaluates them on every run. Each
inductive invariant was checked by TLC on the run's instance before it was proved.

| theorem | what it establishes |
|---|---|
| `WorkingState_proofs`: `TypeCorrect`, `RebuildsSucceed`, `ObservedRealityStands`, `UserClaimsStand`, `ProposalsAreOfFailures`, `AnswersAreDurable` | `[]TypeOK`, `[]RebuildNeverWedges`, `[]LatestExitIsReality`, `[]UserClaimsKept`, `[]FrontierOnlyWhileFailing`, `[]AckIsDurable` |
| `InstallsForgetNothing` | the action property `NothingIsForgotten` |
| `RestShowsTheFold` | at rest the tables are the fold of the whole log in the order of its stamps |
| `WritePathIsABoard` | `Spec => Board!BoardSpec`: the write path implements `ClaimBoard` |
| `Broker_proofs`: `FailuresAreSeen`, `PassesAreSaid`, `BriefingsTellOfCuts` | `[]NothingFailsUnseen`, `[]PassesAreTold`, `[]CutsAreTold` |
| `SearchesAreHonest` | `[]SearchIsHonest` |
| `RemovalsHaveReasons`, `RerunsAddNothing`, `ReportsMatchTheView` | `[]RemovedForAReason`, `[]RerunAddsNothing`, the action property `ReportMatchesView` of `Handoff` |
| `Retention_proofs`: `NothingLost`, `ArchivedAtMostOnce` | `[]NothingIsLost`; only a crash archives a row twice |
| `RebuildsAfterPruning`, `PruningUnseen` | `PruningIsInvisible` holds while no authored row is compacted, and always when no authored payload is over `LONG_PAYLOAD_CHARS` |
| `Tiers_proofs`: `StoredIsKept`, `CompactedIsReadable` | `[]NothingStoredIsDropped`, `[]CompactionIsInvisible` |
| `RecentEventsAreThere`, `WeightsAreEarned`, `RelatedAreStrongest`, `DiskOnlyGrows` | `[]RecentIsComplete`, `[]WeightIsEarned`, `[]RelatedIsStrongest`, the action property `DiskGrows` |
| `Terminal_proofs`: `SuccessorsAreReached`, `EachIsSentOnce`, `EndsFollowStarts`, `NotedIsStored` | `[]LoneDaemonIsReached`, `[]NewCommandsAreSent`, `[]EndsAreOfStarts`, `[]NotedMeansStored` |
| `Sources_proofs`: `ManifestsAreFollowed`, `ChangesReachTheBus`, `DirectoriesAreWatched` | `[]ManifestFollows`, `[]ChangesAreReported`, `[]SettledIsWatched` |
| `NothingFeedsItself` | in any finite tree, `[]CausedByUsers`: the events of the file-system and manifest watchers are bounded by what users did |
| `TheirsKept`, `InstalledHooksWork`, `ProfileStaysTheUsers` | `[]TheirsIsKept`, `[]InstalledHookWorks`, the action property `ProfileIsTheUsers` |

### The write path

None of its invariants is inductive: each is about what a rebuild yields, and a
rebuild folds rows that were validated against other views. `IInv` is the
conjunction of
- `TypeInv`: the types, and the shape of a request in each of its states;
- `RowsInv`: ids and stamps of rows are unique and come from the clock;
- `AllAllowed`: every authored row, stored or pending, names a target it was
  allowed to touch, *whatever the view is by now*: an agent's target was an
  agent's, a user's was not an observation. It holds because rows never leave
  the log and a claim's origin is decided by the row that made it: what was
  allowed stays allowed (`AllowedGrows`). This is what makes a stale read
  harmless;
- `RebuildOrdered`: the rows folded so far are exactly those before the rows left
  to fold;
- `RebuildView` and `TableView`: `ViewFold` holds of the projection in progress
  and of the tables: each claim describes the row that made it, slots are unique,
  each command's last exit among the folded rows is its current reality, and a
  superseded user claim has a user row to show for it.

`ViewFoldStep` shows that folding one allowed row keeps `ViewFold`; a step per
action shows the rest. No induction over the log is needed, because the rebuild
is itself a sequence of steps.

`IInv` says that a view holds nothing its rows do not account for. What clients
were promised needs the converse, `DurableInv`: a view holds everything its rows
account for, and nothing later in the fold undoes it. Its parts are `FullView`
of the projection in progress, `TargetsPrecede` (what a request retires was
asserted before the request was stamped, so the fold meets the two in that
order, whichever was appended first) and `Answers`. `AnswersAreDurable`,
`ProposalsAreOfFailures` and `InstallsForgetNothing` follow from both.

`RestShowsTheFold` and `WritePathIsABoard` add `ShownInv`: what the rebuild has folded
is `FoldOf` of those rows, and at rest so are the tables. `FoldOf` is a recursive
function over sets of rows; `ViewsOf` is shown to have the value its equation
states, by a least counterexample in the cardinality of the set. Then
every action is mapped to `Post`, `Show`, `Close` or a stutter of the board.

### Retention

The invariant adds what `NothingIsLost` and `ArchivedOnce` leave implicit:
`BatchInv`, that rows still to be deleted are archived, so that deleting one
loses nothing; `CountInv`, that a row of the log outside the batch was archived
only by interrupted passes; `LockInv`, that nobody takes or releases the lock
while a batch is outstanding, which is where the worker's own multi-statement
hold (`DeleteOldVector`, `InsertVector`, `MarkEnriched`) has to be told apart from
the pruner's. These proofs never open the fold: what the pruner may select does
not matter to them, only that it selects rows of the log.

`PruningIsInvisible` is about the fold. It is not inductive: a rebuild after a
removal yields what the tables hold only because of what the removed row was. A
row may go when it is old and quiet, opens no active task and is evidence of no
current claim; `PrunableInv` keeps that of the rows a pass has still to delete
(nothing is appended during a pass), `TablesInv` says that the claims in the
tables obey the rules of the fold (`Rule`: the slot of a projector's claim, and
that only the projector says how a command exited), and `LogInv` that the rows
are ones the daemon could have stored. From these, an exit that may go is not
the newest of its command (the newest is current evidence: `NewestStands`), so
a later exit of that command is in the log (`RemovedExit`).

`Twins` then folds the rows that are left twice, with and without the removed
one, oldest first. The two views agree but for the projector's claims about the
removed row's command (`Agree`; `TaskTwin` for the task it opened or touched)
until the later exit is folded, which retires those claims in both and
writes the same ones in both; from there on they agree on all that is in force.
What makes this an induction is that one fold's effect on the *current* claims
is a function of the current claims (`ShellEffect`, `ClaimEffect`, `Kept`), and that
no authored row aims at a projector's reality, which the validators guarantee
(`RowOk`). `FoldInduction` is the induction over sets of rows in their order.

The theorem has the hypothesis `ClaimsReadable`: a compacted authored row can no
longer be read by a rebuild, which is the divergence `RetentionCompaction` shows
(section 10). `PruningUnseen` discharges it where it cannot occur: only
payloads in `Long` are ever compacted (`LongInv`).

### Rules, working set, graph

`VerdictInv` relates the payload, after any number of passes, to the one that the
sensor sent: the keys the projector and the handoff read are `IDENTITY_KEYS`,
which no pass takes, and what was `Admitted` at the door scores no lower later
unless it is a claim or a note, of which nothing is dropped.

`WorkingInv`: an event that fewer than `CAPACITY` others followed, and that was not
taken out, is in the deque and *no further from its end* than it was in the
record (`Reaches`). Distance is what makes it inductive: dropping from the front
then drops the oldest. `FlushInv`: of disk, copy and graph each is `Below` the
next, as long as the tables could be read. `SightInv`: the window of recent
entities is an increasing selection of the places of the record of sightings
(`Recalls`), so that each weight added is a pair of sightings of its own, and
graph, copy and disk have each `Earned` what they weigh.

`RelatedAreStrongest` adds `DrawnInv`: graph, copy and disk have finitely many edges,
each of two entities.
The sorted list of a seed's neighbours has each of them once, heavier ones first, so
what a cut leaves out is no heavier than the `limit` it keeps; merging keeps the
heaviest weight of an entity; and the second cut leaves out none that is heavier
than what it keeps (`StrongestAreFound`).

### Handoff

A handoff reads the log, extends it in memory, and inserts what it added one row at
a time; a crash leaves any number of those rows. `HandoffInv` is therefore about
`Coming`, the log together with what is still to be inserted:
- it is `Lawful`: finitely many rows, ordered by (stamp, id), each of a shape the
  daemon makes; an extracted row cites a note before it (`Quotes`), and says what one
  of its sentences says, or withdraws a claim that was asserted before it and has
  the text the note quotes. What is to be inserted comes after the whole log, in
  order (`Increasing`), so that a crash leaves a lawful log;
- `foreseen` is the fold of `Coming`. This is `ReportsMatchTheView`: extraction folds
  each row as it makes it, and since each comes after all the others, that is what
  folding all of them yields (`FoldedIn`'s step is `Grown`: the fold of a set of rows
  is that of all but the last, and the last);
- the tables tell only of what the log has (`Told`): each claim of a person or an agent
  was asserted by a row, and one that is superseded `HasReason`. A fold step
  supersedes by a retirement, which names the claim and is either a request's or
  quotes it, or by an assertion that takes its slot;
- `AllPassed`: once an extraction is made, each note that no claim row cites is
  `PassedOver`: it has no task, or each draft of it is `Blocked`, because its task was
  not failing, its kind and text are seen, it is not grounded, or it is not valid
  by itself. What blocks a draft stays while nothing is appended: the texts
  seen only grow, and compaction takes from an output what could ground a
  draft and adds nothing (`PassedCut`). Notes that retract or update are the
  exception, because they may find a claim to name that was not there before; hence
  the hypothesis of `RerunAddsNothing`, and section 10.

The recursion over a log is treated by its latest row, a least counterexample in the
number of rows (`Sorted`, `LatestIs`); a loop over drafts by its index.

### Readers

`CutInv` says of each turn of the trimming loop that the packet is a `CutOf` the one
that was rendered, which is what the two halves of `CutsAreTold` have in common: same
constraints and passed checks, views of the same `Core`, and other lines only
when no view can be trimmed. `TrimOneKeeps` is the step; it needs that the last
trimmable view exists, since `TrimOne` chooses it.

`LastingInv` follows what failed all the while from one SELECT to the other: it is
active in the tasks that were read, and failing in the claims that will be. So when
the packet is rendered it is there, as the focal task (`FocalFails`: a task that
fails takes precedence over one that does not) or as a line.

`PassesAreTold` compares the packet with the rows. `ExitsInv` is what a row leaves
in the table: each exit has its claim, current just while it is the newest of its
command, and no other claim tells of an exit. It is proved from the account
`Claims_proofs` gives of one fold (`Step`: which claims it retires, which it adds),
so that an authored claim, which may retire a projector's only by taking its slot,
is one case and not seven.

`SearchInv`: the neighbours still to be looked up are others than those found, and
together they fit the limit; the rows that contained the query all along still do.
`MergeIs` is what the merge of the two lists yields, whichever of them is cut.

### Terminal

`DaemonInv`: of daemons that follow one another at most one is up, and what it
bound is what is there. `PromptInv`: what an open bash remembers is the line it
would see again, and a typed command has been sent as often as it should
(`Faithful`). `ProcInv` keeps books on each birth: the ends told and the one still
to tell are the starts told and the one that was there at the first poll
(`Balanced`); it holds across reused pids because no two entries have one birth
(`BirthInv`). `CallsInv` ties each reply to the row behind it (`Backed`): a receipt
is decided after the commit, and of a short reply no part arrives.

### Watcher

`TreeInv`: what exists is a tree, and the queue holds events of its paths. `BusInv`
counts: the manifest events sent are the manifest changes taken. `OwedInv`: a
change under a watch that has not been sent is in the queue, or is one that the
next scan will find. `ReachInv` says of each directory of the project how the
watcher knows or will know of it: it is watched or listed (`Known`), or
something above it appeared unseen (`Missed`), or an event in the queue
introduces something above it (`Told`), or a scan will find something above it
from which nothing is known down to it (`ToScan`). The hard case is a tree
that is moved into a polled directory: `ScanWillFind` takes the topmost directory
from which nothing is known, a least counterexample along the path.

`CauseInv` keeps the account behind `NothingFeedsItself`: the file events sent, those
that what is queued may still send (one for an event, two for a rename's two paths),
and the paths a poll has still to find are together at most `PerOperation` for each
change a user made; and a manifest event is sent only for a file event that the
manifest watcher has taken. Reading, storing and deriving move events along this
account and never add to it: what the store writes is below paths that are
never interesting, and a manifest event is not a file event. A user's change adds
at most the three events of a rename, which send four, or, of a polled tree, as many
differences as there are paths; hence the hypothesis that `Path` is finite.

### Installers

`IInv` of `Sources_proofs` says of each directory that was not raced that the hooks
other people left are in the hook or its backup; that one installer works on it
at most; and that what it saw is still so (`StillSo`): at `move` there is no
backup to move a hook over, at `write` no hook of others' to write over. A death
leaves all of it true, which is why no repair is needed. `WorksInv` adds that a
backup is other people's, and that a `whole` directory has a hook of ours that
git can execute. `OursHandsOn` says what such a hook does with such a backup, for
every operation and whoever fails; `LooksWhereGitDoes`, that git looks there, needs
that inherited configuration does not decide.

`ProfileInv`: a profile the user has not spoiled is `Tidy`: the user's lines alone,
or those around one block, begin marker before end marker. So the find that
`install` and `uninstall` use finds that block, and no other; what they leave and
put between is not the user's, and sifting the user's lines out of the parts
gives the same (`SiftedConcat`).

### Only model-checked

- Liveness (`RequestsAnswered`, `Recovers`, `EveryRowAnalysed`,
  `EveryRowEnriched`, `CallsEnd`, `SendersEnd`): the prover does not handle
  fairness and `ENABLED`.
- `NoFeedback`: its bound of four is of the instance's trees (section 9).
  `NothingFeedsItself` proves the bound that holds in every finite tree.

Induction over data is done here by least counterexample over a number
(`Sieve_proofs`), since the library's induction theorems take an operator as a
parameter.

## 12. Not modelled, and why

- The model client: HTTP to an optional service. `Retention` and `Search` have its
  answers and failures.
- Configuration and wire types: data, parsing, defaults. The evaluation harness:
  an offline program.
- The JSON-RPC layer of the MCP server, which is a library's; `doctor` and
  `status`, which print.
- Code the daemon does not reach: `relevance.rs`, `budget.rs` and `item.rs` of the
  broker, `Decision::is_durable`, and reading archive segments back
  (`read_segment`, `segments_in_range`, `archived_event_count`), which tests use.
- The words of summaries, briefings and messages, and the thresholds of the
  text rules (word overlap, key words): their outcomes are free choices.
- Database errors in the write path, power loss (SQLite runs with
  `synchronous=NORMAL`, so a commit survives a process crash but may not survive
  the machine), and clients that supply their own timestamps.
- The `intents` table, which is created and never read.
- The listener's end on a failed `accept` (`shell.rs:101-104`), as when the process is
  out of file descriptors: the daemon runs on without one, like one that is `deaf`
  after a failed bind. An empty `core.hooksPath`, and the extension without which git
  does not read `config.worktree`, which is taken to be set where that file sets the
  path.
- The watcher's channel of 100 events, on which notify's thread waits
  (`filesystem.rs:32,105`): the queue of `Watcher` has no bound, so events wait there
  that would wait in the kernel. An inotify queue that overflows is not modelled.
- In `Briefing`, as in `Retention`, a row is stored and its projection installed in one
  step; what readers see between the two (`main.rs:197`) is in `WorkingState`.
