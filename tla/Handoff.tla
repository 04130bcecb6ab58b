------------------------------- MODULE Handoff -------------------------------
(***************************************************************************)
(* Live handoff (crates/broker/src/extract.rs): notes are quoted as claims *)
(* at start-up, after `contextd note`, and on request.  run_handoff reads  *)
(* the log and extends it in memory, then inserts the new claim rows one   *)
(* by one and rebuilds the view; it holds the writer lock throughout, but  *)
(* every insert commits by itself.  Extracted rows are stamped after       *)
(* everything in the log, people's rows by the clock.                      *)
(*                                                                         *)
(* What a note says is data: a sequence of sentences, each with the kind   *)
(* of claim its wording makes it and its text.  A tool's output is the set *)
(* of texts that share MIN_OVERLAP content words with it.                  *)
(***************************************************************************)
EXTENDS Requests, Sieve, FiniteSets

CONSTANTS Note,        \* notes; also the ids of their events
          Saying,      \* what notes say
          Report,      \* what tools report: a command, its exit and output
          Line,        \* command text of a Command, which has a directory too
          AHEAD,       \* the 1000 ms push_event adds, in ticks of the clock
          LastStamp,   \* bound on the clock
          MaxCrashes   \* bound on crashes

Sentence == [kind : ClaimKind \ {"intent"}, text : Text]

(* role is "" for a note line.  A speech act is a note whose wording alone *)
(* says what it is; only role "conclusion" is read sentence by sentence.   *)
(* `quotes` is the text a retract or update note names.                    *)
Content == [session : {"A", "B"}, role : {"", "conclusion", "retract", "update"},
            speech : BOOLEAN, support : Run \cup {NONE},
            quotes : Text \cup Command \cup {NONE}, says : Seq(Sentence)]

(* What observation_event reads out of a tool's result.                    *)
Observation == [command : Command, exit_code : ExitCode \cup {NONE},
                session : {"A", "B"}, output : SUBSET Text,
                reads : BOOLEAN, long : BOOLEAN]

(* The row it makes of it.                                                 *)
ToolRow == [id : Run, ts : Nat, source : {"shell"}, command : Command,
            exit_code : ExitCode \cup {NONE}, session : {"A", "B"},
            output : SUBSET Text, reads : BOOLEAN, long : BOOLEAN]

(* Extracted rows: number 0 is the note's retraction, number i quotes its  *)
(* i-th sentence ("c2_" and the note id, with a suffix).  suffix_for has a *)
(* suffix of its own for each of the first 26 sentences; longer notes are  *)
(* left out.                                                               *)
MAX_SENTENCES == 26
ExtractedId   == Note \X (0..MAX_SENTENCES)

(* observation_event wants a text, and a note without one is passed over,  *)
(* so a note that is not read sentence by sentence has one thing to say.   *)
ASSUME HandoffAssumption ==
  /\ EventId = Run \cup Request \cup Note \cup ExtractedId
  /\ Note \cap (Run \cup Request) = {}
  /\ ExtractedId \cap (Run \cup Request \cup Note) = {}
  /\ Saying \subseteq Content
  /\ \A c \in Saying : /\ Len(c.says) <= MAX_SENTENCES
                       /\ c.role = "" => c.says # <<>>
  /\ Report \subseteq Observation
  /\ DOMAIN Line = Command
  /\ {AHEAD, LastStamp, MaxCrashes} \subseteq Nat /\ AHEAD > 0
  /\ NONE \notin EventId \cup Command \cup ToolRow

VARIABLES
  log,         \* shell, note and claim rows of the events table
  taskTable,   \* tasks table
  claimTable,  \* claims table
  todo,        \* extracted rows run_handoff has still to insert
  foreseen,    \* the claims of the projection it extended in memory
  phase,       \* "idle", "insert" while a handoff holds the writer, "down"
  noted,       \* the note line whose handoff has still to run, or NONE
  settled,     \* a handoff has completed and no row was appended since
  clock,
  crashes

vars == <<log, taskTable, claimTable, todo, foreseen, phase, noted, settled,
          clock, crashes>>

-----------------------------------------------------------------------------
(* The order of the log: (timestamp_ms, id).  A minted id sorts before an  *)
(* extracted one; no two of either kind share a timestamp.                 *)

Extracted(e) == e.id \in ExtractedId
Precedes(e, f) == \/ e.ts < f.ts
                  \/ e.ts = f.ts /\ ~Extracted(e) /\ Extracted(f)
EarliestOf(rows) == CHOOSE e \in rows : \A f \in rows : f = e \/ Precedes(e, f)
LatestOf(rows)   == CHOOSE e \in rows : \A f \in rows : f = e \/ Precedes(f, e)

(* The view that each of some rows come to.                                *)
FoldedIn(rows) ==
  LET view[s \in SUBSET rows] ==
        IF s = {} THEN [tasks |-> Empty, claims |-> Empty]
        ELSE LET e == LatestOf(s) IN Grown(view[s \ {e}], e)
  IN  view

Folded(rows) == FoldedIn(rows)[rows]

FoldRows(rows) == {e \in rows : e.source # "note"}

Rebuild(rows) == LET view == Folded(FoldRows(rows))
                 IN  taskTable' = view.tasks /\ claimTable' = view.claims

-----------------------------------------------------------------------------
(* Which command a note is about.                                          *)

Shells(rows) == {e \in rows : e.source = "shell"}
Alike(rows, e) == {f \in Shells(rows) : f.session = e.session
                                        /\ Line[f.command] = Line[e.command]}

(* failing_command: sessions and the text of the command, not its          *)
(* directory, decide what is still failing; the first such row is taken.   *)
StillFailing(rows, session) ==
  {e \in Shells(rows) : /\ e.session = session
                        /\ LatestOf(Alike(rows, e)).exit_code \notin {NONE, 0}
                        /\ e = EarliestOf(Alike(rows, e))}

NoteTask(rows, note) ==
  LET failing == StillFailing(rows, note.session)
  IN  IF failing = {} THEN NONE ELSE EarliestOf(failing).command

(* failing_subjects: here the directory counts.                            *)
FailingSubjects(rows) ==
  LET of(c) == {e \in Shells(rows) : e.command = c /\ e.exit_code # NONE}
  IN  {c \in Command : of(c) # {} /\ LatestOf(of(c)).exit_code # 0}

RowById(rows, id) == CHOOSE e \in rows : e.id = id
HasRow(rows, id)  == \E e \in rows : e.id = id

(* support_by_id, and support_event, which falls back on the row before.   *)
SupportById(rows, note) ==
  IF note.support # NONE /\ HasRow(rows, note.support)
  THEN RowById(rows, note.support) ELSE NONE
Support(rows, note) ==
  LET earlier == {e \in rows : Precedes(e, note)}
  IN  IF note.support # NONE THEN SupportById(rows, note)
      ELSE IF earlier = {} THEN NONE ELSE LatestOf(earlier)

Output(e) == IF e # NONE /\ e.source = "shell" THEN e.output ELSE {}
ShellId(e) == IF e # NONE /\ e.source = "shell" THEN e.id ELSE NONE
IsSourceRead(e) == e # NONE /\ e.source = "shell" /\ e.reads

-----------------------------------------------------------------------------
(* Drafts: what a note could claim.                                        *)

Draft(note, i, support) ==
  LET kind == note.says[i].kind
  IN  [id |-> <<note.id, i>>, kind |-> kind, text |-> note.says[i].text,
       origin |-> IF kind = "constraint" THEN "user" ELSE "agent",
       confidence |-> IF kind = "constraint" THEN "stated"
                      ELSE IF kind = "unknown" THEN "hypothesis" ELSE "inferred",
       evidence |-> {note.id} \cup ({support} \ {NONE}), support |-> support]

(* classify_natural: a guess or a plan needs no output, the rest does.     *)
Natural(sentence, support) ==
  \/ sentence.kind \in {"unknown", "next_action"}
  \/ sentence.kind \in {"ruled_out", "reality"} /\ sentence.text \in Output(support)

NaturalDrafts(note, support) ==
  LET kept == Sifted([i \in DOMAIN note.says |-> i],
                     {i \in DOMAIN note.says : Natural(note.says[i], support)})
  IN  [k \in DOMAIN kept |->
         Draft(note, kept[k],
               IF note.says[kept[k]].kind \in {"unknown", "next_action"}
               THEN NONE ELSE ShellId(support))]

(* drafts_for_note.  A note after a file read is quoted whole, if it is    *)
(* grounded in what was read.                                              *)
DraftsForNote(note, support) ==
  IF note.speech THEN [i \in DOMAIN note.says |-> Draft(note, i, NONE)]
  ELSE IF note.role = "conclusion" THEN NaturalDrafts(note, support)
  ELSE IF IsSourceRead(support) /\ note.says[1].text \in Output(support)
  THEN <<Draft([note EXCEPT !.says[1].kind = "reality"], 1, ShellId(support))>>
  ELSE <<>>

-----------------------------------------------------------------------------
(* The gate.  `st` is a run of apply_extraction: the log so far, the rows  *)
(* to insert, the kinds and texts already claimed, the claims in view.     *)

DraftBody(d, task) ==
  [op |-> "assert", claim_id |-> <<"authored", d.id>>, task_id |-> task,
   kind |-> d.kind,
   subject |-> IF d.kind = "next_action" THEN FRONTIER_SUBJECT ELSE <<"authored", d.id>>,
   text |-> d.text, confidence |-> d.confidence, origin |-> d.origin,
   evidence |-> d.evidence, supersedes |-> NONE]

Admits(st, seen, d, task) ==
  /\ \A id \in d.evidence : HasRow(st.rows, id)
  /\ task \in FailingSubjects(st.rows)
  /\ <<d.kind, d.text>> \notin seen
  /\ d.kind = "reality" => /\ d.support # NONE
                           /\ d.text \in RowById(st.rows, d.support).output
  /\ Validate(DraftBody(d, task))
  /\ ValidateAgainstProjection(DraftBody(d, task), st.claims)

(* push_event.                                                             *)
StampAhead(rows) == LatestOf(rows).ts + AHEAD

(* Mutant: the rows that follow are checked against the stored view only.  *)
PushUnfolded(st, id, body) ==
  LET row == [id |-> id, ts |-> StampAhead(st.rows), source |-> "claim", body |-> body]
  IN  [st EXCEPT !.rows = @ \cup {row}, !.todo = Append(@, row)]

Push(st, id, body) ==
  LET row == [id |-> id, ts |-> StampAhead(st.rows), source |-> "claim", body |-> body]
  IN  [st EXCEPT !.rows = @ \cup {row}, !.todo = Append(@, row),
                 !.claims = FoldClaims(@, row)]

(* accept_or_record.                                                       *)
Accept(st, d, task) ==
  IF Admits(st, st.seen, d, task)
  THEN [Push(st, d.id, DraftBody(d, task)) EXCEPT !.seen = @ \cup {<<d.kind, d.text>>}]
  ELSE st

Accepting(st, drafts, task) ==
  LET after[k \in 0..Len(drafts)] ==
        IF k = 0 THEN st ELSE Accept(after[k - 1], drafts[k], task)
  IN  after

AcceptAll(st, drafts, task) == Accepting(st, drafts, task)[Len(drafts)]

(* Texts of claims.  A projector's claim is quoted by its command.         *)
TextOf(claim) == IF claim.origin = "projector" THEN claim.subject ELSE claim.text

CurrentQuoted(claims, text) ==
  {i \in DOMAIN claims : claims[i].status = "current" /\ TextOf(claims[i]) = text}

(* The projection lists claims in the order they were made: a retract note *)
(* takes the last of those it quotes, an update note the first.            *)
NewestOf(claims, ids) ==
  CHOOSE i \in ids : \A j \in ids : claims[j].updated_at <= claims[i].updated_at
OldestOf(claims, ids) ==
  CHOOSE i \in ids : \A j \in ids : claims[i].updated_at <= claims[j].updated_at

Retractable(claim) == claim.origin # "projector" /\ claim.confidence # "observed"

RetractBody(note, target, claims) ==
  [Retirement("supersede", <<"authored", <<note.id, 0>>>>, claims[target].task_id, target)
     EXCEPT !.origin = claims[target].origin, !.evidence = {note.id}]

(* Mutant: a retraction takes whatever was said last.                      *)
RetractNewest(st, note) ==
  LET ids == {i \in DOMAIN st.claims : /\ st.claims[i].status = "current"
                                       /\ Retractable(st.claims[i])}
      target == NewestOf(st.claims, ids)
  IN  IF ids = {} THEN st
      ELSE Push(st, <<note.id, 0>>, RetractBody(note, target, st.claims))

RetractNote(st, note) ==
  LET ids    == CurrentQuoted(st.claims, note.quotes)
      target == NewestOf(st.claims, ids)
      body   == RetractBody(note, target, st.claims)
  IN  IF /\ ids # {} /\ Retractable(st.claims[target])
         /\ Validate(body) /\ ValidateAgainstProjection(body, st.claims)
      THEN Push(st, <<note.id, 0>>, body)
      ELSE st

(* Every draft has to pass the gate before anything is retracted.          *)
UpdateNote(st, note) ==
  LET ids    == CurrentQuoted(st.claims, note.quotes)
      target == OldestOf(st.claims, ids)
      task   == NoteTask(st.rows, note)
      drafts == NaturalDrafts(note, SupportById(st.rows, note))
      seen(k) == st.seen \cup {<<drafts[j].kind, drafts[j].text>> : j \in 1..(k - 1)}
      body   == RetractBody(note, target, st.claims)
  IN  IF /\ ids # {} /\ Retractable(st.claims[target])
         /\ task # NONE
         /\ drafts # <<>>
         /\ \A k \in DOMAIN drafts : Admits(st, seen(k), drafts[k], task)
         /\ Validate(body) /\ ValidateAgainstProjection(body, st.claims)
      THEN AcceptAll(Push(st, <<note.id, 0>>, body), drafts, task)
      ELSE st

QuoteNote(st, note) ==
  LET task == NoteTask(st.rows, note)
  IN  IF task = NONE THEN st
      ELSE AcceptAll(st, DraftsForNote(note, Support(st.rows, note)), task)

ExtractNote(st, note) ==
  IF note.role = "retract" THEN RetractNote(st, note)
  ELSE IF note.role = "update" THEN UpdateNote(st, note)
  ELSE QuoteNote(st, note)

ClaimRows(rows)  == {e \in rows : e.source = "claim"}

CitedNotes(rows) == UNION {e.body.evidence : e \in ClaimRows(rows)}
(* Mutant: quotes of earlier runs are forgotten.                           *)
UnseededSeen(rows) == {}

SeedSeen(rows) == {<<e.body.kind, e.body.text>> : e \in
                       {e \in ClaimRows(rows) : e.body.op = "assert"}}

(* apply_extraction, over the notes no claim row cites, in log order.      *)
Uncited(rows) == {e \in rows : e.source = "note" /\ e.id \notin CitedNotes(rows)}

Started(rows) == [rows |-> rows, todo |-> <<>>, seen |-> SeedSeen(rows),
                  claims |-> Folded(FoldRows(rows)).claims]

Extracting(st, notes) ==
  LET upto[s \in SUBSET notes] ==
        IF s = {} THEN st
        ELSE LET n == LatestOf(s) IN ExtractNote(upto[s \ {n}], n)
  IN  upto

Extraction(rows) == Extracting(Started(rows), Uncited(rows))[Uncited(rows)]

-----------------------------------------------------------------------------
(* Appends.  A row is stamped when it is built; two rows may be a tick     *)
(* apart or further than an extracted row is ahead.                        *)

Init ==
  /\ log = {} /\ taskTable = Empty /\ claimTable = Empty
  /\ todo = <<>> /\ foreseen = Empty /\ phase = "idle" /\ noted = NONE
  /\ settled = FALSE /\ clock = 0 /\ crashes = 0

NextStamp == {t \in {clock + 1, clock + AHEAD + 2} : t <= LastStamp}

Store(row) ==
  /\ phase = "idle"
  /\ ~HasRow(log, row.id)
  /\ log' = log \cup {row}
  /\ clock' = row.ts
  /\ settled' = FALSE
  /\ IF row.source = "note" THEN UNCHANGED <<taskTable, claimTable>> ELSE Rebuild(log')
  /\ UNCHANGED <<todo, foreseen, phase, crashes>>

(* observation_event and store_ingested: a tool's result.                  *)
ObserveTool(x, ts, report) ==
  /\ Store([id |-> x, ts |-> ts, source |-> "shell", command |-> report.command,
            exit_code |-> report.exit_code, session |-> report.session,
            output |-> report.output, reads |-> report.reads, long |-> report.long])
  /\ UNCHANGED noted

NoteRow(n, ts, c) ==
  [id |-> n, ts |-> ts, source |-> "note", session |-> c.session, role |-> c.role,
   speech |-> c.speech, support |-> c.support, quotes |-> c.quotes, says |-> c.says]

(* The enrichment worker has met the row: a payload that is long loses the *)
(* output, which is not among IDENTITY_KEYS.                               *)
CompactOutput(e) ==
  /\ phase = "idle"
  /\ e.source = "shell" /\ e.long /\ e.output # {}
  /\ log' = (log \ {e}) \cup {[e EXCEPT !.output = {}]}
  /\ UNCHANGED <<taskTable, claimTable, todo, foreseen, phase, noted, settled, clock, crashes>>

(* A conclusion, a retraction or an update an agent reports.  It is stored; *)
(* no handoff follows.                                                     *)
ObserveNote(n, ts, c) ==
  /\ c.role # ""
  /\ Store(NoteRow(n, ts, c))
  /\ UNCHANGED noted

(* `contextd note`: the main loop stores it, lets the lock go, takes it    *)
(* again for the handoff, and only then answers.                           *)
NoteLine(n, ts, c) ==
  /\ c.role = "" /\ noted = NONE
  /\ Store(NoteRow(n, ts, c))
  /\ noted' = n

(* A request that is validated against the view it is appended to.         *)
AuthorClaim(r, ts, i) ==
  LET b == Body(r, i, FocalTask(taskTable, claimTable), claimTable)
  IN  /\ b # NONE
      /\ Validate(b) /\ ValidateAgainstProjection(b, claimTable)
      /\ Store([id |-> r, ts |-> ts, source |-> "claim", body |-> b])
      /\ UNCHANGED noted

-----------------------------------------------------------------------------
(* run_handoff.                                                            *)

Begin(rows) ==
  LET st == Extraction(rows)
  IN  /\ todo' = st.todo
      /\ foreseen' = st.claims
      /\ phase' = "insert"

(* On request, before a briefing, or for the note that waits.              *)
StartHandoff ==
  /\ phase = "idle"
  /\ noted # NONE \/ ~settled
  /\ Begin(log)
  /\ UNCHANGED <<log, taskTable, claimTable, noted, settled, clock, crashes>>

InsertExtracted ==
  /\ phase = "insert" /\ todo # <<>>
  /\ log' = log \cup {Head(todo)}
  /\ todo' = Tail(todo)
  /\ UNCHANGED <<taskTable, claimTable, foreseen, phase, noted, settled, clock, crashes>>

(* The rebuild is skipped when nothing was added, and changes nothing then. *)
FinishHandoff ==
  /\ phase = "insert" /\ todo = <<>>
  /\ Rebuild(log)
  /\ phase' = "idle" /\ settled' = TRUE /\ noted' = NONE
  /\ UNCHANGED <<log, todo, foreseen, clock, crashes>>

Crash ==
  /\ phase # "down" /\ crashes < MaxCrashes
  /\ phase' = "down" /\ todo' = <<>> /\ noted' = NONE
  /\ foreseen' = Empty /\ settled' = FALSE
  /\ crashes' = crashes + 1
  /\ UNCHANGED <<log, taskTable, claimTable, clock>>

(* run_daemon rebuilds, then runs a handoff before it listens.             *)
Restart ==
  /\ phase = "down"
  /\ Rebuild(log)
  /\ Begin(log)
  /\ UNCHANGED <<log, noted, settled, clock, crashes>>

Next ==
  \/ \E ts \in NextStamp :
       \/ \E x \in Run, report \in Report : ObserveTool(x, ts, report)
       \/ \E n \in Note, c \in Saying : ObserveNote(n, ts, c) \/ NoteLine(n, ts, c)
       \/ \E r \in Request, i \in Input : AuthorClaim(r, ts, i)
  \/ \E e \in log : CompactOutput(e)
  \/ StartHandoff \/ InsertExtracted \/ FinishHandoff \/ Crash \/ Restart

Spec == Init /\ [][Next]_vars

-----------------------------------------------------------------------------
(* Properties.                                                             *)

(* What a handoff reports, computed on a projection it extends in memory   *)
(* row by row, is what clients read when the stored rows have been folded. *)
ReportMatchesView == [][FinishHandoff => claimTable' = foreseen]_vars

(* A claim a person or an agent made ceases to be current only for a       *)
(* reason: a request names it, a note quotes its text, or a newer claim    *)
(* takes its slot.                                                         *)
Reasons(rows, i, claim) ==
  {e \in ClaimRows(rows) :
     \/ e.body.supersedes = i
        /\ (Extracted(e) => RowById(rows, e.id[1]).quotes = TextOf(claim))
     \/ /\ e.body.op = "assert" /\ e.body.kind = claim.kind
        /\ claim.kind \in UniqueSlot
        /\ e.body.claim_id # i /\ e.body.subject = claim.subject}

RemovedForAReason ==
  \A i \in DOMAIN claimTable :
    claimTable[i].origin # "projector" /\ claimTable[i].status = "superseded"
      => Reasons(log, i, claimTable[i]) # {}

(* Running a handoff again adds nothing, in a log without notes that       *)
(* retract: notes a first run passed over stay passed over.                *)
Retracts(rows) == \E e \in rows : e.source = "note" /\ e.role \in {"retract", "update"}
RerunAddsNothing ==
  settled /\ ~Retracts(log) => Extraction(log).todo = <<>>

(* Doc claims the code does not keep.                                      *)

(* docs/connecting-agents.md: `contextd claim retract` withdraws a claim.  *)
RetractedIsGone ==
  \A e \in ClaimRows(log) :
    phase = "idle" /\ ~Extracted(e) /\ e.body.op = "supersede"
      => e.body.supersedes \in DOMAIN claimTable
         /\ claimTable[e.body.supersedes].status # "current"

=============================================================================
