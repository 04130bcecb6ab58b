------------------------------- MODULE Verdicts -------------------------------
(***************************************************************************)
(* What contextd makes of one observation, by rules alone (crates/pipeline): *)
(* a score when it arrives (heuristics.rs), a verdict that keeps noise out *)
(* of the log (decision.rs), and later, in the enrichment worker, a use    *)
(* case and a memory type (classify.rs), a summary (content.rs), and the   *)
(* same verdict again, on a payload that earlier passes may have compacted. *)
(* The pruner decides on what those left behind.                           *)
(*                                                                         *)
(* Texts are what the rules find in them: which kind of command, whether a *)
(* line reads like an error, which value makes the payload a long one.     *)
(***************************************************************************)
EXTENDS Naturals, FiniteSets

CONSTANT Observation   \* payloads as they arrive

Work    == {"coding", "research", "general_productivity"}
Command == [loud : {"build", "navigation", "standard"}, work : Work, procedural : BOOLEAN]
File    == [project : BOOLEAN, work : Work, configuration : BOOLEAN]
Key     == {"command", "path", "file", "action", "cwd", "exit_code", "session",
            "process_name", "output", "stderr", "error", "message", "text", "role"}

(* `errors` are the keys whose text has an error line, `long` the value    *)
(* that takes the payload over LONG_PAYLOAD_CHARS, or "none".              *)
Payload == [source : {"shell", "proc", "filesystem", "git", "manifest", "editor",
                      "note", "claim"},
            keys : SUBSET Key, command : Command, file : File, action : STRING,
            failed : BOOLEAN, errors : SUBSET Key, long : Key \cup {"none"}]

ASSUME VerdictsAssumption ==
  \A p \in Observation : /\ p \in Payload
                         /\ p.errors \subseteq p.keys /\ p.long \in p.keys \cup {"none"}

VARIABLES
  place,      \* "observed", "refused", "stored", "dropped", "archived"
  payload,    \* as the log has it
  weight,     \* its score, in hundredths
  analysis,   \* the columns the worker writes, use_case "" when it has not
  finished,   \* enriched_at_ms is set
  original    \* history: the payload as it arrived

verdictVars == <<place, payload, weight, analysis, finished, original>>

Has(p, key) == key \in p.keys

-----------------------------------------------------------------------------
(* process_event.                                                          *)

CommandScore(p) ==
  CASE p.command.loud = "build"      -> 90
    [] p.command.loud = "navigation" -> 10
    [] p.command.loud = "standard"   -> 60

ProcScore(p) ==
  IF p.action # "process_start" THEN 20
  ELSE IF Has(p, "command") /\ p.command.loud = "build" THEN 90 ELSE 70

Score(p) ==
  CASE p.source = "shell"      -> IF Has(p, "command") THEN CommandScore(p) ELSE 50
    [] p.source = "filesystem" -> IF Has(p, "path") /\ p.file.project THEN 80 ELSE 30
    [] p.source = "proc"       -> IF Has(p, "action") THEN ProcScore(p) ELSE 40
    [] p.source = "git"        -> IF Has(p, "action") /\ p.action \in {"commit", "checkout"}
                                  THEN 80 ELSE 50
    [] p.source = "manifest"   -> 95
    [] p.source = "editor"     -> 50
    [] OTHER                   -> 100

-----------------------------------------------------------------------------
(* analyze.                                                                *)

HasPath(p) == Has(p, "path") \/ Has(p, "file")

UseCase(p) ==
  CASE p.source \in {"git", "manifest", "editor"} -> "coding"
    [] p.source = "filesystem" -> IF HasPath(p) THEN p.file.work ELSE "general_productivity"
    [] p.source \in {"shell", "proc"} -> IF Has(p, "command") THEN p.command.work
                                         ELSE "general_productivity"
    [] OTHER -> "general_productivity"

MemoryType(p) ==
  CASE p.source = "manifest" -> "semantic"
    [] p.source = "git" /\ Has(p, "action") /\ p.action = "commit" -> "semantic"
    [] p.source \in {"shell", "proc"} /\ Has(p, "command") /\ p.command.procedural -> "procedural"
    [] p.source = "filesystem" /\ HasPath(p) /\ p.file.configuration -> "semantic"
    [] OTHER -> "episodic"

Survives(type) == type \in {"procedural", "semantic"}

(* summarize: which events have a text form.                               *)
HasSummary(p) ==
  CASE p.source = "shell"      -> Has(p, "command")
    [] p.source = "proc"       -> Has(p, "action") /\ (Has(p, "command") \/ Has(p, "process_name"))
    [] p.source = "filesystem" -> Has(p, "path")
    [] p.source = "git"        -> Has(p, "action")
    [] p.source = "manifest"   -> TRUE
    [] OTHER                   -> FALSE

(* An exit code settles it; else any text that has an error line.          *)
LooksLikeFailure(p) ==
  IF Has(p, "exit_code") THEN p.failed
  ELSE p.errors \cap {"stderr", "output", "message", "error"} # {}

Analyze(p) == [use_case |-> UseCase(p), memory_type |-> MemoryType(p), summary |-> HasSummary(p)]

-----------------------------------------------------------------------------
(* decide.                                                                 *)

NOISE_SCORE      == 25
HIGH_VALUE_SCORE == 80

Promoted(p, score, a) ==
  \/ Survives(a.memory_type) /\ score >= NOISE_SCORE
  \/ score >= HIGH_VALUE_SCORE
  \/ LooksLikeFailure(p)

Decide(p, score, a) ==
  IF Promoted(p, score, a) THEN "promote"
  ELSE IF score < NOISE_SCORE THEN IF a.use_case = "research" THEN "keep" ELSE "drop"
  ELSE IF p.long # "none" THEN "summarize" ELSE "keep"

(* Mutant: what has an exit code is let through.                           *)
ShouldDropSilent(p, score) ==
  /\ p.source \notin {"claim", "note"} /\ ~Has(p, "exit_code")
  /\ score < NOISE_SCORE
  /\ Decide(p, score, Analyze(p)) = "drop"

ShouldDrop(p, score) ==
  /\ p.source \notin {"claim", "note"}
  /\ score < NOISE_SCORE
  /\ Decide(p, score, Analyze(p)) = "drop"

IDENTITY_KEYS == {"command", "path", "action", "cwd", "exit_code", "repo", "file", "hash",
                  "from", "to", "remote", "session", "text"}

(* Mutant: compaction keeps the command and its outcome only.              *)
KeptPlaceless(p) == p.keys \cap (IDENTITY_KEYS \ {"cwd", "session"})

KeptKeys(p) == p.keys \cap IDENTITY_KEYS

(* compact_payload.  A summary takes the place of the text; it is short.   *)
Compact(p, summary) ==
  LET keys == KeptKeys(p) \cup (IF summary THEN {"text"} ELSE {})
  IN  [p EXCEPT !.keys = keys, !.errors = @ \cap keys,
                !.long = IF @ \in keys /\ ~(summary /\ @ = "text") THEN @ ELSE "none"]

-----------------------------------------------------------------------------
(* The life of a row.                                                      *)

VerdictInit ==
  /\ payload \in Observation /\ original = payload
  /\ place = "observed" /\ weight = 0 /\ finished = FALSE
  /\ analysis = [use_case |-> "", memory_type |-> "", summary |-> FALSE]

(* store_ingested.                                                         *)
IngestOne ==
  /\ place = "observed"
  /\ weight' = Score(payload)
  /\ place' = IF ShouldDrop(payload, weight') THEN "refused" ELSE "stored"
  /\ UNCHANGED <<payload, analysis, finished, original>>

Classified == analysis.use_case # ""

(* enrich_one on a row that is not classified.  Any write may fail, and    *)
(* the embedding is tried all the same.                                    *)
FirstPass ==
  LET a == Analyze(payload)
      verdict == Decide(payload, weight, a)
  IN  /\ place = "stored" /\ ~Classified
      /\ IF verdict = "drop"
         THEN place' \in {"dropped", "stored"} /\ UNCHANGED <<payload, analysis, finished>>
         ELSE /\ \/ /\ analysis' = a
                    /\ payload' = IF verdict = "summarize" THEN Compact(payload, a.summary)
                                  ELSE payload
                 \/ UNCHANGED <<analysis, payload>>
              /\ finished' \in {finished, TRUE}
              /\ UNCHANGED place
      /\ UNCHANGED <<weight, original>>

(* enrich_one on a row that is: a sweep found it without an embedding, or  *)
(* it was queued twice.                                                    *)
LaterPass ==
  /\ place = "stored" /\ Classified
  /\ payload' \in {payload} \cup (IF payload.long # "none"
                                  THEN {Compact(payload, analysis.summary)} ELSE {})
  /\ finished' \in {finished, TRUE}
  /\ UNCHANGED <<place, weight, analysis, original>>

(* archive_pass, of a row that is old and that no claim or task needs.     *)
ArchiveOne ==
  /\ place = "stored"
  /\ weight < 50 /\ payload.source # "claim"
  /\ ~Survives(analysis.memory_type)
  /\ place' = "archived"
  /\ UNCHANGED <<payload, weight, analysis, finished, original>>

VerdictNext == IngestOne \/ FirstPass \/ LaterPass \/ ArchiveOne

VerdictSpec == VerdictInit /\ [][VerdictNext]_verdictVars

-----------------------------------------------------------------------------
(* Properties.                                                             *)

(* The verdict is taken before storage because Tiers 0 and 2 cannot        *)
(* retract a drop: what was let in is never dropped later, by any pass     *)
(* over whatever an earlier one left of the payload.                       *)
NothingStoredIsDropped == place # "dropped"

(* Compaction is invisible to those who read the log: of a command, the    *)
(* projector and the handoff still know what it was, where and in which    *)
(* session it ran and how it ended, and of a note what it says, however    *)
(* often the worker met the row.                                           *)
KeysRead(source) ==
  CASE source = "shell" -> {"command", "cwd", "exit_code", "session"}
    [] source = "note"  -> {"text", "session"}
    [] OTHER            -> {}
CompactionIsInvisible == original.keys \cap KeysRead(original.source) \subseteq payload.keys

===============================================================================
