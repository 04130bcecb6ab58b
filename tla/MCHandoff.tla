------------------------------ MODULE MCHandoff ------------------------------
(***************************************************************************)
(* Instances of Handoff for TLC.                                           *)
(***************************************************************************)
EXTENDS Handoff, TLC

CONSTANTS x1, x2, n1, n2, r1, here, there, t1, t2

(* One command line, run in two directories, is two commands.              *)
MCCommand == {<<here, "make">>, <<there, "make">>}
MCLine == [c \in MCCommand |-> c[2]]
MCEventId == Run \cup Request \cup Note \cup ExtractedId

Ran(dir, code, output, reads) ==
  [command |-> <<dir, "make">>, exit_code |-> code, session |-> "A",
   output |-> output, reads |-> reads, long |-> reads]
Fails(dir)  == Ran(dir, 1, {t1}, FALSE)
Passes(dir) == Ran(dir, 0, {}, FALSE)
Reads(dir)  == Ran(dir, 1, {t1}, TRUE)

Says(kind, text) == [kind |-> kind, text |-> text]
NoteSaying(role, speech, quotes, says) ==
  [session |-> "A", role |-> role, speech |-> speech, support |-> NONE,
   quotes |-> quotes, says |-> says]

Decides     == NoteSaying("", TRUE, NONE, <<Says("decision", t1)>>)
Concludes   == NoteSaying("conclusion", FALSE, NONE,
                          <<Says("unknown", t1), Says("next_action", t2),
                            Says("reality", t1)>>)
Observes    == NoteSaying("", FALSE, NONE, <<Says("unknown", t1)>>)
Withdraws   == NoteSaying("retract", FALSE, t1, <<>>)
Corrects    == NoteSaying("update", FALSE, t1, <<Says("unknown", t2)>>)

User(kind) == [who |-> "user", kind |-> kind, confidence |-> "stated"]
Asks   == {User("decision"), User("retract")}
Names  == {<<"authored", <<n, 1>>>> : n \in Note} \cup {<<"authored", r>> : r \in Request}

SayingAll    == {Decides, Concludes, Observes, Withdraws, Corrects}
ReportSafety == {Fails(here), Passes(here), Reads(there)}
SayingLate   == {Decides}
Symmetric    == Permutations(Run) \cup Permutations(Note)

ReportFails  == {Fails(here)}

VARIABLE part

(* Each behaviour either reads a file, whose output may be compacted, or   *)
(* crashes.                                                                *)
MCInit == Init /\ part \in {"read", "crash"}
MCNext ==
  /\ Next
  /\ part = "read" => phase' # "down"
  /\ part = "crash" => \A e \in log' : e.source = "shell" => ~e.reads
  /\ part' = part
MCSpec == MCInit /\ [][MCNext]_<<vars, part>>

=============================================================================
