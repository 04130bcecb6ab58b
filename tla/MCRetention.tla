---------------------------- MODULE MCRetention ----------------------------
(***************************************************************************)
(* Instances of Retention for TLC.                                         *)
(***************************************************************************)
EXTENDS Retention, TLC

CONSTANTS x1, x2, x3, r1, r2, c1, c2

MCEventId == Run \cup Request

User(kind)  == [who |-> "user", kind |-> kind, confidence |-> "stated"]
Agent(kind) == [who |-> "agent", kind |-> kind, confidence |-> "inferred"]

AskUser   == {User("intent"), User("done"), User("retract")}
AskContest == AskUser \cup {Agent("decision")}
AskIntent == {User("intent")}
Symmetric == Permutations(Run) \cup Permutations(Command)

(* What is waiting to be enriched is enriched before anything else happens, *)
(* and a sweep looks for rows that were never analysed: the worker changes *)
(* nothing of a row that the fold reads, and a row ages once it is analysed. *)
Busy == worker # NONE \/ queue # <<>> \/ backlog # <<>>
AtOnce ==
  \/ Busy /\ (Take \/ EnrichLocking \/ SkipEmbedding \/ OfferBacklog)
  \/ ~Busy /\ Next /\ (Busy' => writer = NONE /\ Unenriched(FALSE)' # {})
AtOnceSpec == Init /\ [][AtOnce]_vars

NamedFrontier == {<<"frontier", x>> : x \in Run}

=============================================================================
