--------------------------- MODULE MCWorkingState ---------------------------
(***************************************************************************)
(* Instances of WorkingState for TLC.                                      *)
(***************************************************************************)
EXTENDS WorkingState, TLC

CONSTANTS x1, x2, r1, r2, c1, c2

MCEventId == Run \cup Request

User(kind)  == [who |-> "user", kind |-> kind, confidence |-> "stated"]
Agent(kind) == [who |-> "agent", kind |-> kind, confidence |-> "inferred"]

(* A user against an agent over one task.                                  *)
AskContest == {User("intent"), User("decision"), User("retract"), User("done"),
               Agent("decision"), Agent("next_action")}
NamedContest == {<<"authored", r>> : r \in Request}
                  \cup {<<k, x>> : k \in {"reality", "frontier"}, x \in Run}

AskLive   == {User("intent"), Agent("decision")}

Symmetric == Permutations(Run) \cup Permutations(Request)

=============================================================================
