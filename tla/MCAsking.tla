------------------------------ MODULE MCAsking ------------------------------
(***************************************************************************)
(* Instances of Briefing and Search for TLC.  Both read the store while    *)
(* others write it, and share nothing else: each behaviour is about one of *)
(* the two.                                                                *)
(***************************************************************************)
EXTENDS Briefing, Search, TLC

CONSTANTS x1, x2, x3, r1, r2, r3, c1, c2, e1, e2, e3

VARIABLE part

MCEventId == Run \cup Request

User(kind)  == [who |-> "user", kind |-> kind, confidence |-> "stated"]
Agent(kind) == [who |-> "agent", kind |-> kind, confidence |-> "inferred"]
MCAsk == {User("intent"), User("decision"), User("done"), User("constraint"),
          Agent("unknown")}

MCDistance == e1 :> 1 @@ e2 :> 2 @@ e3 :> 3
MCStamp    == e1 :> 1 @@ e2 :> 2 @@ e3 :> 3

Symmetric == Permutations(Run) \cup Permutations(Request)

MCInit ==
  /\ BriefInit /\ SearchInit /\ part \in {"briefing", "search"}
  /\ part = "briefing" => stored = {}

MCNext ==
  /\ \/ part = "briefing" /\ BriefNext /\ UNCHANGED searchVars
     \/ part = "search" /\ SearchNext /\ UNCHANGED briefVars
  /\ part' = part

MCSpec == MCInit /\ [][MCNext]_<<briefVars, searchVars, part>>

=============================================================================
