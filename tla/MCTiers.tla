------------------------------- MODULE MCTiers -------------------------------
(***************************************************************************)
(* Instances of Tiers and Verdicts for TLC.  Each behaviour is about one:  *)
(* the tiers with an edit, a failing build, a pass of it and a stray edit, *)
(* minutes apart, where either noise is taken out of the working set or    *)
(* the graph is written to disk, which touch nothing in common; or the     *)
(* life of any one row.                                                    *)
(***************************************************************************)
EXTENDS Tiers, Verdicts

CONSTANTS e1, e2, e3, e4

VARIABLE part

MCSource == e1 :> "editor" @@ e2 :> "shell" @@ e3 :> "shell" @@ e4 :> "filesystem"
MCThing  == e1 :> 1 @@ e2 :> 2 @@ e3 :> 2 @@ e4 :> 3
MCError  == e1 :> NONE @@ e2 :> 1 @@ e3 :> NONE @@ e4 :> NONE
MCStamp  == e1 :> 1 @@ e2 :> 2 @@ e3 :> 4 @@ e4 :> 4

(* What the sensors send: the keys each of them fills, a command or a file *)
(* of any kind, with or without an error line in the output, a value that  *)
(* is long or none.                                                        *)
Keys == {<<"shell", {"command", "cwd", "exit_code"}>>,
         <<"shell", {"command", "cwd", "exit_code", "session", "output"}>>,
         <<"shell", {"command", "cwd"}>>, <<"shell", {}>>,
         <<"proc", {"action", "command", "process_name"}>>, <<"proc", {}>>,
         <<"filesystem", {"path", "action"}>>, <<"filesystem", {"file"}>>,
         <<"git", {"action", "message"}>>, <<"git", {}>>,
         <<"manifest", {"file"}>>, <<"editor", {"file"}>>,
         <<"note", {"text", "session", "role"}>>}
ACommand == [loud |-> "standard", work |-> "coding", procedural |-> FALSE]
AFile    == [project |-> FALSE, work |-> "coding", configuration |-> FALSE]
Actions(source) ==
  CASE source = "proc" -> {"process_start", "process_end"}
    [] source = "git" -> {"commit", "push"}
    [] OTHER -> {"Modify"}
MCObservation ==
  UNION {[source : {k[1]}, keys : {k[2]},
          command : IF "command" \in k[2] THEN Command ELSE {ACommand},
          file : IF k[2] \cap {"path", "file"} # {} THEN File ELSE {AFile},
          action : Actions(k[1]), failed : BOOLEAN,
          errors : {{}, k[2] \cap {"output", "message"}},
          long : {"none"} \cup (k[2] \ {"exit_code", "session", "action"})] : k \in Keys}

MCInit ==
  /\ Init /\ VerdictInit
  /\ part \in {"working", "graph", "verdicts"}
  /\ part # "verdicts" => payload = CHOOSE p \in Observation : TRUE

MCNext ==
  /\ \/ part = "working" /\ Next /\ copied' = NONE /\ UNCHANGED verdictVars
     \/ part = "graph" /\ Next /\ dropping' = NONE /\ UNCHANGED verdictVars
     \/ part = "verdicts" /\ VerdictNext /\ UNCHANGED vars
  /\ part' = part

MCSpec == MCInit /\ [][MCNext]_<<vars, verdictVars, part>>

=============================================================================
