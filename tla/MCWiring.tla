------------------------------ MODULE MCWiring ------------------------------
(***************************************************************************)
(* Instances of Wiring for TLC: a repository, and a worktree of it whose   *)
(* own configuration has a relative hooks path.  The git hooks and the     *)
(* files in the home directory share no state, nor do the directories that *)
(* hooks are kept in, and no property is about two of them: each behaviour *)
(* works on one.                                                           *)
(***************************************************************************)
EXTENDS Wiring, TLC

CONSTANTS main, linked

VARIABLE part

MCCommon    == main :> "one" @@ linked :> "one"
MCHooksPath == "one" :> NONE
MCOverride  == main :> NONE @@ linked :> [absolute |-> FALSE, path |-> "p"]

(* The user's configuration sets the key for the worktree alone, where the *)
(* worktree's own overrides it.                                            *)
MCInherited == main :> NONE @@ linked :> [absolute |-> TRUE, path |-> "p"]

PartInit == /\ WireInit /\ part \in Tree \cup {"home"}
            /\ \A d \in Dir : part = "home" \/ d # HooksDir(part) => hook[d] = NONE
PartNext ==
  /\ \/ /\ part = "home" /\ NextHome
     \/ /\ part # "home" /\ NextGit
        /\ \A d \in Dir \ {HooksDir(part), GitLooksIn(part)} :
             UNCHANGED hook[d] /\ \A p \in Installer : pc'[p].dir # d
  /\ part' = part

PartSpec == PartInit /\ [][PartNext]_<<wireVars, part>>

Symmetric == Permutations(Installer) \cup Permutations(Version) \cup Permutations(Foreign)

=============================================================================
