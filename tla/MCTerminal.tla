------------------------------ MODULE MCTerminal ------------------------------
(***************************************************************************)
(* Instances of Shells and Processes for TLC.  Each behaviour is about one *)
(* of: the prompts of three shells with no daemon; two daemons and the     *)
(* senders of one command that two shells run; the process poller; the     *)
(* calls of two clients.  The prompts ask the daemons only whether there   *)
(* is a socket file, and no property is about two of the parts.            *)
(***************************************************************************)
EXTENDS Shells, Processes, Clients, TLC

CONSTANTS bash, zsh, fish, c1, c2, a1, a2

VARIABLE part

MCKind == bash :> "bash" @@ zsh :> "zsh" @@ fish :> "fish"

MCInit ==
  /\ Init /\ ProcInit /\ CallInit
  /\ part \in {"prompts", "socket", "processes", "calls"}
  /\ part # "socket" => tool = "openbsd" /\ timeout
  /\ part # "processes" => proc = [p \in Pid |-> NoProcess]

NextPrompts ==
  \/ \E s \in Shell : OpenShell(s) \/ CloseShell(s) \/ Enter(s)
  \/ \E s \in Shell, cmd \in Command, status \in Status, kept \in BOOLEAN :
       Run(s, cmd, status, kept)

NextSocket ==
  \/ Len(typed) < 2 /\ \E s \in {bash, fish} : OpenShell(s) \/ Run(s, c1, 0, TRUE)
  \/ \E k \in DOMAIN senders : Try(k) \/ TimesOut(k)
  \/ \E d \in Daemon : Start(d) \/ Unlink(d) \/ Bind(d) \/ RestrictPermissions(d) \/ Stop(d)

MCNext ==
  /\ \/ part = "prompts" /\ NextPrompts /\ UNCHANGED <<procVars, callVars>>
     \/ part = "socket" /\ NextSocket /\ UNCHANGED <<procVars, callVars>>
     \/ part = "processes" /\ ProcNext /\ UNCHANGED <<vars, callVars>>
     \/ part = "calls" /\ CallNext /\ UNCHANGED <<vars, procVars>>
  /\ part' = part

MCSpec == MCInit /\ [][MCNext]_<<vars, procVars, callVars, part>> /\ Fairness /\ CallFairness

===============================================================================
