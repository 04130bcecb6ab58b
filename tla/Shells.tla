-------------------------------- MODULE Shells --------------------------------
(***************************************************************************)
(* How typed commands reach the daemon: the prompt hooks that `contextd    *)
(* install` writes for bash, zsh and fish (crates/sources/src/install.rs), *)
(* the background senders they start (emit.rs), and the daemons that come, *)
(* crash and bind the socket (shell.rs).  The shells, their history file   *)
(* and the netcats are external.                                           *)
(***************************************************************************)
EXTENDS Naturals, Sequences, FiniteSets, SequencesExt

CONSTANTS Shell, Kind,   \* Kind: Shell -> "bash", "zsh" or "fish"
          Command, Status,
          Daemon,
          MaxTyped, MaxOpens, MaxStarts,   \* bounds
          NONE

ASSUME ShellsAssumption ==
  /\ Kind \in [Shell -> {"bash", "zsh", "fish"}]
  /\ 0 \in Status /\ NONE \notin Command /\ NONE \notin Daemon
  /\ {MaxTyped, MaxOpens, MaxStarts} \subseteq Nat

VARIABLES
  open,       \* Shell -> BOOLEAN
  line,       \* Shell -> what `history 1` prints
  last,       \* Shell -> __contextd_last
  saved,      \* the last line of the history file
  opens,
  typed,      \* history: what ran, [shell, cmd, status, fresh]
  sent,       \* history: calls of __contextd_emit, [of, cmd, status]
  senders,    \* background senders, sent index -> its next attempt or "waits"
  tool, timeout,   \* the netcat, and whether `timeout` is there
  socket,     \* whose socket file there is, a dead daemon's perhaps
  stage,      \* Daemon -> "off", "unlink", "bind", "restrict", "up", "deaf"
  starts,
  overlapped, \* history: two daemons were up together
  peer        \* sent index -> the daemon the sender connected to, or NONE

prompts == <<open, line, last, saved, opens, typed>>
machine == <<tool, timeout>>
daemons == <<socket, stage, starts, overlapped>>
vars == <<prompts, sent, senders, machine, daemons, peer>>

Init ==
  /\ open = [s \in Shell |-> FALSE] /\ line = [s \in Shell |-> NONE]
  /\ last = [s \in Shell |-> NONE] /\ saved = NONE /\ opens = 0
  /\ typed = <<>> /\ sent = <<>> /\ senders = <<>>
  /\ tool \in {"openbsd", "gnu", "plain", "socat", "none"} /\ timeout \in BOOLEAN
  /\ socket = NONE /\ stage = [d \in Daemon |-> "off"] /\ starts = 0 /\ overlapped = FALSE
  /\ peer = <<>>

-----------------------------------------------------------------------------
(* Prompts.                                                                *)

(* __contextd_emit tests for the socket file, and returns at once.         *)
Emit(s, of, cmd, status) ==
  /\ sent' = Append(sent, [of |-> of, shell |-> s, cmd |-> cmd, status |-> status])
  /\ senders' = Append(senders, IF socket = NONE THEN "ended" ELSE "first")
  /\ peer' = Append(peer, NONE)

NoEmit == UNCHANGED <<sent, senders, peer>>

(* Mutant: the status is read after the history.                           *)
PromptLate(s, now, status, of) ==
  /\ last' = [last EXCEPT ![s] = now]
  /\ IF now # last[s] /\ now # NONE THEN Emit(s, of, now, 0) ELSE NoEmit

(* __contextd_prompt of bash: a history line that changed.                 *)
Prompt(s, now, status, of) ==
  /\ last' = [last EXCEPT ![s] = now]
  /\ IF now # last[s] /\ now # NONE THEN Emit(s, of, now, status) ELSE NoEmit

(* A bash reads the history file before its first prompt.                  *)
OpenShell(s) ==
  /\ ~open[s] /\ opens < MaxOpens /\ opens' = opens + 1
  /\ open' = [open EXCEPT ![s] = TRUE]
  /\ line' = [line EXCEPT ![s] = IF Kind[s] = "bash" THEN saved ELSE NONE]
  /\ IF Kind[s] = "bash"
     THEN Prompt(s, saved, 0, 0)
     ELSE UNCHANGED last /\ NoEmit
  /\ UNCHANGED <<saved, typed, machine, daemons>>

(* A command runs and the next prompt is shown.  bash may be told to keep  *)
(* a line out of its history.  preexec and precmd of zsh, and postexec of  *)
(* fish, fire once for each command.                                       *)
Run(s, cmd, status, kept) ==
  LET of == Len(typed) + 1
      now == IF kept THEN cmd ELSE line[s]
  IN  /\ open[s] /\ Len(typed) < MaxTyped
      /\ Kind[s] # "bash" => kept
      /\ typed' = Append(typed, [shell |-> s, cmd |-> cmd, status |-> status,
                                 fresh |-> Kind[s] # "bash" \/ now # line[s]])
      /\ line' = [line EXCEPT ![s] = now]
      /\ IF Kind[s] = "bash" THEN Prompt(s, now, status, of)
         ELSE UNCHANGED last /\ Emit(s, of, cmd, status)
      /\ UNCHANGED <<open, saved, opens, machine, daemons>>

(* The prompt is drawn again and nothing ran.                              *)
Enter(s) ==
  /\ open[s]
  /\ IF Kind[s] = "bash" THEN Prompt(s, line[s], 0, 0) ELSE UNCHANGED last /\ NoEmit
  /\ UNCHANGED <<open, line, saved, opens, typed, machine, daemons>>

CloseShell(s) ==
  /\ open[s]
  /\ open' = [open EXCEPT ![s] = FALSE]
  /\ last' = [last EXCEPT ![s] = NONE]
  /\ saved' = IF Kind[s] = "bash" THEN line[s] ELSE saved
  /\ NoEmit
  /\ UNCHANGED <<line, opens, typed, machine, daemons>>

-----------------------------------------------------------------------------
(* Senders.                                                                *)

Fish(k) == Kind[sent[k].shell] = "fish"

(* A netcat that does not know the flag of an attempt fails at once.       *)
Knows(attempt) ==
  CASE attempt = "first"  -> tool \in {"openbsd", "socat"}
    [] attempt = "second" -> tool = "gnu"
    [] attempt = "third"  -> tool \in {"openbsd", "gnu", "plain"}

Following(attempt) ==
  CASE attempt = "first"  -> IF tool \in {"socat", "none"} THEN "ended" ELSE "second"
    [] attempt = "second" -> "third"
    [] attempt = "third"  -> "ended"

Reachable == socket # NONE /\ stage[socket] \in {"restrict", "up"}

(* Mutant: a flag the netcat does not know is dropped, not refused.        *)
AfterConnectBare(attempt) == "waits"

(* Told to hang up, a sender ends with its line; a bare netcat, whichever  *)
(* it is, waits for the daemon, which waits for another line.              *)
AfterConnect(attempt) == IF attempt = "third" THEN "waits" ELSE "ended"

(* fish starts the bare netcat only under `timeout`.                       *)
Try(k) ==
  LET attempt == senders[k]
      connects == Reachable /\ Knows(attempt) /\ ~(attempt = "third" /\ Fish(k) /\ ~timeout)
  IN  /\ attempt \in {"first", "second", "third"}
      /\ peer' = IF connects THEN [peer EXCEPT ![k] = socket] ELSE peer
      /\ senders' = [senders EXCEPT ![k] =
           IF connects THEN AfterConnect(attempt) ELSE Following(attempt)]
      /\ UNCHANGED <<prompts, sent, machine, daemons>>

TimesOut(k) ==
  /\ senders[k] = "waits" /\ timeout
  /\ senders' = [senders EXCEPT ![k] = "ended"]
  /\ UNCHANGED <<prompts, sent, machine, daemons, peer>>

-----------------------------------------------------------------------------
(* Daemons, and bind_private_listener.                                     *)

Alive == {d \in Daemon : stage[d] # "off"}

Start(d) ==
  /\ stage[d] = "off" /\ starts < MaxStarts /\ starts' = starts + 1
  /\ stage' = [stage EXCEPT ![d] = "unlink"]
  /\ overlapped' = (overlapped \/ Alive # {})
  /\ UNCHANGED <<prompts, sent, senders, machine, socket, peer>>

Goto(d, next) == stage' = [stage EXCEPT ![d] = next]

(* Mutant: a socket file that is there is left alone.                      *)
LeaveSocket(d) ==
  /\ stage[d] = "unlink" /\ Goto(d, "bind")
  /\ UNCHANGED <<prompts, sent, senders, machine, socket, starts, overlapped, peer>>

Unlink(d) ==
  /\ stage[d] = "unlink" /\ Goto(d, "bind")
  /\ socket' = NONE
  /\ UNCHANGED <<prompts, sent, senders, machine, starts, overlapped, peer>>

(* A daemon whose listener fails runs on without one.                      *)
Bind(d) ==
  /\ stage[d] = "bind"
  /\ IF socket = NONE THEN socket' = d /\ Goto(d, "restrict")
     ELSE UNCHANGED socket /\ Goto(d, "deaf")
  /\ UNCHANGED <<prompts, sent, senders, machine, starts, overlapped, peer>>

(* Senders that wait for a daemon end when its end of the socket closes.   *)
HangUp(d) ==
  senders' = [k \in DOMAIN senders |->
                IF senders[k] = "waits" /\ peer[k] = d THEN "ended" ELSE senders[k]]

(* restrict_socket_permissions acts on the path, whoever bound it, and     *)
(* fails when there is none; keep_or_unlink then drops the listener.       *)
RestrictPermissions(d) ==
  /\ stage[d] = "restrict"
  /\ IF socket = NONE THEN Goto(d, "deaf") /\ HangUp(d)
     ELSE Goto(d, "up") /\ UNCHANGED senders
  /\ UNCHANGED <<prompts, sent, machine, socket, starts, overlapped, peer>>

(* A daemon leaves its socket file behind.                                 *)
Stop(d) ==
  /\ stage[d] # "off" /\ Goto(d, "off") /\ HangUp(d)
  /\ UNCHANGED <<prompts, sent, machine, socket, starts, overlapped, peer>>

Next ==
  \/ \E s \in Shell : OpenShell(s) \/ CloseShell(s) \/ Enter(s)
  \/ \E s \in Shell, cmd \in Command, status \in Status, kept \in BOOLEAN :
       Run(s, cmd, status, kept)
  \/ \E k \in DOMAIN senders : Try(k) \/ TimesOut(k)
  \/ \E d \in Daemon : Start(d) \/ Unlink(d) \/ Bind(d) \/ RestrictPermissions(d) \/ Stop(d)

(* The kernel runs every process, and a daemon does not stop at start-up.  *)
Fairness ==
  /\ \A k \in 1..(MaxTyped + MaxOpens) :
       WF_vars(k \in DOMAIN senders /\ (Try(k) \/ TimesOut(k)))
  /\ \A d \in Daemon : WF_vars(Unlink(d) \/ Bind(d) \/ RestrictPermissions(d))

Spec == Init /\ [][Next]_vars /\ Fairness

-----------------------------------------------------------------------------
(* Properties.                                                             *)

(* A command is sent once, with the status it ended with, whatever prompts *)
(* are redrawn and shells reopened, if bash sees it as a new line: fail,   *)
(* fix, run again is not seen.                                             *)
NewCommandsAreSent ==
  \A k \in DOMAIN typed :
    LET of == {j \in DOMAIN sent : sent[j].of = k}
    IN  /\ Cardinality(of) = IF typed[k].fresh THEN 1 ELSE 0
        /\ \A j \in of : sent[j].cmd = typed[k].cmd /\ sent[j].status = typed[k].status

(* Daemons that follow one another, whenever they crashed, are reached:    *)
(* what a predecessor left behind does not make one deaf.                  *)
LoneDaemonIsReached ==
  ~overlapped =>
    \A d \in Daemon : /\ stage[d] # "deaf"
                      /\ stage[d] \in {"restrict", "up"} => socket = d

Launched(k) == k \in DOMAIN senders
Ended(k)    == Launched(k) /\ senders[k] = "ended"
Bounded(k)  == Launched(k) /\ (timeout \/ Fish(k) \/ tool \in {"socat", "none"})
HasHangUp   == tool \in {"openbsd", "gnu"}

(* Every sender ends, however long the daemon lives, where netcat can be   *)
(* stopped, or the shell is fish, or socat is used; and so does one whose  *)
(* netcat can be told to hang up, unless the daemon it first met goes.     *)
SendersEnd ==
  \A k \in 1..(MaxTyped + MaxOpens) :
    Bounded(k) \/ (Launched(k) /\ senders[k] = "first" /\ HasHangUp)
      ~> Ended(k) \/ (~Bounded(k) /\ ~Reachable)

===============================================================================
