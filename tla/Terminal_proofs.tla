--------------------------- MODULE Terminal_proofs ---------------------------
(***************************************************************************)
(* What reaches the daemon from a terminal, for any number of shells,      *)
(* daemons, processes and calls: each new command once, to the daemon that *)
(* came last; the end of a process once, after its start; and to whoever   *)
(* called, no good news of a row that is not there.                        *)
(***************************************************************************)
EXTENDS Shells, Processes, Clients, FiniteSetTheorems, SequenceTheorems, TLAPS

-----------------------------------------------------------------------------
(* Shells.                                                                 *)

(* Daemons: while they follow one another, one at most is up, and what it  *)
(* bound is what is there.                                                 *)
Succession ==
  ~overlapped =>
    /\ \A d, e \in Daemon : stage[d] # "off" /\ stage[e] # "off" => d = e
    /\ \A d \in Daemon :
         /\ stage[d] # "deaf"
         /\ stage[d] = "bind" => socket = NONE
         /\ stage[d] \in {"restrict", "up"} => socket = d

DaemonInv ==
  /\ stage \in [Daemon -> {"off", "unlink", "bind", "restrict", "up", "deaf"}]
  /\ overlapped \in BOOLEAN
  /\ Succession

LEMMA InitDaemonInv == Init => DaemonInv
BY DEF Init, DaemonInv, Succession

LEMMA NextDaemonInv == DaemonInv /\ [Next]_vars => DaemonInv'
<1> SUFFICES ASSUME DaemonInv, [Next]_vars PROVE DaemonInv'
  OBVIOUS
<1>1. ASSUME UNCHANGED daemons PROVE DaemonInv'
  BY <1>1 DEF daemons, DaemonInv, Succession
<1>2. ASSUME NEW s \in Shell, OpenShell(s) \/ CloseShell(s) \/ Enter(s) PROVE DaemonInv'
  BY <1>1, <1>2 DEF OpenShell, CloseShell, Enter
<1>3. ASSUME NEW s \in Shell, NEW cmd \in Command, NEW status \in Status, NEW kept \in BOOLEAN,
             Run(s, cmd, status, kept)
      PROVE  DaemonInv'
  BY <1>1, <1>3 DEF Run
<1>4. ASSUME NEW k \in DOMAIN senders, Try(k) \/ TimesOut(k) PROVE DaemonInv'
  BY <1>1, <1>4 DEF Try, TimesOut
<1>5. ASSUME NEW d \in Daemon, Start(d) PROVE DaemonInv'
  <2>1. stage' = [stage EXCEPT ![d] = "unlink"] /\ socket' = socket
        /\ (overlapped' = (overlapped \/ Alive # {}))
    BY <1>5 DEF Start
  <2>2. overlapped' \in BOOLEAN /\ (~overlapped' => ~overlapped /\ Alive = {})
    BY <2>1 DEF DaemonInv
  <2>3. ~overlapped' => \A e \in Daemon : stage[e] = "off"
    BY <2>2 DEF Alive
  <2> QED BY <2>1, <2>2, <2>3 DEF DaemonInv, Succession
<1>6. ASSUME NEW d \in Daemon, Unlink(d) PROVE DaemonInv'
  BY <1>6 DEF Unlink, Goto, DaemonInv, Succession
<1>7. ASSUME NEW d \in Daemon, Bind(d) PROVE DaemonInv'
  BY <1>7 DEF Bind, Goto, DaemonInv, Succession
<1>8. ASSUME NEW d \in Daemon, RestrictPermissions(d) PROVE DaemonInv'
  BY <1>8, ShellsAssumption DEF RestrictPermissions, Goto, DaemonInv, Succession
<1>9. ASSUME NEW d \in Daemon, Stop(d) PROVE DaemonInv'
  BY <1>9 DEF Stop, Goto, DaemonInv, Succession
<1>10. CASE UNCHANGED vars
  BY <1>1, <1>10 DEF vars
<1> QED BY <1>2, <1>3, <1>4, <1>5, <1>6, <1>7, <1>8, <1>9, <1>10 DEF Next

(* Daemons that follow one another are reached, whenever each of them      *)
(* crashed: no socket file that one left makes the next deaf.              *)
THEOREM SuccessorsAreReached == Spec => []LoneDaemonIsReached
<1>1. DaemonInv => LoneDaemonIsReached
  BY DEF DaemonInv, Succession, LoneDaemonIsReached
<1> QED BY <1>1, InitDaemonInv, NextDaemonInv, PTL DEF Spec

-----------------------------------------------------------------------------
(* Prompts.  What an open bash remembers is the line it would see again,   *)
(* and a command has been sent as often as it should, or not been typed.   *)

Sent(k) == {j \in DOMAIN sent : sent[j].of = k}

Faithful(k) ==
  IF typed[k].fresh
  THEN \E j \in DOMAIN sent :
         Sent(k) = {j} /\ sent[j].cmd = typed[k].cmd /\ sent[j].status = typed[k].status
  ELSE Sent(k) = {}

Typing == [shell : Shell, cmd : Command, status : Status, fresh : BOOLEAN]
Sending == [of : Nat, shell : Shell, cmd : Command \cup {NONE}, status : Status]

PromptInv ==
  /\ typed \in Seq(Typing) /\ open \in [Shell -> BOOLEAN]
  /\ line \in [Shell -> Command \cup {NONE}] /\ last \in [Shell -> Command \cup {NONE}]
  /\ saved \in Command \cup {NONE}
  /\ \A s \in Shell : open[s] /\ Kind[s] = "bash" => last[s] = line[s]
  /\ sent \in Seq(Sending)
  /\ \A j \in DOMAIN sent : sent[j].of <= Len(typed)
  /\ \A k \in DOMAIN typed : Faithful(k)

LEMMA InitPromptInv == Init => PromptInv
<1> SUFFICES ASSUME Init PROVE PromptInv
  OBVIOUS
<1>1. typed = <<>> /\ sent = <<>> /\ DOMAIN typed = {} /\ DOMAIN sent = {}
  BY DEF Init
<1>2. /\ open \in [Shell -> BOOLEAN] /\ \A s \in Shell : ~open[s]
  BY DEF Init
<1>3. /\ line \in [Shell -> Command \cup {NONE}] /\ last \in [Shell -> Command \cup {NONE}]
      /\ saved \in Command \cup {NONE}
  BY DEF Init
<1> QED BY <1>1, <1>2, <1>3 DEF PromptInv

(* A prompt with nothing new to say about a command of the log.            *)
LEMMA SaysNothingNew ==
  ASSUME PromptInv, typed' = typed,
         \/ sent' = sent
         \/ \E s \in Shell, cmd \in Command \cup {NONE}, status \in Status :
              sent' = Append(sent, [of |-> 0, shell |-> s, cmd |-> cmd, status |-> status])
  PROVE  /\ sent' \in Seq(Sending)
         /\ \A j \in DOMAIN sent' : sent'[j].of <= Len(typed')
         /\ \A k \in DOMAIN typed' : Faithful(k)'
<1>1. CASE sent' = sent
  BY <1>1 DEF PromptInv, Faithful, Sent
<1>2. ASSUME NEW s \in Shell, NEW cmd \in Command \cup {NONE}, NEW status \in Status,
             sent' = Append(sent, [of |-> 0, shell |-> s, cmd |-> cmd, status |-> status])
      PROVE  /\ sent' \in Seq(Sending)
             /\ \A j \in DOMAIN sent' : sent'[j].of <= Len(typed')
             /\ \A k \in DOMAIN typed' : Faithful(k)'
  <2> DEFINE new == [of |-> 0, shell |-> s, cmd |-> cmd, status |-> status]
  <2>1. new \in Sending /\ new.of = 0
    BY DEF Sending
  <2>2. sent \in Seq(Sending) /\ typed \in Seq(Typing) /\ sent' = Append(sent, new)
    BY <1>2 DEF PromptInv
  <2> HIDE DEF new
  <2>3. /\ sent' \in Seq(Sending) /\ DOMAIN sent' = 1..(Len(sent) + 1) /\ DOMAIN sent = 1..Len(sent)
        /\ Len(sent) \in Nat /\ \A j \in 1..Len(sent) : sent'[j] = sent[j]
        /\ sent'[Len(sent) + 1] = new
    BY <2>1, <2>2
  <2>4. DOMAIN typed = 1..Len(typed) /\ Len(typed) \in Nat
    BY <2>2
  <2>5. \A j \in DOMAIN sent' : sent'[j].of <= Len(typed')
    BY <2>1, <2>3, <2>4 DEF PromptInv
  <2>6. ASSUME NEW k \in DOMAIN typed' PROVE Faithful(k)'
    <3>1. k # 0 /\ Faithful(k) /\ k \in DOMAIN typed
      BY <2>4 DEF PromptInv
    <3>2. {j \in DOMAIN sent' : sent'[j].of = k} = Sent(k)
      BY <2>1, <2>3, <3>1 DEF Sent
    <3> QED BY <2>3, <3>1, <3>2 DEF Faithful, Sent
  <2> QED BY <2>3, <2>5, <2>6
<1> QED BY <1>1, <1>2

LEMMA RunKeeps ==
  ASSUME PromptInv, NEW s \in Shell, NEW cmd \in Command, NEW status \in Status,
         NEW kept \in BOOLEAN, Run(s, cmd, status, kept)
  PROVE  PromptInv'
<1> DEFINE of == Len(typed) + 1
           now == IF kept THEN cmd ELSE line[s]
           new == [shell |-> s, cmd |-> cmd, status |-> status,
                   fresh |-> Kind[s] # "bash" \/ now # line[s]]
           out == [of |-> of, shell |-> s, cmd |-> cmd, status |-> status]
<1>1. /\ typed' = Append(typed, new) /\ line' = [line EXCEPT ![s] = now]
      /\ open[s] /\ UNCHANGED <<open, saved>> /\ (Kind[s] # "bash" => kept)
  BY DEF Run
<1>2. now \in Command \cup {NONE} /\ (now # line[s] => now = cmd /\ now # NONE)
  BY ShellsAssumption DEF PromptInv
<1>3. last' = IF Kind[s] = "bash" THEN [last EXCEPT ![s] = now] ELSE last
  BY DEF Run, Prompt
<1>4. IF new.fresh THEN sent' = Append(sent, out) ELSE sent' = sent
  <2>1. CASE Kind[s] = "bash"
    <3>1. last[s] = line[s]
      BY <1>1, <2>1 DEF PromptInv
    <3>2. Prompt(s, now, status, of)
      BY <2>1 DEF Run
    <3>3. new.fresh <=> now # line[s]
      BY <2>1
    <3>4. CASE now # line[s]
      BY <1>2, <3>1, <3>2, <3>3, <3>4 DEF Prompt, Emit
    <3>5. CASE now = line[s]
      BY <3>1, <3>2, <3>3, <3>5 DEF Prompt, NoEmit
    <3> QED BY <3>4, <3>5
  <2>2. CASE Kind[s] # "bash"
    BY <2>2 DEF Run, Emit
  <2> QED BY <2>1, <2>2
<1>5. new \in Typing /\ new.cmd = cmd /\ new.status = status /\ new.fresh \in BOOLEAN
  BY DEF Typing
<1>6. /\ typed \in Seq(Typing) /\ sent \in Seq(Sending) /\ Len(typed) \in Nat /\ Len(sent) \in Nat
      /\ DOMAIN typed = 1..Len(typed) /\ DOMAIN sent = 1..Len(sent)
      /\ \A j \in DOMAIN sent : sent[j].of <= Len(typed)
      /\ \A j \in DOMAIN sent : sent[j].of \in Nat
  <2>1. typed \in Seq(Typing) /\ sent \in Seq(Sending)
        /\ \A j \in DOMAIN sent : sent[j].of <= Len(typed)
    BY DEF PromptInv
  <2>2. \A e \in Sending : e.of \in Nat
    BY DEF Sending
  <2> QED BY <2>1, <2>2
<1>7. out \in Sending /\ out.of = of /\ out.cmd = cmd /\ out.status = status
  BY <1>6 DEF Sending
<1> HIDE DEF new, now, out
<1>8. /\ typed' \in Seq(Typing) /\ DOMAIN typed' = 1..of /\ Len(typed') = of
      /\ typed'[of] = new /\ \A k \in 1..Len(typed) : typed'[k] = typed[k]
  BY <1>1, <1>5, <1>6
<1>9. ASSUME new.fresh
      PROVE  /\ sent' \in Seq(Sending) /\ DOMAIN sent' = 1..(Len(sent) + 1)
             /\ sent'[Len(sent) + 1] = out /\ \A j \in 1..Len(sent) : sent'[j] = sent[j]
  <2>1. sent' = Append(sent, out) /\ sent \in Seq(Sending) /\ out \in Sending
    BY <1>4, <1>6, <1>7, <1>9
  <2> QED BY ONLY <2>1
<1>10. /\ sent' \in Seq(Sending)
       /\ \A j \in DOMAIN sent' : sent'[j].of <= Len(typed')
  <2>1. CASE new.fresh
    BY <1>6, <1>7, <1>8, <1>9, <2>1
  <2>2. CASE ~new.fresh
    BY <1>4, <1>6, <1>8, <2>2
  <2> QED BY <2>1, <2>2
<1>11. ASSUME NEW k \in DOMAIN typed' PROVE Faithful(k)'
  <2>1. CASE k = of /\ new.fresh
    <3>1. {j \in DOMAIN sent' : sent'[j].of = k} = {Len(sent) + 1}
      <4>1. sent'[Len(sent) + 1].of = k /\ Len(sent) + 1 \in DOMAIN sent'
        BY <1>6, <1>7, <1>9, <2>1
      <4>2. \A j \in 1..Len(sent) : sent'[j].of # k
        BY <1>6, <1>9, <2>1
      <4>3. DOMAIN sent' = 1..(Len(sent) + 1) /\ Len(sent) \in Nat
        BY <1>6, <1>9, <2>1
      <4> QED BY ONLY <4>1, <4>2, <4>3
    <3> QED BY <1>5, <1>6, <1>7, <1>8, <1>9, <2>1, <3>1 DEF Faithful, Sent
  <2>2. CASE k = of /\ ~new.fresh
    <3>1. {j \in DOMAIN sent' : sent'[j].of = k} = {}
      BY <1>4, <1>6, <2>2
    <3> QED BY <1>8, <2>2, <3>1 DEF Faithful, Sent
  <2>3. CASE k # of
    <3>1. k \in DOMAIN typed /\ k <= Len(typed) /\ typed'[k] = typed[k]
      BY <1>6, <1>8, <2>3
    <3>2. Faithful(k)
      BY <3>1 DEF PromptInv
    <3>3. {j \in DOMAIN sent' : sent'[j].of = k} = Sent(k)
      <4>1. CASE new.fresh
        BY <1>6, <1>7, <1>9, <2>3, <4>1 DEF Sent
      <4>2. CASE ~new.fresh
        BY <1>4, <4>2 DEF Sent
      <4> QED BY <4>1, <4>2
    <3>4. \A j \in Sent(k) : sent'[j] = sent[j]
      <4>1. CASE new.fresh
        BY <1>6, <1>9, <4>1 DEF Sent
      <4>2. CASE ~new.fresh
        BY <1>4, <4>2 DEF Sent
      <4> QED BY <4>1, <4>2
    <3>5. DOMAIN sent \subseteq DOMAIN sent'
      <4>1. CASE new.fresh
        BY <1>6, <1>9, <4>1
      <4>2. CASE ~new.fresh
        BY <1>4, <4>2
      <4> QED BY <4>1, <4>2
    <3> QED BY <3>1, <3>2, <3>3, <3>4, <3>5 DEF Faithful, Sent
  <2> QED BY <2>1, <2>2, <2>3
<1>12. /\ line' \in [Shell -> Command \cup {NONE}] /\ last' \in [Shell -> Command \cup {NONE}]
       /\ \A t \in Shell : open'[t] /\ Kind[t] = "bash" => last'[t] = line'[t]
  BY <1>1, <1>2, <1>3 DEF PromptInv
<1> QED BY <1>1, <1>8, <1>10, <1>11, <1>12 DEF PromptInv

LEMMA NextPromptInv == PromptInv /\ [Next]_vars => PromptInv'
<1> SUFFICES ASSUME PromptInv, [Next]_vars PROVE PromptInv'
  OBVIOUS
<1>1. ASSUME UNCHANGED <<prompts, sent>> PROVE PromptInv'
  BY <1>1 DEF prompts, PromptInv, Faithful, Sent
<1>2. ASSUME NEW s \in Shell, OpenShell(s) PROVE PromptInv'
  <2>1. /\ typed' = typed /\ saved' = saved /\ open' = [open EXCEPT ![s] = TRUE]
        /\ line' = [line EXCEPT ![s] = IF Kind[s] = "bash" THEN saved ELSE NONE]
    BY <1>2 DEF OpenShell
  <2>2. IF Kind[s] = "bash" THEN last' = [last EXCEPT ![s] = saved] ELSE last' = last
    BY <1>2 DEF OpenShell, Prompt
  <2>3. \/ sent' = sent
        \/ \E sh \in Shell, cmd \in Command \cup {NONE}, status \in Status :
             sent' = Append(sent, [of |-> 0, shell |-> sh, cmd |-> cmd, status |-> status])
    BY <1>2, ShellsAssumption DEF OpenShell, Prompt, Emit, NoEmit, PromptInv
  <2>4. /\ sent' \in Seq(Sending)
        /\ \A j \in DOMAIN sent' : sent'[j].of <= Len(typed')
        /\ \A k \in DOMAIN typed' : Faithful(k)'
    BY <2>1, <2>3, SaysNothingNew
  <2>5. /\ line' \in [Shell -> Command \cup {NONE}] /\ last' \in [Shell -> Command \cup {NONE}]
        /\ open' \in [Shell -> BOOLEAN]
        /\ \A t \in Shell : open'[t] /\ Kind[t] = "bash" => last'[t] = line'[t]
    BY <2>1, <2>2 DEF PromptInv
  <2> QED BY <2>1, <2>4, <2>5 DEF PromptInv
<1>3. ASSUME NEW s \in Shell, Enter(s) PROVE PromptInv'
  <2>1. last' = last /\ sent' = sent
    <3>1. CASE Kind[s] = "bash"
      <4>1. last[s] = line[s] /\ Prompt(s, line[s], 0, 0)
        BY <1>3, <3>1 DEF Enter, PromptInv
      <4>2. last' = [last EXCEPT ![s] = line[s]] /\ sent' = sent
        BY <4>1 DEF Prompt, NoEmit
      <4> QED BY <4>1, <4>2 DEF PromptInv
    <3>2. CASE Kind[s] # "bash"
      BY <1>3, <3>2 DEF Enter, NoEmit
    <3> QED BY <3>1, <3>2
  <2> QED BY <1>3, <2>1 DEF Enter, PromptInv, Faithful, Sent
<1>4. ASSUME NEW s \in Shell, CloseShell(s) PROVE PromptInv'
  <2>1. /\ typed' = typed /\ sent' = sent /\ open' = [open EXCEPT ![s] = FALSE] /\ line' = line
        /\ last' = [last EXCEPT ![s] = NONE]
        /\ saved' = IF Kind[s] = "bash" THEN line[s] ELSE saved
    BY <1>4 DEF CloseShell, NoEmit
  <2>2. /\ last' \in [Shell -> Command \cup {NONE}] /\ saved' \in Command \cup {NONE}
        /\ open' \in [Shell -> BOOLEAN]
        /\ \A t \in Shell : open'[t] /\ Kind[t] = "bash" => last'[t] = line'[t]
    BY <2>1 DEF PromptInv
  <2> QED BY <2>1, <2>2 DEF PromptInv, Faithful, Sent
<1>5. ASSUME NEW s \in Shell, NEW cmd \in Command, NEW status \in Status, NEW kept \in BOOLEAN,
             Run(s, cmd, status, kept)
      PROVE  PromptInv'
  BY <1>5, RunKeeps
<1>6. ASSUME NEW k \in DOMAIN senders, Try(k) \/ TimesOut(k) PROVE PromptInv'
  BY <1>1, <1>6 DEF Try, TimesOut
<1>7. ASSUME NEW d \in Daemon,
             Start(d) \/ Unlink(d) \/ Bind(d) \/ RestrictPermissions(d) \/ Stop(d)
      PROVE  PromptInv'
  BY <1>1, <1>7 DEF Start, Unlink, Bind, RestrictPermissions, Stop
<1>8. CASE UNCHANGED vars
  BY <1>1, <1>8 DEF vars
<1> QED BY <1>2, <1>3, <1>4, <1>5, <1>6, <1>7, <1>8 DEF Next

(* A command that its shell shows as new is sent once, with its own status *)
(* and no other's, whatever is redrawn, closed and reopened.               *)
THEOREM EachIsSentOnce == Spec => []NewCommandsAreSent
<1>1. PromptInv => NewCommandsAreSent
  <2> SUFFICES ASSUME PromptInv, NEW k \in DOMAIN typed
               PROVE  /\ Cardinality(Sent(k)) = IF typed[k].fresh THEN 1 ELSE 0
                      /\ \A j \in Sent(k) :
                           sent[j].cmd = typed[k].cmd /\ sent[j].status = typed[k].status
    BY DEF NewCommandsAreSent, Sent
  <2>1. Faithful(k)
    BY DEF PromptInv
  <2>2. Cardinality({}) = 0 /\ \A j : Cardinality({j}) = 1
    BY FS_EmptySet, FS_Singleton
  <2> QED BY <2>1, <2>2 DEF Faithful
<1> QED BY <1>1, InitPromptInv, NextPromptInv, PTL DEF Spec

-----------------------------------------------------------------------------
(* Processes.                                                              *)

IsThere(p) == proc[p] # NoProcess
Known(p) == tracked[p] # NoProcess

ProcEvent == [kind : {"process_start", "process_end"}, program : Program, birth : Nat]

ProcType ==
  /\ time \in Nat /\ skew \in Int /\ born \in Seq(Nat) /\ seeded \in BOOLEAN
  /\ proc \in [Pid -> Living \cup {NoProcess}]
  /\ tracked \in [Pid -> Tracked \cup {NoProcess}]
  /\ emitted \in Seq(ProcEvent)

(* A birth is one process, with one pid for life: it is not found under    *)
(* two, on the machine, in the tracker, or in one and the other.           *)
BirthInv ==
  /\ \A p \in Pid : IsThere(p) => proc[p].birth <= Len(born)
  /\ \A p \in Pid : Known(p) => tracked[p].birth <= Len(born)
  /\ \A p, q \in Pid : IsThere(p) /\ IsThere(q) /\ proc[p].birth = proc[q].birth => p = q
  /\ \A p, q \in Pid : Known(p) /\ IsThere(q) /\ tracked[p].birth = proc[q].birth => p = q
  /\ \A p, q \in Pid : Known(p) /\ Known(q) /\ tracked[p].birth = tracked[q].birth => p = q

SeedInv == ~seeded => emitted = <<>> /\ before = {} /\ \A p \in Pid : ~Known(p)

(* The books: of each birth, the ends told and the one still to tell are   *)
(* the starts told and the one that was there.                             *)
Of(events, sort, b) == {j \in DOMAIN events : events[j].kind = sort /\ events[j].birth = b}
Told(sort, b) == Of(emitted, sort, b)
Running(b) == \E p \in Pid : Known(p) /\ tracked[p].birth = b /\ tracked[p].announced
One(A) == IF A THEN 1 ELSE 0

Balanced(b) ==
  Cardinality(Told("process_end", b)) + One(Running(b))
    = One(b \in before) + Cardinality(Told("process_start", b))

ProcInv == ProcType /\ BirthInv /\ SeedInv /\ (\A b \in Nat : Balanced(b)) /\ EndsAreOfStarts

-----------------------------------------------------------------------------

LEMMA InitProcInv == ProcInit => ProcInv
<1> SUFFICES ASSUME ProcInit PROVE ProcInv
  OBVIOUS
<1> USE ProcessesAssumption
<1>1. PICK up \in SUBSET Pid, program \in TARGET_PROCESSES :
        /\ Cardinality(up) <= 1
        /\ proc = [p \in Pid |-> IF p \in up THEN [birth |-> 1, program |-> program] ELSE NoProcess]
        /\ born = [k \in 1..Cardinality(up) |-> 0]
  BY DEF ProcInit
<1>2. IsFiniteSet(up) /\ Cardinality(up) \in Nat
  BY FS_Subset, FS_CardinalityType
<1>3. \A p, q \in up : p = q
  <2>1. CASE Cardinality(up) = 0
    BY <1>2, <2>1, FS_EmptySet
  <2>2. CASE Cardinality(up) = 1
    BY <1>2, <2>2, FS_Singleton
  <2> QED BY <1>1, <1>2, <2>1, <2>2
<1>4. \A p \in up : Cardinality(up) = 1
  BY <1>1, <1>2, FS_EmptySet
<1>5. born \in Seq(Nat) /\ Len(born) = Cardinality(up)
  BY <1>1, <1>2
<1>6. ProcType
  <2>1. proc \in [Pid -> Living \cup {NoProcess}]
    BY <1>1 DEF Program, Living
  <2>2. time \in Nat /\ skew \in Int /\ seeded \in BOOLEAN
    <3>1. MIN_LIFETIME \in Nat
      BY ProcessesAssumption
    <3>2. time = MIN_LIFETIME /\ skew = 0 /\ seeded = FALSE
      BY DEF ProcInit
    <3>3. seeded \in BOOLEAN
      BY <3>2
    <3>4. time \in Nat /\ skew \in Int
      BY <3>1, <3>2
    <3> QED BY <3>3, <3>4
  <2> QED BY <1>5, <2>1, <2>2 DEF ProcInit, ProcType
<1>7. \A p \in Pid : ~Known(p) /\ (IsThere(p) => p \in up /\ proc[p].birth = 1)
  BY <1>1 DEF ProcInit, Known, IsThere
<1>8. BirthInv
  BY <1>3, <1>4, <1>5, <1>7 DEF BirthInv
<1>9. SeedInv
  BY <1>7 DEF SeedInv, ProcInit
<1>10. ASSUME NEW b \in Nat PROVE Balanced(b)
  <2>1. \A sort : Told(sort, b) = {}
    BY DEF Told, Of, ProcInit
  <2>2. ~Running(b) /\ b \notin before
    BY <1>7 DEF Running, ProcInit
  <2>3. Cardinality({}) = 0
    BY FS_EmptySet
  <2> QED BY <2>1, <2>2, <2>3 DEF Balanced, One
<1>11. EndsAreOfStarts
  BY DEF EndsAreOfStarts, ProcInit
<1> QED BY <1>6, <1>8, <1>9, <1>10, <1>11 DEF ProcInv

(* What the machine does changes nothing the books are about.              *)
LEMMA MachineKeeps ==
  ASSUME ProcInv, UNCHANGED tracker, ProcType', BirthInv'
  PROVE  ProcInv'
<1>1. \A b : Balanced(b)' <=> Balanced(b)
  BY DEF tracker, Balanced, Told, Of, Running, Known, One
<1>2. EndsAreOfStarts' <=> EndsAreOfStarts
  BY DEF tracker, EndsAreOfStarts, Earlier, WasThere
<1>3. SeedInv'
  BY DEF ProcInv, SeedInv, tracker, Known
<1> QED BY <1>1, <1>2, <1>3 DEF ProcInv

LEMMA BirthsType ==
  ASSUME ProcType
  PROVE  \A p \in Pid :
        /\ IsThere(p) => proc[p] \in Living /\ proc[p].birth \in Nat
        /\ Known(p) => tracked[p] \in Tracked /\ tracked[p].birth \in Nat
<1>1. \A e \in Living : e.birth \in Nat
  BY DEF Living
<1>2. \A e \in Tracked : e.birth \in Nat
  BY DEF Tracked
<1> QED BY <1>1, <1>2 DEF ProcType, IsThere, Known

LEMMA SpawnKeeps ==
  ASSUME ProcInv, NEW p \in Pid, NEW program \in Program, Spawn(p, program)
  PROVE  ProcInv'
<1>1. born \in Seq(Nat) /\ born' = Append(born, time) /\ time \in Nat
  BY DEF ProcInv, ProcType, Spawn
<1>2. Len(born') = Len(born) + 1 /\ Len(born) \in Nat /\ born' \in Seq(Nat)
  BY <1>1
<1> DEFINE new == [birth |-> Len(born) + 1, program |-> program]
<1>3. proc' = [proc EXCEPT ![p] = new] /\ new \in Living
  BY <1>2 DEF Spawn, Living
<1>4. tracked' = tracked /\ new.birth = Len(born) + 1 /\ UNCHANGED tracker
  BY DEF Spawn, tracker
<1> HIDE DEF new
<1>5. new # NoProcess
  BY <1>3, ProcessesAssumption
<1>6. ProcType'
  BY <1>2, <1>3, <1>4 DEF ProcInv, ProcType, Spawn, tracker
<1>7. \A q \in Pid :
        /\ Known(q)' <=> Known(q)
        /\ q # p => (IsThere(q)' <=> IsThere(q)) /\ proc'[q] = proc[q]
  BY <1>3, <1>4 DEF Known, IsThere, ProcInv, ProcType
<1>8. proc'[p].birth = Len(born) + 1
  BY <1>3, <1>4 DEF ProcInv, ProcType
<1>9. /\ \A q \in Pid : IsThere(q) => proc[q].birth \in Nat
      /\ \A q \in Pid : Known(q) => tracked[q].birth \in Nat
  BY BirthsType DEF ProcInv
<1>10. BirthInv'
  BY <1>2, <1>4, <1>7, <1>8, <1>9 DEF BirthInv, ProcInv
<1> QED BY <1>4, <1>6, <1>10, MachineKeeps

LEMMA ExecKeeps ==
  ASSUME ProcInv, NEW p \in Pid, NEW program \in Program, Exec(p, program)
  PROVE  ProcInv'
<1>1. proc[p] \in Living
  BY DEF ProcInv, ProcType, Exec
<1> DEFINE new == [proc[p] EXCEPT !.program = program]
<1>2. proc' = [proc EXCEPT ![p] = new] /\ new \in Living /\ new.birth = proc[p].birth
  BY <1>1 DEF Exec, Living
<1> HIDE DEF new
<1>3. new # NoProcess /\ proc[p] # NoProcess
  BY <1>1, <1>2, ProcessesAssumption
<1>4. tracked' = tracked /\ born' = born /\ UNCHANGED tracker
  BY DEF Exec, tracker
<1>5. ProcType'
  BY <1>2, <1>4 DEF ProcInv, ProcType, Exec, tracker
<1>6. \A q \in Pid :
        /\ Known(q)' <=> Known(q)
        /\ (IsThere(q)' <=> IsThere(q)) /\ proc'[q].birth = proc[q].birth
  BY <1>2, <1>3, <1>4 DEF Known, IsThere, ProcInv, ProcType
<1>7. BirthInv'
  BY <1>4, <1>6 DEF BirthInv, ProcInv
<1> QED BY <1>4, <1>5, <1>7, MachineKeeps

LEMMA ExitKeeps ==
  ASSUME ProcInv, NEW p \in Pid, Exit(p)
  PROVE  ProcInv'
<1>1. tracked' = tracked /\ born' = born /\ UNCHANGED tracker
  BY DEF Exit, tracker
<1>2. ProcType'
  BY <1>1 DEF ProcInv, ProcType, Exit, tracker
<1>3. \A q \in Pid :
        /\ Known(q)' <=> Known(q)
        /\ IsThere(q)' => IsThere(q) /\ proc'[q] = proc[q]
  BY <1>1 DEF Known, IsThere, ProcInv, ProcType, Exit
<1>4. BirthInv'
  BY <1>1, <1>3 DEF BirthInv, ProcInv
<1> QED BY <1>1, <1>2, <1>4, MachineKeeps

LEMMA ClocksKeep ==
  ASSUME ProcInv, Pass \/ ClockStep
  PROVE  ProcInv'
<1>1. tracked' = tracked /\ born' = born /\ proc' = proc /\ UNCHANGED tracker
  BY DEF Pass, ClockStep, tracker
<1>2. time' \in Nat /\ skew' \in Int
  BY ProcessesAssumption DEF Pass, ClockStep, ProcInv, ProcType
<1>3. ProcType'
  BY <1>1, <1>2 DEF ProcInv, ProcType, tracker
<1>4. BirthInv'
  BY <1>1 DEF BirthInv, ProcInv, IsThere, Known
<1> QED BY <1>1, <1>3, <1>4, MachineKeeps

-----------------------------------------------------------------------------
(* Counting the events of a birth.                                         *)

LEMMA OfConcat ==
  ASSUME NEW s \in Seq(ProcEvent), NEW t \in Seq(ProcEvent), NEW sort, NEW b
  PROVE  /\ \A j \in 1..(Len(s) + Len(t)) :
              j \in Of(s \o t, sort, b)
                <=> j \in Of(s, sort, b) \/ (j > Len(s) /\ j - Len(s) \in Of(t, sort, b))
         /\ Of(s \o t, sort, b) \subseteq 1..(Len(s) + Len(t))
         /\ Of(s, sort, b) \subseteq 1..Len(s)
<1>1. Len(s \o t) = Len(s) + Len(t) /\ DOMAIN (s \o t) = 1..(Len(s) + Len(t))
      /\ DOMAIN s = 1..Len(s) /\ DOMAIN t = 1..Len(t) /\ Len(s) \in Nat /\ Len(t) \in Nat
  OBVIOUS
<1>2. \A j \in 1..(Len(s) + Len(t)) :
        (s \o t)[j] = IF j <= Len(s) THEN s[j] ELSE t[j - Len(s)]
  OBVIOUS
<1> QED BY <1>1, <1>2 DEF Of

LEMMA OfFinite ==
  ASSUME NEW s \in Seq(ProcEvent), NEW sort, NEW b
  PROVE  IsFiniteSet(Of(s, sort, b)) /\ Cardinality(Of(s, sort, b)) \in Nat
<1>1. Of(s, sort, b) \subseteq 1..Len(s) /\ Len(s) \in Nat
  BY DEF Of
<1>2. IsFiniteSet(1..Len(s))
  BY <1>1, FS_Interval
<1> QED BY <1>1, <1>2, FS_Subset, FS_CardinalityType

LEMMA NoneMore ==
  ASSUME NEW s \in Seq(ProcEvent), NEW t \in Seq(ProcEvent), NEW sort, NEW b,
         Of(t, sort, b) = {}
  PROVE  Of(s \o t, sort, b) = Of(s, sort, b)
<1>1. Len(s) \in Nat /\ Len(t) \in Nat
  OBVIOUS
<1> DEFINE st == Of(s \o t, sort, b)
           s0 == Of(s, sort, b)
<1>2. /\ \A j \in 1..(Len(s) + Len(t)) : j \in st <=> j \in s0
      /\ st \subseteq 1..(Len(s) + Len(t)) /\ s0 \subseteq 1..Len(s)
  BY OfConcat
<1> HIDE DEF st, s0
<1>3. s0 \subseteq 1..(Len(s) + Len(t))
  BY <1>1, <1>2
<1>4. st = s0
  BY <1>2, <1>3
<1> QED BY <1>4 DEF st, s0

LEMMA OneMore ==
  ASSUME NEW s \in Seq(ProcEvent), NEW t \in Seq(ProcEvent), NEW sort, NEW b, NEW k \in 1..Len(t),
         Of(t, sort, b) = {k}
  PROVE  Cardinality(Of(s \o t, sort, b)) = Cardinality(Of(s, sort, b)) + 1
<1>1. Len(s) \in Nat /\ Len(t) \in Nat
  OBVIOUS
<1> DEFINE st == Of(s \o t, sort, b)
           s0 == Of(s, sort, b)
<1>2. /\ \A j \in 1..(Len(s) + Len(t)) : j \in st <=> j \in s0 \/ (j > Len(s) /\ j - Len(s) = k)
      /\ st \subseteq 1..(Len(s) + Len(t)) /\ s0 \subseteq 1..Len(s) /\ IsFiniteSet(s0)
  BY OfConcat, OfFinite
<1> HIDE DEF st, s0
<1>3. s0 \subseteq 1..(Len(s) + Len(t)) /\ Len(s) + k \in 1..(Len(s) + Len(t))
      /\ Len(s) + k \notin s0
  BY <1>1, <1>2
<1>4. \A j \in 1..(Len(s) + Len(t)) : j \in st <=> j \in s0 \/ j = Len(s) + k
  BY <1>1, <1>2
<1>5. st = s0 \cup {Len(s) + k}
  BY <1>2, <1>3, <1>4
<1>6. Cardinality(st) = Cardinality(s0) + 1
  BY <1>2, <1>3, <1>5, FS_AddElement
<1> QED BY <1>6 DEF st, s0

-----------------------------------------------------------------------------
(* A poll.                                                                 *)

Live == {p \in Pid : IsInteresting(p)}

LEMMA EntryType ==
  ASSUME ProcType, NEW p \in Live, NEW now \in Int
  PROVE  /\ p \in Pid /\ IsThere(p)
         /\ Entry(p, now) \in Tracked
         /\ Known(p) => Entry(p, now) = tracked[p]
         /\ ~Known(p) => /\ Entry(p, now).birth = proc[p].birth
                         /\ Entry(p, now).announced = ~seeded
<1>1. p \in Pid /\ IsThere(p)
  BY DEF Live, IsInteresting, IsThere
<1>2. proc[p] \in Living /\ (Known(p) => tracked[p] \in Tracked)
  BY <1>1, BirthsType
<1>3. CASE Known(p)
  BY <1>1, <1>2, <1>3 DEF Entry, Known
<1>4. CASE ~Known(p)
  <2>1. Entry(p, now) = FirstSight(p, now)
    BY <1>4 DEF Entry, Known
  <2>2. seeded \in BOOLEAN
    BY DEF ProcType
  <2>3. FirstSight(p, now) \in Tracked
    BY <1>2, <2>2 DEF FirstSight, Living, Tracked
  <2> QED BY <1>1, <1>4, <2>1, <2>3 DEF FirstSight
<1> QED BY <1>3, <1>4

(* An entry, kept or new, is the only one of its birth.                    *)
LEMMA EntryBirths ==
  ASSUME ProcType, BirthInv, NEW now \in Int
  PROVE  /\ \A p \in Live : Entry(p, now).birth <= Len(born)
         /\ \A p, q \in Live : Entry(p, now).birth = Entry(q, now).birth => p = q
         /\ \A p \in Live, q \in Pid :
              IsThere(q) /\ Entry(p, now).birth = proc[q].birth => p = q
         /\ \A p \in Live, q \in Pid :
              Known(q) /\ Entry(p, now).birth = tracked[q].birth => p = q
<1>1. \A p \in Live :
        /\ p \in Pid /\ IsThere(p)
        /\ Known(p) => Entry(p, now).birth = tracked[p].birth
        /\ ~Known(p) => Entry(p, now).birth = proc[p].birth
  BY EntryType
<1> QED BY <1>1 DEF BirthInv

Starting(now) == {p \in Live : LastsNow(Entry(p, now), now)}
Ending == {p \in {q \in Pid \ Live : tracked[q] # NoProcess} : IsReported(tracked[p])}

StartEvents(first, now) == [k \in DOMAIN first |-> Started(Entry(first[k], now))]
EndEvents(then) == [k \in DOMAIN then |-> Finished(tracked[then[k]])]

LEMMA OrderOf ==
  ASSUME NEW S \in SUBSET Pid, NEW order \in Orders(S)
  PROVE  /\ Cardinality(S) \in Nat /\ DOMAIN order = 1..Cardinality(S)
         /\ \A k \in DOMAIN order : order[k] \in S
         /\ \A k, l \in DOMAIN order : order[k] = order[l] => k = l
         /\ \A p \in S : \E k \in DOMAIN order : order[k] = p
<1>1. Cardinality(S) \in Nat
  BY ProcessesAssumption, FS_Subset, FS_CardinalityType
<1> QED BY <1>1 DEF Orders, Bijection, Injection, Surjection, IsInjective

(* The events of a poll are one for each process, and a birth has one.     *)
LEMMA StartsOf ==
  ASSUME ProcType, BirthInv, NEW now \in Int, NEW first \in Orders(Starting(now)), NEW b
  PROVE  /\ StartEvents(first, now) \in Seq(ProcEvent)
         /\ Of(StartEvents(first, now), "process_end", b) = {}
         /\ (~\E p \in Starting(now) : Entry(p, now).birth = b)
              => Of(StartEvents(first, now), "process_start", b) = {}
         /\ (\E p \in Starting(now) : Entry(p, now).birth = b)
              => \E k \in 1..Len(StartEvents(first, now)) :
                   Of(StartEvents(first, now), "process_start", b) = {k}
<1> DEFINE es == StartEvents(first, now)
<1>1. Starting(now) \in SUBSET Pid /\ Starting(now) \subseteq Live
  BY EntryType DEF Starting, Live
<1>2. /\ Cardinality(Starting(now)) \in Nat /\ DOMAIN first = 1..Cardinality(Starting(now))
      /\ \A k \in DOMAIN first : first[k] \in Starting(now)
      /\ \A k, l \in DOMAIN first : first[k] = first[l] => k = l
      /\ \A p \in Starting(now) : \E k \in DOMAIN first : first[k] = p
  BY <1>1, OrderOf
<1>3. \A k \in DOMAIN first :
        /\ es[k] = Started(Entry(first[k], now)) /\ es[k] \in ProcEvent
        /\ es[k].kind = "process_start" /\ es[k].birth = Entry(first[k], now).birth
  <2>1. \A p \in Starting(now) : Started(Entry(p, now)) \in ProcEvent
    BY <1>1, EntryType DEF Started, Tracked, ProcEvent
  <2> QED BY <1>2, <2>1 DEF StartEvents, Started
<1>4. DOMAIN es = DOMAIN first /\ es \in Seq(ProcEvent) /\ Len(es) = Cardinality(Starting(now))
  <2>1. es = [k \in 1..Cardinality(Starting(now)) |-> es[k]]
    BY <1>2 DEF StartEvents
  <2> HIDE DEF es
  <2> QED BY <1>2, <1>3, <2>1
<1>5. \A p, q \in Starting(now) : Entry(p, now).birth = Entry(q, now).birth => p = q
  BY <1>1, EntryBirths
<1> HIDE DEF es
<1>6. Of(es, "process_end", b) = {}
  BY <1>3, <1>4 DEF Of
<1>7. ASSUME ~\E p \in Starting(now) : Entry(p, now).birth = b
      PROVE  Of(es, "process_start", b) = {}
  BY <1>2, <1>3, <1>4, <1>7 DEF Of
<1>8. ASSUME NEW p \in Starting(now), Entry(p, now).birth = b
      PROVE  \E k \in 1..Len(es) : Of(es, "process_start", b) = {k}
  <2>1. PICK k \in DOMAIN first : first[k] = p
    BY <1>2
  <2>2. \A l \in DOMAIN first : es[l].birth = b <=> l = k
    BY <1>2, <1>3, <1>5, <1>8, <2>1
  <2>3. Of(es, "process_start", b) = {k}
    BY <1>3, <1>4, <2>2 DEF Of
  <2> QED BY <1>2, <1>4, <2>3
<1> QED BY <1>4, <1>6, <1>7, <1>8 DEF es

LEMMA EndsOf ==
  ASSUME ProcType, BirthInv, NEW then \in Orders(Ending), NEW b
  PROVE  /\ EndEvents(then) \in Seq(ProcEvent)
         /\ Of(EndEvents(then), "process_start", b) = {}
         /\ (~\E p \in Ending : tracked[p].birth = b)
              => Of(EndEvents(then), "process_end", b) = {}
         /\ (\E p \in Ending : tracked[p].birth = b)
              => \E k \in 1..Len(EndEvents(then)) :
                   Of(EndEvents(then), "process_end", b) = {k}
         /\ \A k \in DOMAIN EndEvents(then) :
              /\ EndEvents(then)[k].kind = "process_end"
              /\ \E p \in Ending : tracked[p].birth = EndEvents(then)[k].birth
<1> DEFINE es == EndEvents(then)
<1>1. Ending \in SUBSET Pid /\ \A p \in Ending : Known(p) /\ tracked[p] \in Tracked
  BY BirthsType DEF Ending, Known
<1>2. /\ Cardinality(Ending) \in Nat /\ DOMAIN then = 1..Cardinality(Ending)
      /\ \A k \in DOMAIN then : then[k] \in Ending
      /\ \A k, l \in DOMAIN then : then[k] = then[l] => k = l
      /\ \A p \in Ending : \E k \in DOMAIN then : then[k] = p
  BY <1>1, OrderOf
<1>3. \A k \in DOMAIN then :
        /\ es[k] = Finished(tracked[then[k]]) /\ es[k] \in ProcEvent
        /\ es[k].kind = "process_end" /\ es[k].birth = tracked[then[k]].birth
  <2>1. \A p \in Ending : Finished(tracked[p]) \in ProcEvent
    BY <1>1 DEF Finished, Tracked, ProcEvent
  <2> QED BY <1>2, <2>1 DEF EndEvents, Finished
<1>4. DOMAIN es = DOMAIN then /\ es \in Seq(ProcEvent) /\ Len(es) = Cardinality(Ending)
  <2>1. es = [k \in 1..Cardinality(Ending) |-> es[k]]
    BY <1>2 DEF EndEvents
  <2> HIDE DEF es
  <2> QED BY <1>2, <1>3, <2>1
<1>5. \A p, q \in Ending : tracked[p].birth = tracked[q].birth => p = q
  BY <1>1 DEF BirthInv
<1> HIDE DEF es
<1>6. Of(es, "process_start", b) = {}
  BY <1>3, <1>4 DEF Of
<1>7. ASSUME ~\E p \in Ending : tracked[p].birth = b
      PROVE  Of(es, "process_end", b) = {}
  BY <1>2, <1>3, <1>4, <1>7 DEF Of
<1>8. ASSUME NEW p \in Ending, tracked[p].birth = b
      PROVE  \E k \in 1..Len(es) : Of(es, "process_end", b) = {k}
  <2>1. PICK k \in DOMAIN then : then[k] = p
    BY <1>2
  <2>2. \A l \in DOMAIN then : es[l].birth = b <=> l = k
    BY <1>2, <1>3, <1>5, <1>8, <2>1
  <2>3. Of(es, "process_end", b) = {k}
    BY <1>3, <1>4, <2>2 DEF Of
  <2> QED BY <1>2, <1>4, <2>3
<1>9. \A k \in DOMAIN es : /\ es[k].kind = "process_end"
                           /\ \E p \in Ending : tracked[p].birth = es[k].birth
  BY <1>2, <1>3, <1>4
<1> QED BY <1>4, <1>6, <1>7, <1>8, <1>9 DEF es

(* Of each birth, a poll that is not the first tells the start if it was   *)
(* untold, the end if it was owed, or nothing.                             *)
LEMMA TickKeeps == ProcInv /\ Tick => ProcInv'
<1> SUFFICES ASSUME ProcInv, Tick PROVE ProcInv'
  OBVIOUS
<1> DEFINE now == time + skew
<1>0. /\ ProcType /\ BirthInv /\ SeedInv /\ EndsAreOfStarts /\ now \in Int
      /\ \A b \in Nat : Balanced(b)
      /\ emitted \in Seq(ProcEvent) /\ seeded \in BOOLEAN
  BY DEF ProcInv, ProcType
<1>1. PICK first \in Orders(Starting(now)), then \in Orders(Ending) :
        emitted' = emitted \o StartEvents(first, now) \o EndEvents(then)
  BY DEF Tick, Starting, Ending, Live, StartEvents, EndEvents
<1>2. /\ tracked' = [p \in Pid |->
           IF p \notin Live THEN NoProcess
           ELSE [Entry(p, now) EXCEPT !.announced = @ \/ p \in Starting(now)]]
      /\ seeded' = TRUE
      /\ before' = IF seeded THEN before ELSE {proc[p].birth : p \in Live}
      /\ UNCHANGED <<time, skew, proc, born, execs, clockSteps>>
  BY DEF Tick, Starting, Live
<1> DEFINE ss == StartEvents(first, now)
           es == EndEvents(then)
<1>3. ss \in Seq(ProcEvent) /\ es \in Seq(ProcEvent)
  BY <1>0, StartsOf, EndsOf
<1> HIDE DEF now
<1>4. \A p \in Pid \ Live : ~Known(p)'
  BY <1>2 DEF Known
<1>5. \A p \in Live :
        /\ p \in Pid /\ IsThere(p) /\ Entry(p, now) \in Tracked
        /\ Known(p) => Entry(p, now) = tracked[p]
        /\ ~Known(p) => Entry(p, now).birth = proc[p].birth /\ Entry(p, now).announced = ~seeded
  BY <1>0, EntryType
<1>6. \A p \in Live :
        /\ tracked'[p] \in Tracked /\ Known(p)' /\ tracked'[p].birth = Entry(p, now).birth
        /\ tracked'[p].announced <=> Entry(p, now).announced \/ p \in Starting(now)
  <2> SUFFICES ASSUME NEW p \in Live
               PROVE  /\ tracked'[p] \in Tracked /\ Known(p)'
                      /\ tracked'[p].birth = Entry(p, now).birth
                      /\ tracked'[p].announced <=> Entry(p, now).announced \/ p \in Starting(now)
    OBVIOUS
  <2> DEFINE e == Entry(p, now)
  <2>1. tracked'[p] = [e EXCEPT !.announced = e.announced \/ p \in Starting(now)]
    BY <1>2, <1>5
  <2>2. e \in Tracked
    BY <1>5
  <2> HIDE DEF e
  <2>3. tracked'[p] \in Tracked /\ tracked'[p].birth = e.birth
    BY <2>1, <2>2 DEF Tracked
  <2>4. tracked'[p].announced = (e.announced \/ p \in Starting(now))
    BY <2>1, <2>2 DEF Tracked
  <2>5. Known(p)'
    BY <2>3, ProcessesAssumption DEF Known
  <2> QED BY <2>3, <2>4, <2>5 DEF e
<1>7. ProcType'
  <2>1. tracked' \in [Pid -> Tracked \cup {NoProcess}]
    BY <1>2, <1>6
  <2>2. emitted' \in Seq(ProcEvent)
    BY <1>0, <1>1, <1>3
  <2> QED BY <1>2, <2>1, <2>2 DEF ProcInv, ProcType
<1>8. BirthInv'
  <2>1. /\ \A p \in Live : Entry(p, now).birth <= Len(born)
        /\ \A p, q \in Live : Entry(p, now).birth = Entry(q, now).birth => p = q
        /\ \A p \in Live, q \in Pid :
             IsThere(q) /\ Entry(p, now).birth = proc[q].birth => p = q
    BY <1>0, EntryBirths DEF now
  <2>2. \A p \in Pid : IsThere(p)' <=> IsThere(p)
    BY <1>2 DEF IsThere
  <2> QED BY <1>0, <1>2, <1>4, <1>6, <2>1, <2>2 DEF BirthInv
<1>9. SeedInv'
  BY <1>2 DEF SeedInv
<1>10. ~seeded => Starting(now) = {} /\ Ending = {}
  <2>1. ~seeded => \A p \in Pid : ~Known(p)
    BY <1>0 DEF SeedInv
  <2>2. ~seeded => Ending = {}
    BY <2>1 DEF Ending, Known
  <2>3. ~seeded => \A p \in Live : Entry(p, now).announced = TRUE
    BY <1>5, <2>1
  <2>4. ~seeded => Starting(now) = {}
    BY <2>3 DEF Starting, LastsNow
  <2> QED BY <2>2, <2>4
<1> DEFINE S(b) == \E p \in Starting(now) : Entry(p, now).birth = b
           E(b) == \E p \in Ending : tracked[p].birth = b
           R(b) == \E p \in Pid : /\ tracked'[p] # NoProcess /\ tracked'[p].birth = b
                                  /\ tracked'[p].announced
<1>11. \A p \in Ending : p \in Pid \ Live /\ Known(p) /\ tracked[p].announced
  BY DEF Ending, Known, IsReported
<1>12. \A p \in Starting(now) : p \in Live /\ ~Entry(p, now).announced
  BY DEF Starting, LastsNow
<1>13. \A p \in Live, q \in Pid : Known(q) /\ Entry(p, now).birth = tracked[q].birth => p = q
  BY <1>0, EntryBirths DEF now
<1>14. ASSUME NEW b \in Nat
       PROVE  /\ S(b) => ~Running(b) /\ ~E(b) /\ R(b)
              /\ E(b) => Running(b) /\ ~R(b)
  <2>1. ASSUME S(b) PROVE ~Running(b) /\ ~E(b) /\ R(b)
    <3>1. PICK p \in Starting(now) : Entry(p, now).birth = b
      BY <2>1
    <3>2. ~Running(b)
      BY <1>5, <1>12, <1>13, <3>1 DEF Running, Known
    <3>3. ~E(b)
      BY <1>11, <1>12, <1>13, <3>1
    <3>4. R(b)
      BY <1>5, <1>6, <1>12, <3>1 DEF Running, Known
    <3> QED BY <3>2, <3>3, <3>4
  <2>2. ASSUME E(b) PROVE Running(b) /\ ~R(b)
    <3>1. PICK p \in Ending : tracked[p].birth = b
      BY <2>2
    <3>2. Running(b)
      BY <1>11, <3>1 DEF Running, Known
    <3>3. \A q \in Live : Entry(q, now).birth # b
      BY <1>11, <1>13, <3>1
    <3>4. ~R(b)
      BY <1>4, <1>6, <3>3 DEF Running, Known
    <3> QED BY <3>2, <3>4
  <2> QED BY <2>1, <2>2
<1>15. ASSUME NEW b \in Nat, seeded, ~S(b), ~E(b) PROVE R(b) <=> Running(b)
  <2>1. ASSUME Running(b) PROVE R(b)
    <3>1. PICK p \in Pid : Known(p) /\ tracked[p].birth = b /\ tracked[p].announced
      BY <2>1 DEF Running, Known
    <3>2. p \in Live
      BY <1>15, <3>1 DEF Ending, IsReported, Known
    <3> QED BY <1>5, <1>6, <3>1, <3>2 DEF Running, Known
  <2>2. ASSUME R(b) PROVE Running(b)
    <3>1. PICK p \in Pid : Known(p)' /\ tracked'[p].birth = b /\ tracked'[p].announced
      BY <2>2 DEF Running, Known
    <3>2. p \in Live
      BY <1>4, <3>1
    <3>3. Entry(p, now).birth = b /\ p \notin Starting(now) /\ Entry(p, now).announced
      BY <1>6, <1>15, <3>1, <3>2
    <3> QED BY <1>5, <1>15, <3>2, <3>3 DEF Running, Known
  <2> QED BY <2>1, <2>2
<1> HIDE DEF S, E, R
<1>16. ASSUME NEW b \in Nat
       PROVE  /\ Cardinality(Told("process_start", b)') = Cardinality(Told("process_start", b)) + One(S(b))
              /\ Cardinality(Told("process_end", b)') = Cardinality(Told("process_end", b)) + One(E(b))
              /\ \A sort : IsFiniteSet(Told(sort, b)) /\ Cardinality(Told(sort, b)) \in Nat
  <2> DEFINE front == emitted \o ss
  <2>1. front \in Seq(ProcEvent)
    BY <1>0, <1>3
  <2>2. /\ Told("process_start", b)' = Of(front \o es, "process_start", b)
        /\ Told("process_end", b)' = Of(front \o es, "process_end", b)
    BY <1>1 DEF Told, Of
  <2>3. /\ Of(ss, "process_end", b) = {} /\ (~S(b) => Of(ss, "process_start", b) = {})
        /\ S(b) => \E k \in 1..Len(ss) : Of(ss, "process_start", b) = {k}
    BY <1>0, StartsOf DEF S
  <2>4. /\ Of(es, "process_start", b) = {} /\ (~E(b) => Of(es, "process_end", b) = {})
        /\ E(b) => \E k \in 1..Len(es) : Of(es, "process_end", b) = {k}
    BY <1>0, EndsOf DEF E
  <2>5. \A sort : IsFiniteSet(Told(sort, b)) /\ Cardinality(Told(sort, b)) \in Nat
    BY <1>0, OfFinite DEF Told
  <2> HIDE DEF ss, es
  <2>7. Cardinality(Of(front, "process_start", b))
          = Cardinality(Told("process_start", b)) + One(S(b))
    <3>1. CASE S(b)
      BY <1>0, <1>3, <2>3, <3>1, OneMore DEF Told, One
    <3>2. CASE ~S(b)
      BY <1>0, <1>3, <2>3, <2>5, <3>2, NoneMore DEF Told, One
    <3> QED BY <3>1, <3>2
  <2>8. Of(front, "process_end", b) = Told("process_end", b)
    BY <1>0, <1>3, <2>3, NoneMore DEF Told
  <2> HIDE DEF front
  <2>6. Told("process_start", b)' = Of(front, "process_start", b)
    BY <1>3, <2>1, <2>2, <2>4, NoneMore
  <2>9. Cardinality(Told("process_end", b)') = Cardinality(Told("process_end", b)) + One(E(b))
    <3>1. CASE E(b)
      BY <1>3, <2>1, <2>2, <2>4, <2>8, <3>1, OneMore DEF One
    <3>2. CASE ~E(b)
      BY <1>3, <2>1, <2>2, <2>4, <2>5, <2>8, <3>2, NoneMore DEF One
    <3> QED BY <3>1, <3>2
  <2> QED BY <2>5, <2>6, <2>7, <2>9
<1>17. ASSUME NEW b \in Nat PROVE Balanced(b)'
  <2>1. Balanced(b) /\ Cardinality(Told("process_start", b)) \in Nat
        /\ Cardinality(Told("process_end", b)) \in Nat
    BY <1>0, <1>16
  <2>2. CASE seeded
    <3>1. before' = before
      BY <1>2, <2>2
    <3>2. /\ S(b) => ~Running(b) /\ ~E(b) /\ R(b)
          /\ E(b) => Running(b) /\ ~R(b)
          /\ ~S(b) /\ ~E(b) => (R(b) <=> Running(b))
      BY <1>14, <1>15, <2>2
    <3>3. /\ Cardinality(Told("process_start", b)') = Cardinality(Told("process_start", b)) + One(S(b))
          /\ Cardinality(Told("process_end", b)') = Cardinality(Told("process_end", b)) + One(E(b))
      BY <1>16
    <3>4. One(b \in before)' = One(b \in before) /\ One(b \in before) \in Nat
      BY <3>1 DEF One
    <3>5. One(E(b)) + One(R(b)) = One(Running(b)) + One(S(b)) /\ One(Running(b)) \in Nat
          /\ One(E(b)) \in Nat /\ One(S(b)) \in Nat /\ One(R(b)) \in Nat
      <4>1. CASE S(b)
        BY <3>2, <4>1 DEF One
      <4>2. CASE E(b)
        BY <3>2, <4>2 DEF One
      <4>3. CASE ~S(b) /\ ~E(b)
        <5>1. CASE Running(b)
          BY <3>2, <4>3, <5>1 DEF One
        <5>2. CASE ~Running(b)
          BY <3>2, <4>3, <5>2 DEF One
        <5> QED BY <5>1, <5>2
      <4> QED BY <4>1, <4>2, <4>3
    <3>6. One(Running(b))' = One(R(b))
      BY DEF Running, Known, One, R
    <3> QED BY <2>1, <3>3, <3>4, <3>5, <3>6 DEF Balanced
  <2>3. CASE ~seeded
    <3>1. ~S(b) /\ ~E(b) /\ ~Running(b) /\ b \notin before
      BY <1>0, <1>10, <2>3 DEF SeedInv, Running, S, E
    <3>2. Running(b)' <=> b \in before'
      <4>1. before' = {proc[p].birth : p \in Live}
        BY <1>2, <2>3
      <4>2. \A p \in Live : tracked'[p].birth = proc[p].birth /\ tracked'[p].announced = TRUE
        BY <1>0, <1>5, <1>6, <2>3 DEF SeedInv, Tracked
      <4> QED BY <1>4, <1>5, <1>6, <4>1, <4>2 DEF Running
    <3> QED BY <1>16, <2>1, <3>1, <3>2 DEF Balanced, One
  <2> QED BY <1>0, <2>2, <2>3
<1>18. EndsAreOfStarts'
  <2> DEFINE n == Len(emitted)
             m == Len(emitted) + Len(ss)
  <2> SUFFICES ASSUME NEW k \in DOMAIN emitted', emitted'[k].kind = "process_end"
               PROVE  Cardinality(Earlier(k, "process_end")')
                        < WasThere(k)' + Cardinality(Earlier(k, "process_start")')
    BY DEF EndsAreOfStarts
  <2>1. /\ n \in Nat /\ m \in Nat /\ n <= m /\ k \in Nat /\ k \in 1..(m + Len(es))
        /\ DOMAIN emitted = 1..n /\ DOMAIN ss = 1..Len(ss) /\ DOMAIN es = 1..Len(es)
        /\ Len(ss) \in Nat /\ Len(es) \in Nat
        /\ \A j \in 1..n : emitted'[j] = emitted[j]
        /\ \A j \in (n + 1)..m : emitted'[j] = ss[j - n]
        /\ \A j \in (m + 1)..(m + Len(es)) : emitted'[j] = es[j - m]
    <3> HIDE DEF ss, es
    <3>1. Len(emitted) \in Nat /\ Len(ss) \in Nat /\ Len(es) \in Nat /\ emitted \o ss \in Seq(ProcEvent)
          /\ Len(emitted \o ss) = Len(emitted) + Len(ss)
      BY <1>0, <1>3
    <3>2. /\ Len(emitted') = m + Len(es) /\ emitted' \in Seq(ProcEvent)
          /\ \A j \in 1..(m + Len(es)) :
               emitted'[j] = IF j <= m THEN (emitted \o ss)[j] ELSE es[j - m]
      <4> DEFINE front == emitted \o ss
      <4>1. front \in Seq(ProcEvent) /\ Len(front) = m /\ emitted' = front \o es
        BY <1>1, <3>1 DEF ss, es
      <4> HIDE DEF front, m
      <4>2. /\ Len(front \o es) = m + Len(es) /\ front \o es \in Seq(ProcEvent)
            /\ \A j \in 1..(m + Len(es)) :
                 (front \o es)[j] = IF j <= m THEN front[j] ELSE es[j - m]
        BY <1>3, <4>1, ConcatProperties
      <4> QED BY <4>1, <4>2 DEF front
    <3>3. \A j \in 1..m : (emitted \o ss)[j] = IF j <= n THEN emitted[j] ELSE ss[j - n]
      BY <1>0, <1>3, ConcatProperties
    <3> QED BY <1>0, <1>3, <3>1, <3>2, <3>3
  <2>2. ~(k \in (n + 1)..m)
    <3>1. \A j \in DOMAIN ss : ss[j].kind = "process_start"
      BY DEF StartEvents, Started
    <3> HIDE DEF ss, es
    <3> QED BY <2>1, <3>1
  <2>3. CASE k \in 1..n
    <3>1. seeded
      BY <1>0, <2>1, <2>3 DEF SeedInv
    <3>2. emitted'[k] = emitted[k] /\ (\A j \in 1..(k - 1) : emitted'[j] = emitted[j])
      BY <2>1, <2>3
    <3>3. \A sort : Earlier(k, sort)' = Earlier(k, sort)
      BY <2>1, <2>3, <3>2 DEF Earlier
    <3>4. WasThere(k)' = WasThere(k)
      BY <1>2, <3>1, <3>2 DEF WasThere
    <3> QED BY <1>0, <2>1, <2>3, <3>2, <3>3, <3>4 DEF EndsAreOfStarts
  <2>4. CASE k \in (m + 1)..(m + Len(es))
    <3> DEFINE b == emitted'[k].birth
               ends == Earlier(k, "process_end")'
               begun == Earlier(k, "process_start")'
    <3>1. k - m \in DOMAIN es /\ emitted'[k] = es[k - m]
      BY <2>1, <2>4
    <3>2. E(b) /\ b \in Nat
      <4>1. \E p \in Ending : tracked[p].birth = b
        BY <1>0, <3>1, EndsOf
      <4>2. \A p \in Ending : tracked[p].birth \in Nat
        BY <1>0, <1>11, BirthsType
      <4> QED BY <4>1, <4>2 DEF E
    <3>3. Running(b) /\ Balanced(b) /\ seeded
      <4> HIDE DEF b
      <4>1. Running(b) /\ Balanced(b)
        BY <1>0, <1>14, <3>2
      <4> QED BY <1>0, <1>10, <3>2, <4>1 DEF E
    <3>4. before' = before
      BY <1>2, <3>3
    <3>5. ends \subseteq Told("process_end", b)
      <4>1. PICK i \in 1..Len(es) : Of(es, "process_end", b) = {i}
        <5> HIDE DEF b
        <5>1. \E p \in Ending : tracked[p].birth = b
          BY <3>2 DEF E
        <5> QED BY <1>0, <5>1, EndsOf
      <4>2. k - m = i
        BY <1>0, <3>1, <4>1, EndsOf DEF Of
      <4>3. ASSUME NEW j \in ends PROVE j \in 1..n
        <5>1. j \in 1..(k - 1) /\ emitted'[j].kind = "process_end" /\ emitted'[j].birth = b
          BY DEF Earlier
        <5>2. CASE j \in (n + 1)..m
          <6>1. \A l \in DOMAIN ss : ss[l].kind = "process_start"
            BY DEF StartEvents, Started
          <6> HIDE DEF ss, es
          <6> QED BY <2>1, <5>1, <5>2, <6>1
        <5>3. CASE j \in (m + 1)..(k - 1)
          <6>1. j - m \in Of(es, "process_end", b) /\ j - m # k - m
            BY <2>1, <2>4, <5>1, <5>3 DEF Of
          <6> QED BY <4>1, <4>2, <6>1
        <5> HIDE DEF ss, es
        <5> QED BY <2>1, <2>4, <5>1, <5>2, <5>3
      <4> QED BY <2>1, <4>3 DEF Told, Of, Earlier
    <3>6. Told("process_start", b) \subseteq begun
      <4>1. \A j \in 1..n : j \in 1..(k - 1)
        BY <2>1, <2>4
      <4> QED BY <2>1, <4>1 DEF Told, Of, Earlier
    <3>7. begun \subseteq 1..(k - 1)
      BY DEF Earlier
    <3>8. IsFiniteSet(begun)
      <4>1. IsFiniteSet(1..(k - 1))
        BY <2>1, FS_Interval
      <4> QED BY <3>7, <4>1, FS_Subset
    <3>9. /\ Cardinality(ends) <= Cardinality(Told("process_end", b)) /\ Cardinality(ends) \in Nat
          /\ Cardinality(Told("process_start", b)) <= Cardinality(begun)
          /\ Cardinality(begun) \in Nat
      BY <1>16, <3>2, <3>5, <3>6, <3>8, FS_Subset, FS_CardinalityType
    <3>10. WasThere(k)' = One(b \in before) /\ One(b \in before) \in Nat
      BY <3>4 DEF WasThere, One
    <3>11. Cardinality(Told("process_end", b)) + 1
             = One(b \in before) + Cardinality(Told("process_start", b))
      BY <3>3 DEF Balanced, One
    <3>12. Cardinality(Told("process_end", b)) \in Nat /\ Cardinality(Told("process_start", b)) \in Nat
      BY <1>16, <3>2
    <3> HIDE DEF b, ends, begun
    <3>13. Cardinality(ends) < WasThere(k)' + Cardinality(begun)
      BY <3>9, <3>10, <3>11, <3>12
    <3> QED BY <3>13 DEF ends, begun
  <2> HIDE DEF ss, es
  <2> QED BY <2>1, <2>2, <2>3, <2>4
<1> QED BY <1>7, <1>8, <1>9, <1>17, <1>18 DEF ProcInv

LEMMA NextProcInv == ProcInv /\ [ProcNext]_procVars => ProcInv'
<1> SUFFICES ASSUME ProcInv, [ProcNext]_procVars PROVE ProcInv'
  OBVIOUS
<1>1. ASSUME NEW p \in Pid, NEW program \in Program, Spawn(p, program) PROVE ProcInv'
  BY <1>1, SpawnKeeps
<1>2. ASSUME NEW p \in Pid, NEW program \in Program, Exec(p, program) PROVE ProcInv'
  BY <1>2, ExecKeeps
<1>3. ASSUME NEW p \in Pid, Exit(p) PROVE ProcInv'
  BY <1>3, ExitKeeps
<1>4. CASE Pass \/ ClockStep
  BY <1>4, ClocksKeep
<1>5. CASE Tick
  BY <1>5, TickKeeps
<1>6. CASE UNCHANGED procVars
  <2>1. ProcType' /\ BirthInv' /\ UNCHANGED tracker
    BY <1>6 DEF procVars, tracker, ProcInv, ProcType, BirthInv, Known, IsThere
  <2> QED BY <2>1, MachineKeeps
<1> QED BY <1>1, <1>2, <1>3, <1>4, <1>5, <1>6 DEF ProcNext

(* An end is told once, and only of what was said to have started or was   *)
(* there before the poller: for any number of processes, whatever pids are *)
(* given out again, however long a process lives, and whatever is done to  *)
(* the clock.                                                              *)
THEOREM EndsFollowStarts == ProcSpec => []EndsAreOfStarts
<1>1. ProcInv => EndsAreOfStarts
  BY DEF ProcInv
<1> QED BY <1>1, InitProcInv, NextProcInv, PTL DEF ProcSpec

-----------------------------------------------------------------------------
(* Clients.                                                                *)

ClientState == {"idle", "usage", "waiting", "noted", "printed", "failed", "gone"}
WireState   == {"none", "sent", "queued", "taken", "stored", "written", "answered", "cut"}

CallsType ==
  /\ kind \in [Call -> CallKind]
  /\ client \in [Call -> ClientState]
  /\ wire \in [Call -> WireState]
  /\ reply \in [Call -> {"none", "ok", "error", "part"}]
  /\ committed \subseteq Call

(* A call that was not made has left no trace, so that its kind is open.   *)
Untouched(c) == client[c] = "idle" => wire[c] = "none" /\ reply[c] = "none"

(* A row is committed before its reply is decided, and what it is a reply  *)
(* to is not long: a part of it never arrives.                             *)
Backed(c) ==
  kind[c] \in Writes =>
    /\ wire[c] = "stored" => c \in committed
    /\ reply[c] \in {"ok", "part"} => c \in committed
    /\ kind[c] \in {"claim", "note"} /\ client[c] = "noted" => c \in committed

CallInv(c) == Untouched(c) /\ Backed(c)

CallsInv == CallsType /\ \A c \in Call : CallInv(c)

-----------------------------------------------------------------------------

LEMMA InitCallsInv == CallInit => CallsInv
BY DEF CallInit, CallsInv, CallsType, ClientState, WireState, CallKind, Writes, CallInv,
       Untouched, Backed

(* A claim or a note is said to be noted after a reply that is not empty   *)
(* and no error.                                                           *)
LEMMA SaysNoted ==
  ASSUME NEW k \in {"claim", "note"}, NEW r \in {"ok", "error", "part"}, Says(k, r) = "noted"
  PROVE  r \in {"ok", "part"}
BY DEF Says

LEMMA SaysType ==
  ASSUME NEW k, NEW r PROVE Says(k, r) \in {"noted", "failed", "printed"}
BY DEF Says

LEMMA StartKeeps ==
  ASSUME CallsInv, NEW d \in Call, NEW k \in CallKind, NEW blank \in BOOLEAN,
         StartCall(d, k, blank)
  PROVE  CallsInv'
<1>1. CallsType'
  BY DEF CallsInv, CallsType, StartCall, ClientState, WireState
<1>2. ASSUME NEW c \in Call PROVE CallInv(c)'
  <2>1. CASE c = d
    <3>1. wire[c] = "none" /\ reply[c] = "none"
      BY <2>1 DEF CallsInv, CallInv, Untouched, StartCall
    <3>2. client'[c] \in {"usage", "waiting", "failed"} /\ wire'[c] \in {"none", "sent"}
          /\ reply'[c] = "none"
      BY <2>1, <3>1 DEF CallsInv, CallsType, StartCall
    <3> QED BY <3>2 DEF CallInv, Untouched, Backed
  <2>2. CASE c # d
    <3>1. kind'[c] = kind[c] /\ client'[c] = client[c] /\ wire'[c] = wire[c]
          /\ reply'[c] = reply[c] /\ committed' = committed
      BY <2>2 DEF CallsInv, CallsType, StartCall
    <3> QED BY <3>1 DEF CallsInv, CallInv, Untouched, Backed
  <2> QED BY <2>1, <2>2
<1> QED BY <1>1, <1>2 DEF CallsInv

LEMMA ReadKeeps ==
  ASSUME CallsInv, NEW d \in Call, ReadReply(d)
  PROVE  CallsInv'
<1> USE DEF ReadReply
<1>1. client'[d] = IF reply[d] = "none" THEN "failed" ELSE Says(kind[d], reply[d])
  BY DEF CallsInv, CallsType
<1>2. client'[d] \in {"noted", "failed", "printed"}
  BY <1>1, SaysType
<1>3. CallsType'
  BY <1>1, <1>2 DEF CallsInv, CallsType, ClientState
<1>4. ASSUME NEW c \in Call PROVE CallInv(c)'
  <2>1. CASE c = d
    <3>1. ASSUME kind[d] \in {"claim", "note"}, client'[d] = "noted" PROVE d \in committed
      <4>1. reply[d] \in {"ok", "error", "part"} /\ Says(kind[d], reply[d]) = "noted"
        BY <1>1, <3>1 DEF CallsInv, CallsType
      <4>2. reply[d] \in {"ok", "part"}
        BY <3>1, <4>1, SaysNoted
      <4> QED BY <3>1, <4>2 DEF CallsInv, CallInv, Backed, Writes
    <3> QED BY <1>2, <2>1, <3>1 DEF CallsInv, CallInv, Untouched, Backed
  <2>2. CASE c # d
    <3>1. client'[c] = client[c]
      BY <2>2 DEF CallsInv, CallsType
    <3> QED BY <3>1 DEF CallsInv, CallInv, Untouched, Backed
  <2> QED BY <2>1, <2>2
<1> QED BY <1>3, <1>4 DEF CallsInv

LEMMA DaemonKeeps ==
  ASSUME CallsInv, NEW d \in Call, DaemonStep(d)
  PROVE  CallsInv'
<1> USE DEF CallsInv, CallsType
<1>1. kind' = kind /\ client' = client /\ committed \subseteq committed'
  BY DEF DaemonStep, Dispatch, Take, WriteRow, Serve, WriteReply
<1>2. wire[d] # "none"
  BY DEF DaemonStep, Dispatch, Take, WriteRow, Serve, WriteReply
<1>3. client[d] # "idle"
  BY <1>2 DEF CallInv, Untouched
<1>4. CallsType' /\ \A c \in Call \ {d} : wire'[c] = wire[c] /\ reply'[c] = reply[c]
  <2>1. CASE Dispatch(d) \/ Take(d) \/ WriteReply(d)
    BY <2>1 DEF Dispatch, Take, WriteReply, WireState
  <2>2. CASE WriteRow(d)
    BY <2>2 DEF WriteRow, Answer, WireState
  <2>3. CASE Serve(d)
    BY <2>3 DEF Serve, Answer, WireState
  <2> QED BY <2>1, <2>2, <2>3 DEF DaemonStep
<1>5. Backed(d)'
  <2>1. CASE Dispatch(d) \/ Take(d) \/ WriteReply(d)
    BY <2>1 DEF Dispatch, Take, WriteReply, CallInv, Backed
  <2>2. CASE WriteRow(d)
    BY <2>2 DEF WriteRow, Answer, CallInv, Backed
  <2>3. CASE Serve(d)
    BY <2>3 DEF Serve, Answer, CallInv, Backed
  <2> QED BY <2>1, <2>2, <2>3 DEF DaemonStep
<1>6. ASSUME NEW c \in Call PROVE CallInv(c)'
  <2>1. CASE c = d
    BY <1>1, <1>3, <1>5, <2>1 DEF CallInv, Untouched
  <2>2. CASE c # d
    BY <1>1, <1>4, <2>2 DEF CallInv, Untouched, Backed
  <2> QED BY <2>1, <2>2
<1> QED BY <1>4, <1>6

(* A part of a reply is through only where the reply was no receipt.       *)
LEMMA DieKeeps == CallsInv /\ Die => CallsInv'
<1> SUFFICES ASSUME CallsInv, Die PROVE CallsInv'
  OBVIOUS
<1> USE DEF CallsInv, CallsType
<1>1. PICK through \in SUBSET {c \in Call : wire[c] = "written" /\ kind[c] \notin Writes} :
        reply' = [c \in Call |-> IF c \in through THEN "part"
                                 ELSE IF wire'[c] = "cut" THEN "none" ELSE reply[c]]
  BY DEF Die
<1>2. wire' = [c \in Call |-> IF wire[c] \in {"none", "answered"} THEN wire[c] ELSE "cut"]
      /\ kind' = kind /\ client' = client /\ committed' = committed
  BY DEF Die
<1>3. CallsType'
  BY <1>1, <1>2 DEF WireState
<1>4. ASSUME NEW c \in Call PROVE CallInv(c)'
  <2>1. kind[c] \in Writes => reply'[c] \in {"none", reply[c]} /\ wire'[c] # "stored"
    BY <1>1, <1>2
  <2>2. wire[c] = "none" /\ reply[c] = "none" => wire'[c] = "none" /\ reply'[c] = "none"
    BY <1>1, <1>2
  <2> QED BY <1>2, <2>1, <2>2 DEF CallInv, Untouched, Backed
<1> QED BY <1>3, <1>4

LEMMA NextCallsInv == CallsInv /\ [CallNext]_callVars => CallsInv'
<1> SUFFICES ASSUME CallsInv, [CallNext]_callVars PROVE CallsInv'
  OBVIOUS
<1>1. ASSUME NEW c \in Call, NEW k \in CallKind, NEW blank \in BOOLEAN, StartCall(c, k, blank)
      PROVE  CallsInv'
  BY <1>1, StartKeeps
<1>2. ASSUME NEW c \in Call, DaemonStep(c) PROVE CallsInv'
  BY <1>2, DaemonKeeps
<1>3. ASSUME NEW c \in Call, ReadReply(c) PROVE CallsInv'
  BY <1>3, ReadKeeps
<1>4. ASSUME NEW c \in Call, Interrupt(c) PROVE CallsInv'
  BY <1>4 DEF Interrupt, CallsInv, CallsType, ClientState, CallInv, Untouched, Backed
<1>5. CASE Die
  BY <1>5, DieKeeps
<1>6. CASE Restarted
  BY <1>6 DEF Restarted, CallsInv, CallsType, CallInv, Untouched, Backed
<1>7. CASE UNCHANGED callVars
  BY <1>7 DEF callVars, CallsInv, CallsType, CallInv, Untouched, Backed
<1> QED BY <1>1, <1>2, <1>3, <1>4, <1>5, <1>6, <1>7 DEF CallNext

-----------------------------------------------------------------------------

(* "Noted" is said of a claim or a note only if its row was committed,     *)
(* however many clients call, and wherever the daemon dies.                *)
THEOREM NotedIsStored == CallSpec => []NotedMeansStored
<1>1. CallsInv => NotedMeansStored
  BY DEF CallsInv, CallInv, Backed, NotedMeansStored, Writes
<1> QED BY <1>1, InitCallsInv, NextCallsInv, PTL DEF CallSpec

==============================================================================
