------------------------------ MODULE Processes ------------------------------
(***************************************************************************)
(* The process poller (crates/sources/src/proc_poller.rs): a tracker that  *)
(* sees the processes of the machine once a poll, and reports those that   *)
(* last.  Processes come and go between polls, the kernel gives their pids *)
(* out again, and the wall clock the tracker reads may be set.             *)
(***************************************************************************)
EXTENDS Integers, Sequences, FiniteSets, SequencesExt

CONSTANTS Pid,
          TARGET_PROCESSES,  \* programs worth a mention
          OtherProgram,      \* the rest, contextd among them
          MIN_LIFETIME,
          MaxTime, MaxBirths, MaxExecs, MaxClockSteps,   \* bounds
          NoProcess

Program == TARGET_PROCESSES \cup OtherProgram
Living  == [birth : Nat, program : Program]
Tracked == [program : Program, firstSeen : Int, announced : BOOLEAN, birth : Nat]

ASSUME ProcessesAssumption ==
  /\ {MIN_LIFETIME, MaxTime, MaxBirths, MaxExecs, MaxClockSteps} \subseteq Nat /\ MIN_LIFETIME > 0
  /\ TARGET_PROCESSES \cap OtherProgram = {} /\ NoProcess \notin Living \cup Tracked
  /\ IsFiniteSet(Pid)

VARIABLES
  time, skew,    \* true time, and what the wall clock is off
  proc,          \* Pid -> NoProcess or Living
  born,          \* history: when each process was started, in order of birth
  execs, clockSteps,
  tracked,       \* Pid -> NoProcess or Tracked, the birth in it a history
  seeded,
  before,        \* history: births the first poll saw
  emitted        \* events broadcast: [kind, program], and the birth meant

procVars == <<time, skew, proc, born, execs, clockSteps, tracked, seeded, before, emitted>>
tracker == <<tracked, seeded, before, emitted>>

ProcInit ==
  /\ time = MIN_LIFETIME /\ skew = 0 /\ execs = 0 /\ clockSteps = 0
  /\ \E up \in SUBSET Pid, program \in TARGET_PROCESSES :
       /\ Cardinality(up) <= 1
       /\ proc = [p \in Pid |-> IF p \in up THEN [birth |-> 1, program |-> program] ELSE NoProcess]
       /\ born = [k \in 1..Cardinality(up) |-> 0]
  /\ tracked = [p \in Pid |-> NoProcess] /\ seeded = FALSE /\ before = {} /\ emitted = <<>>

-----------------------------------------------------------------------------
(* The machine.                                                            *)

(* A new process may get the pid of one that has ended.                    *)
Spawn(p, program) ==
  /\ proc[p] = NoProcess /\ Len(born) < MaxBirths
  /\ born' = Append(born, time)
  /\ proc' = [proc EXCEPT ![p] = [birth |-> Len(born'), program |-> program]]
  /\ UNCHANGED <<time, skew, execs, clockSteps, tracker>>

Exit(p) ==
  /\ proc[p] # NoProcess
  /\ proc' = [proc EXCEPT ![p] = NoProcess]
  /\ UNCHANGED <<time, skew, born, execs, clockSteps, tracker>>

(* A wrapper that becomes the tool it wraps.                               *)
Exec(p, program) ==
  /\ proc[p] # NoProcess /\ proc[p].program # program
  /\ execs < MaxExecs /\ execs' = execs + 1
  /\ proc' = [proc EXCEPT ![p].program = program]
  /\ UNCHANGED <<time, skew, born, clockSteps, tracker>>

Pass ==
  /\ time < MaxTime /\ time' = time + 1
  /\ UNCHANGED <<skew, proc, born, execs, clockSteps, tracker>>

ClockStep ==
  /\ clockSteps < MaxClockSteps /\ clockSteps' = clockSteps + 1
  /\ skew' \in {-MIN_LIFETIME, MIN_LIFETIME}
  /\ UNCHANGED <<time, proc, born, execs, tracker>>

-----------------------------------------------------------------------------
(* The poller.                                                             *)

IsInteresting(p) == proc[p] # NoProcess /\ proc[p].program \in TARGET_PROCESSES

SaturatingSub(a, b) == IF a < b THEN 0 ELSE a - b

FirstSight(p, now) ==
  [program |-> proc[p].program, firstSeen |-> now, announced |-> ~seeded,
   birth |-> proc[p].birth]

(* The entry of a pid that is already tracked is kept, whoever has it now. *)
Entry(p, now) == IF tracked[p] = NoProcess THEN FirstSight(p, now) ELSE tracked[p]

LastsNow(entry, now) ==
  ~entry.announced /\ SaturatingSub(now, entry.firstSeen) >= MIN_LIFETIME

(* Mutant: every process that is gone is reported.                         *)
IsTracked(entry) == TRUE

IsReported(entry) == entry.announced

Started(entry)  == [kind |-> "process_start", program |-> entry.program, birth |-> entry.birth]
Finished(entry) == [kind |-> "process_end", program |-> entry.program, birth |-> entry.birth]

(* The sightings of a poll, and the map of what is tracked, come in any    *)
(* order.                                                                  *)
Orders(pids) == Bijection(1..Cardinality(pids), pids)

(* ProcessTracker::tick and emit.  Starts come before ends.                *)
Tick ==
  LET now    == time + skew
      live   == {p \in Pid : IsInteresting(p)}
      gone   == {p \in Pid \ live : tracked[p] # NoProcess}
      starts == {p \in live : LastsNow(Entry(p, now), now)}
      ends   == {p \in gone : IsReported(tracked[p])}
  IN  /\ tracked' = [p \in Pid |->
           IF p \notin live THEN NoProcess
           ELSE [Entry(p, now) EXCEPT !.announced = @ \/ p \in starts]]
      /\ \E first \in Orders(starts), then \in Orders(ends) :
           emitted' = emitted \o [k \in DOMAIN first |-> Started(Entry(first[k], now))]
                              \o [k \in DOMAIN then |-> Finished(tracked[then[k]])]
      /\ seeded' = TRUE
      /\ before' = IF seeded THEN before ELSE {proc[p].birth : p \in live}
      /\ <<tracked', emitted', seeded'>> # <<tracked, emitted, seeded>>
      /\ UNCHANGED <<time, skew, proc, born, execs, clockSteps>>

ProcNext ==
  \/ \E p \in Pid, program \in Program :
       Spawn(p, program) \/ Exec(p, program)
  \/ \E p \in Pid : Exit(p)
  \/ Pass \/ ClockStep \/ Tick

ProcSpec == ProcInit /\ [][ProcNext]_procVars

-----------------------------------------------------------------------------
(* Properties.                                                             *)

Earlier(k, kind) ==
  {j \in 1..(k - 1) : emitted[j].kind = kind /\ emitted[j].birth = emitted[k].birth}
WasThere(k) == IF emitted[k].birth \in before THEN 1 ELSE 0

(* Whatever pids are given out again, an end is told once, and only of     *)
(* what was said to have started or was there before the poller.  A        *)
(* process that turns into something else and back is a new one.           *)
EndsAreOfStarts ==
  \A k \in DOMAIN emitted :
    emitted[k].kind = "process_end" =>
      Cardinality(Earlier(k, "process_end"))
        < WasThere(k) + Cardinality(Earlier(k, "process_start"))

===============================================================================
