--------------------------- MODULE Sources_proofs ---------------------------
(***************************************************************************)
(* Proofs about the crate of sources: the installers of Wiring and the     *)
(* watchers of Watcher.                                                    *)
(*                                                                         *)
(* Installers lose no hook of other people's, what an installer left is    *)
(* what git runs, and a profile keeps the user's lines: for any number of  *)
(* installers and deaths, any trees, wherever git keeps their hooks, and   *)
(* any edits between an install and an uninstall.                          *)
(*                                                                         *)
(* Watchers, for any tree of directories, any filter, any limits and any   *)
(* number of changes: first paths and their prefixes; then four            *)
(* invariants, the manifest watcher's count, that users caused what is     *)
(* sent, that what is owed is on its way, and how the watcher will come to *)
(* know of each directory that it does not watch.                          *)
(***************************************************************************)
EXTENDS Wiring, Watcher, Sieve_proofs, FiniteSetTheorems


Working(p, d) == pc[p].at # "idle" /\ pc[p].dir = d

TypeInv ==
  /\ hook \in [Dir -> File \cup {NONE}]
  /\ backup \in [Dir -> File \cup {NONE}]
  /\ theirs \in [Dir -> SUBSET Foreign]
  /\ raced \in [Dir -> BOOLEAN]
  /\ pc \in [Installer -> [at : {"idle", "move", "write", "chmod"},
                           dir : Dir \cup {NONE}, version : Version \cup {NONE}]]
  /\ \A p \in Installer : pc[p].at # "idle" => pc[p].dir \in Dir /\ pc[p].version \in Version

(* Other people's hook: not a file of ours, nor none.                      *)
Other(file) == file # NONE /\ file.kind = "foreign"

Held(d) == {file.of : file \in {f \in {hook[d], backup[d]} : Other(f)}}

Alone(d) == \A p, q \in Installer : Working(p, d) /\ Working(q, d) => p = q

(* What an installer saw is still so: there is no backup to move a hook    *)
(* over, and no hook of others' to write over.                             *)
StillSo(p, d) ==
  Working(p, d) => /\ pc[p].at = "move" => backup[d] = NONE
                   /\ pc[p].at = "write" => ~Other(hook[d])

DirInv(d) ==
  ~raced[d] => theirs[d] \subseteq Held(d) /\ Alone(d) /\ \A p \in Installer : StillSo(p, d)

IInv == TypeInv /\ \A d \in Dir : DirInv(d)

-----------------------------------------------------------------------------

LEMMA InitIInv == WireInit => IInv
<1> SUFFICES ASSUME WireInit PROVE IInv
  OBVIOUS
<1>1. hook \in [Dir -> File \cup {NONE}]
  <2>1. \A v \in Version : Legacy(v) \in File
    BY DEF Legacy, File
  <2>2. \A f \in Foreign : Theirs(f) \in File
    BY DEF Theirs, File
  <2> QED BY <2>1, <2>2 DEF WireInit
<1>2. ASSUME NEW d \in Dir PROVE theirs[d] \subseteq Foreign
  <2>1. hook[d] = NONE \/ (\E v \in Version : hook[d] = Legacy(v))
          \/ (\E f \in Foreign : hook[d] = Theirs(f))
    BY DEF WireInit
  <2> QED BY <2>1 DEF WireInit, Legacy, Theirs
<1>3. TypeInv
  BY <1>1, <1>2 DEF WireInit, TypeInv, Idle
<1>4. ASSUME NEW d \in Dir PROVE DirInv(d)
  BY DEF WireInit, DirInv, Held, Other, Alone, StillSo, Working, Idle
<1> QED BY <1>3, <1>4 DEF IInv

(* A step of an installer at d leaves other directories as they are.       *)
LEMMA Elsewhere ==
  ASSUME NEW d \in Dir, NEW e \in Dir, d # e, NEW p \in Installer, DirInv(e),
         hook'[e] = hook[e], backup'[e] = backup[e], theirs'[e] = theirs[e], raced'[e] = raced[e],
         \A q \in Installer \ {p} : pc'[q] = pc[q],
         pc'[p].at = "idle" \/ pc'[p].dir = d
  PROVE  DirInv(e)'
BY DEF DirInv, Held, Alone, StillSo, Working

LEMMA LookKeeps ==
  ASSUME IInv, NEW p \in Installer, NEW t \in Tree, NEW v \in Version, Look(p, t, v)
  PROVE  IInv'
<1> USE DEF IInv
<1>1. PICK d \in Dir : d = HooksDir(t)
  BY DEF Dir
<1> DEFINE foreign == hook[d] # NONE /\ ~IsContextdHook(hook[d])
<1>2. hook' = hook /\ backup' = backup /\ theirs' = theirs /\ pc[p].at = "idle"
  BY DEF Look
<1>3. CASE foreign /\ backup[d] # NONE
  BY <1>1, <1>2, <1>3 DEF Look, TypeInv, DirInv, Held, Alone, StillSo, Working
<1>4. CASE ~(foreign /\ backup[d] # NONE)
  <2>1. /\ pc' = [pc EXCEPT ![p] = [at |-> IF foreign THEN "move" ELSE "write",
                                    dir |-> d, version |-> v]]
        /\ raced' = [raced EXCEPT ![d] = @ \/ AtWork(d) # {}]
    BY <1>1, <1>4 DEF Look
  <2>2. TypeInv'
    BY <1>1, <1>2, <2>1 DEF TypeInv
  <2>3. ASSUME NEW e \in Dir PROVE DirInv(e)'
    <3>1. CASE e = d
      <4> SUFFICES ASSUME ~raced'[d] PROVE DirInv(d)'
        BY <3>1 DEF DirInv
      <4>1. ~raced[d] /\ AtWork(d) = {}
        BY <1>1, <2>1 DEF TypeInv
      <4>2. Alone(d)'
        BY <2>1, <4>1 DEF Alone, Working, AtWork, TypeInv
      <4>3. foreign => backup[d] = NONE
        BY <1>4
      <4>4. ~foreign => ~Other(hook[d])
        BY DEF IsContextdHook, Other
      <4>5. \A q \in Installer : StillSo(q, d)'
        BY <1>2, <2>1, <4>1, <4>3, <4>4 DEF StillSo, Working, AtWork, TypeInv, Other
      <4> QED BY <1>2, <4>1, <4>2, <4>5 DEF DirInv, Held
    <3>2. CASE e # d
      <4>1. raced'[e] = raced[e] /\ pc'[p].dir = d /\ \A q \in Installer \ {p} : pc'[q] = pc[q]
        BY <2>1, <3>2 DEF TypeInv
      <4> QED BY <1>1, <1>2, <3>2, <4>1, Elsewhere
    <3> QED BY <3>1, <3>2
  <2> QED BY <2>2, <2>3
<1> QED BY <1>3, <1>4

LEMMA MoveKeeps ==
  ASSUME IInv, NEW p \in Installer, Move(p)
  PROVE  IInv'
<1> USE DEF IInv
<1>0. PICK d \in Dir : d = pc[p].dir
  BY DEF Move, Write, SetPermissions, TypeInv
<1>1. d \in Dir /\ pc[p].at = "move" /\ theirs' = theirs /\ raced' = raced
  BY <1>0 DEF Move, TypeInv
<1>2. TypeInv'
  BY DEF Move, TypeInv, Idle, Goto
<1>3. ASSUME NEW e \in Dir PROVE DirInv(e)'
  <2>1. CASE e = d
    <3> SUFFICES ASSUME ~raced[d] PROVE DirInv(d)'
      BY <1>0, <1>1, <2>1 DEF DirInv
    <3>1. backup[d] = NONE /\ \A q \in Installer \ {p} : ~Working(q, d)
      BY <1>0, <1>1 DEF DirInv, StillSo, Alone, Working
    <3>2. CASE hook[d] = NONE
      <4>1. /\ hook' = hook /\ backup' = backup
            /\ pc'[p].at = "idle" /\ \A q \in Installer \ {p} : pc'[q] = pc[q]
        BY <1>0, <1>1, <3>2 DEF Move, Idle, TypeInv
      <4>2. Held(d)' = Held(d)
        BY <4>1 DEF Held, Other
      <4>3. \A q \in Installer : ~Working(q, d)'
        BY <3>1, <4>1 DEF Working
      <4>4. Alone(d)' /\ \A q \in Installer : StillSo(q, d)'
        BY <4>3 DEF Alone, StillSo
      <4> QED BY <1>0, <1>1, <4>2, <4>4 DEF DirInv
    <3>3. CASE hook[d] # NONE
      <4>1. backup'[d] = hook[d] /\ hook'[d] = NONE /\ pc' = [pc EXCEPT ![p].at = "write"]
        BY <1>0, <1>1, <3>3 DEF Move, Goto, TypeInv
      <4>2. Held(d) \subseteq Held(d)'
        BY <3>1, <4>1 DEF Held, Other
      <4>3. Alone(d)' /\ \A q \in Installer : StillSo(q, d)'
        BY <3>1, <4>1 DEF Alone, StillSo, Working, TypeInv, Other
      <4> QED BY <1>0, <1>1, <4>2, <4>3 DEF DirInv
    <3> QED BY <3>2, <3>3
  <2>2. CASE e # d
    <3>1. /\ hook'[e] = hook[e] /\ backup'[e] = backup[e]
          /\ \A q \in Installer \ {p} : pc'[q] = pc[q]
          /\ pc'[p].at = "idle" \/ pc'[p].dir = d
      BY <1>0, <2>2 DEF Move, Goto, Idle, TypeInv
    <3> QED BY <1>0, <1>1, <2>2, <3>1, Elsewhere
  <2> QED BY <2>1, <2>2
<1> QED BY <1>2, <1>3

(* Writing and setting permissions leave a hook of ours.                   *)
LEMMA WriteKeeps ==
  ASSUME IInv, NEW p \in Installer, Write(p)
  PROVE  IInv'
<1> USE DEF IInv
<1>0. PICK d \in Dir : d = pc[p].dir
  BY DEF Move, Write, SetPermissions, TypeInv
<1>1. /\ d \in Dir /\ pc[p].at = "write" /\ pc[p].version \in Version
      /\ theirs' = theirs /\ raced' = raced /\ backup' = backup
      /\ pc' = [pc EXCEPT ![p].at = "chmod"]
  BY <1>0 DEF Write, Goto, TypeInv
<1>2. /\ hook'[d] \in File /\ hook'[d].kind = "ours"
      /\ \A e \in Dir \ {d} : hook'[e] = hook[e]
      /\ hook' \in [Dir -> File \cup {NONE}]
  BY <1>0, <1>1 DEF Write, TypeInv, Ours, File
<1>3. TypeInv'
  BY <1>0, <1>1, <1>2 DEF TypeInv
<1>4. ASSUME NEW e \in Dir PROVE DirInv(e)'
  <2>1. CASE e = d
    <3> SUFFICES ASSUME ~raced[d] PROVE DirInv(d)'
      BY <1>0, <1>1, <2>1 DEF DirInv
    <3>1. ~Other(hook[d]) /\ \A q \in Installer \ {p} : ~Working(q, d)
      BY <1>0, <1>1 DEF DirInv, StillSo, Alone, Working
    <3>2. Held(d) \subseteq Held(d)'
      BY <1>0, <1>1, <3>1 DEF Held
    <3>3. Alone(d)' /\ \A q \in Installer : StillSo(q, d)'
      BY <1>0, <1>1, <3>1 DEF Alone, StillSo, Working, TypeInv
    <3> QED BY <1>0, <1>1, <3>2, <3>3 DEF DirInv
  <2>2. CASE e # d
    <3>1. hook'[e] = hook[e] /\ pc'[p].dir = d /\ \A q \in Installer \ {p} : pc'[q] = pc[q]
      BY <1>0, <1>1, <1>2, <2>2 DEF TypeInv
    <3> QED BY <1>0, <1>1, <2>2, <3>1, Elsewhere
  <2> QED BY <2>1, <2>2
<1> QED BY <1>3, <1>4

LEMMA SetPermissionsKeeps ==
  ASSUME IInv, NEW p \in Installer, SetPermissions(p)
  PROVE  IInv'
<1> USE DEF IInv
<1>0. PICK d \in Dir : d = pc[p].dir
  BY DEF Move, Write, SetPermissions, TypeInv
<1>1. /\ d \in Dir /\ theirs' = theirs /\ raced' = raced /\ backup' = backup
      /\ pc' = [pc EXCEPT ![p] = Idle]
  BY <1>0 DEF SetPermissions, TypeInv
<1>2. /\ hook' \in [Dir -> File \cup {NONE}]
      /\ \A e \in Dir \ {d} : hook'[e] = hook[e]
      /\ Other(hook[d]) => Other(hook'[d]) /\ hook'[d].of = hook[d].of
      /\ Other(hook'[d]) => Other(hook[d])
  <2>1. CASE hook[d] = NONE
    BY <1>0, <1>1, <2>1 DEF SetPermissions, TypeInv
  <2>2. CASE hook[d] # NONE
    <3>1. hook[d] \in File /\ hook' = [hook EXCEPT ![d] = [hook[d] EXCEPT !.exec = TRUE]]
      BY <1>0, <1>1, <2>2 DEF SetPermissions, TypeInv
    <3>2. [hook[d] EXCEPT !.exec = TRUE] \in File
      BY <3>1 DEF File
    <3>3. hook'[d] = [hook[d] EXCEPT !.exec = TRUE] /\ \A e \in Dir \ {d} : hook'[e] = hook[e]
      BY <1>0, <1>1, <3>1 DEF TypeInv
    <3>4. hook'[d].kind = hook[d].kind /\ hook'[d].of = hook[d].of
      BY <3>1, <3>3 DEF File
    <3>5. hook'[d] # NONE
      BY <3>2, <3>3, WiringAssumption
    <3> QED BY <1>0, <1>1, <2>2, <3>1, <3>2, <3>3, <3>4, <3>5 DEF TypeInv, Other
  <2> QED BY <2>1, <2>2
<1>3. TypeInv'
  BY <1>0, <1>1, <1>2 DEF TypeInv, Idle
<1>4. ASSUME NEW e \in Dir PROVE DirInv(e)'
  <2>1. CASE e = d
    BY <1>0, <1>1, <1>2, <2>1 DEF TypeInv, DirInv, Held, Alone, StillSo, Working, Idle
  <2>2. CASE e # d
    <3>1. hook'[e] = hook[e] /\ pc'[p].at = "idle" /\ \A q \in Installer \ {p} : pc'[q] = pc[q]
      BY <1>0, <1>1, <1>2, <2>2 DEF TypeInv, Idle
    <3> QED BY <1>0, <1>1, <2>2, <3>1, Elsewhere
  <2> QED BY <2>1, <2>2
<1> QED BY <1>3, <1>4

LEMMA DieKeeps ==
  ASSUME IInv, NEW p \in Installer, Die(p)
  PROVE  IInv'
BY DEF Die, Idle, IInv, TypeInv, DirInv, Held, Alone, StillSo, Working

(* Whoever changes a hook under an installer has raced it.                 *)
LEMMA ToolKeeps ==
  ASSUME IInv, NEW d \in Dir, NEW file \in {Theirs(f) : f \in Foreign} \cup {NONE},
         ToolTouches(d, file)
  PROVE  IInv'
<1> USE DEF IInv
<1>1. pc' = pc /\ backup' = backup /\ hook' = [hook EXCEPT ![d] = file]
      /\ raced' = [raced EXCEPT ![d] = @ \/ AtWork(d) # {}]
  BY DEF ToolTouches
<1>2. \/ file = NONE
      \/ file \in File /\ file.kind = "foreign" /\ file.of \in Foreign /\ file # NONE
  <2>1. CASE file # NONE
    <3>1. PICK f \in Foreign : file = Theirs(f)
      BY <2>1
    <3>2. file \in File /\ file.kind = "foreign" /\ file.of \in Foreign
      BY <3>1 DEF Theirs, File
    <3> QED BY <2>1, <3>2
  <2> QED BY <2>1
<1>3. theirs'[d] = (theirs[d] \ (IF Other(hook[d]) THEN {hook[d].of} ELSE {}))
                     \cup (IF file = NONE THEN {} ELSE {file.of})
      /\ theirs' \in [Dir -> SUBSET Foreign]
      /\ \A e \in Dir \ {d} : theirs'[e] = theirs[e]
  BY <1>2 DEF ToolTouches, Other, TypeInv
<1>4. TypeInv'
  BY <1>1, <1>2, <1>3 DEF TypeInv
<1>5. ASSUME NEW e \in Dir PROVE DirInv(e)'
  <2>1. CASE e = d
    <3> SUFFICES ASSUME ~raced'[d] PROVE DirInv(d)'
      BY <2>1 DEF DirInv
    <3>1. ~raced[d] /\ AtWork(d) = {}
      BY <1>1 DEF TypeInv
    <3>2. Alone(d)' /\ \A q \in Installer : StillSo(q, d)'
      BY <1>1, <3>1 DEF Alone, StillSo, Working, AtWork
    <3>3. theirs'[d] \subseteq Held(d)'
      <4> SUFFICES ASSUME NEW h \in theirs'[d] PROVE h \in Held(d)'
        OBVIOUS
      <4>1. hook'[d] = file
        BY <1>1 DEF TypeInv
      <4>2. CASE file # NONE /\ h = file.of
        BY <1>2, <4>1, <4>2 DEF Held, Other
      <4>3. CASE h \in theirs[d] /\ ~(Other(hook[d]) /\ h = hook[d].of)
        <5>1. Other(backup[d]) /\ h = backup[d].of
          BY <3>1, <4>3 DEF DirInv, Held
        <5> QED BY <1>1, <5>1 DEF Held, Other
      <4> QED BY <1>3, <4>2, <4>3
    <3> QED BY <3>2, <3>3 DEF DirInv
  <2>2. CASE e # d
    BY <1>1, <1>3, <2>2 DEF TypeInv, DirInv, Held, Alone, StillSo, Working
  <2> QED BY <2>1, <2>2
<1> QED BY <1>4, <1>5

(* Nothing that happens to the profile or the unit touches a hook.         *)
LEMMA HomeKeeps ==
  ASSUME IInv, NextHome \/ UNCHANGED wireVars
  PROVE  IInv'
<1>1. UNCHANGED <<hook, backup, pc, theirs, raced>>
  BY DEF NextHome, InstallShellHook, InstallSystemdUnit, Uninstall, UserAdds, UserRemoves,
         gitVars, wireVars
<1> QED BY <1>1 DEF IInv, TypeInv, DirInv, Held, Alone, StillSo, Working

LEMMA NextIInv == IInv /\ [WireNext]_wireVars => IInv'
<1> SUFFICES ASSUME IInv, [WireNext]_wireVars PROVE IInv'
  OBVIOUS
<1>1. ASSUME NEW p \in Installer, NEW t \in Tree, NEW v \in Version, Look(p, t, v) PROVE IInv'
  BY <1>1, LookKeeps
<1>2. ASSUME NEW p \in Installer, Move(p) PROVE IInv'
  BY <1>2, MoveKeeps
<1>3. ASSUME NEW p \in Installer, Write(p) PROVE IInv'
  BY <1>3, WriteKeeps
<1>4. ASSUME NEW p \in Installer, SetPermissions(p) PROVE IInv'
  BY <1>4, SetPermissionsKeeps
<1>5. ASSUME NEW p \in Installer, Die(p) PROVE IInv'
  BY <1>5, DieKeeps
<1>6. ASSUME NEW d \in Dir, NEW file \in {Theirs(f) : f \in Foreign} \cup {NONE},
             ToolTouches(d, file)
      PROVE  IInv'
  BY <1>6, ToolKeeps
<1>7. CASE NextHome \/ UNCHANGED wireVars
  BY <1>7, HomeKeeps
<1> QED BY <1>1, <1>2, <1>3, <1>4, <1>5, <1>6, <1>7 DEF WireNext, NextGit

-----------------------------------------------------------------------------

(* However often installers run and wherever they are killed, a hook other *)
(* people left is where git finds it or where ours calls it, unless two    *)
(* were at work on it at the same time.                                    *)
THEOREM TheirsKept == WireSpec => []TheirsIsKept
<1>1. IInv => TheirsIsKept
  BY DEF IInv, DirInv, Held, Other, TheirsIsKept
<1> QED BY <1>1, InitIInv, NextIInv, PTL DEF WireSpec
-----------------------------------------------------------------------------
(* An install that has run to its end works.                               *)

OursThere(d) == hook[d] # NONE /\ hook[d].kind = "ours"

(* What is moved aside is other people's, and what an installer that has   *)
(* written makes executable is its own hook.                               *)
Installed(d) ==
  ~raced[d] =>
    /\ backup[d] = NONE \/ backup[d].kind = "foreign"
    /\ whole[d] => OursThere(d) /\ hook[d].exec
    /\ \A p \in Installer : Working(p, d) => /\ pc[p].at = "move" => Other(hook[d])
                                             /\ pc[p].at = "chmod" => OursThere(d)

WorksInv == whole \in [Dir -> BOOLEAN] /\ \A d \in Dir : Installed(d)

LEMMA InitWorks == WireInit => WorksInv
BY DEF WireInit, WorksInv, Installed, Working, Idle

LEMMA ElsewhereWorks ==
  ASSUME NEW d \in Dir, NEW e \in Dir, d # e, NEW p \in Installer, Installed(e),
         hook'[e] = hook[e], backup'[e] = backup[e], whole'[e] = whole[e], raced'[e] = raced[e],
         \A q \in Installer \ {p} : pc'[q] = pc[q],
         pc'[p].at = "idle" \/ pc'[p].dir = d
  PROVE  Installed(e)'
BY DEF Installed, OursThere, Working

LEMMA LookWorks ==
  ASSUME IInv, WorksInv, NEW p \in Installer, NEW t \in Tree, NEW v \in Version, Look(p, t, v)
  PROVE  WorksInv'
<1> USE DEF WorksInv
<1>0. TypeInv
  BY DEF IInv
<1>1. PICK d \in Dir : d = HooksDir(t)
  BY DEF Dir
<1> DEFINE foreign == hook[d] # NONE /\ ~IsContextdHook(hook[d])
<1>2. hook' = hook /\ backup' = backup /\ whole' = whole /\ pc[p].at = "idle"
  BY DEF Look
<1>3. CASE foreign /\ backup[d] # NONE
  BY <1>1, <1>2, <1>3 DEF Look, Installed, OursThere, Working
<1>4. CASE ~(foreign /\ backup[d] # NONE)
  <2>1. /\ pc' = [pc EXCEPT ![p] = [at |-> IF foreign THEN "move" ELSE "write",
                                    dir |-> d, version |-> v]]
        /\ raced' = [raced EXCEPT ![d] = @ \/ AtWork(d) # {}]
    BY <1>1, <1>4 DEF Look
  <2>2. ASSUME NEW e \in Dir PROVE Installed(e)'
    <3>1. CASE e = d
      <4> SUFFICES ASSUME ~raced'[d] PROVE Installed(d)'
        BY <3>1 DEF Installed
      <4>1. ~raced[d] /\ AtWork(d) = {}
        BY <1>0, <1>1, <2>1 DEF TypeInv
      <4>2. foreign => Other(hook[d])
        BY <1>0 DEF IsContextdHook, Other, TypeInv, File
      <4>3. \A q \in Installer : q # p => ~Working(q, d)'
        BY <1>0, <2>1, <4>1 DEF Working, AtWork, TypeInv
      <4>4. pc'[p].at # "chmod" /\ (pc'[p].at = "move" => foreign)
        BY <1>0, <2>1 DEF TypeInv
      <4> QED BY <1>2, <4>1, <4>2, <4>3, <4>4 DEF Installed, OursThere, Other
    <3>2. CASE e # d
      <4>1. raced'[e] = raced[e] /\ pc'[p].dir = d /\ \A q \in Installer \ {p} : pc'[q] = pc[q]
        BY <1>0, <2>1, <3>2 DEF TypeInv
      <4> QED BY <1>1, <1>2, <3>2, <4>1, ElsewhereWorks
    <3> QED BY <3>1, <3>2
  <2> QED BY <1>2, <2>2
<1> QED BY <1>3, <1>4

(* Move, Write and SetPermissions change one directory only.               *)
LEMMA StepWorks ==
  ASSUME IInv, WorksInv, NEW p \in Installer, Move(p) \/ Write(p) \/ SetPermissions(p)
  PROVE  WorksInv'
<1> USE DEF WorksInv
<1>0. TypeInv
  BY DEF IInv
<1>1. PICK d \in Dir : d = pc[p].dir
  BY <1>0 DEF Move, Write, SetPermissions, TypeInv
<1>2. raced' = raced
  BY DEF Move, Write, SetPermissions
<1>3. /\ \A e \in Dir \ {d} : hook'[e] = hook[e] /\ backup'[e] = backup[e] /\ whole'[e] = whole[e]
      /\ \A q \in Installer \ {p} : pc'[q] = pc[q]
      /\ pc'[p].at = "idle" \/ pc'[p].dir = d
      /\ whole' \in [Dir -> BOOLEAN]
  <2>1. CASE Move(p)
    <3>1. CASE hook[d] = NONE
      BY <1>0, <1>1, <2>1, <3>1 DEF Move, Idle, TypeInv
    <3>2. CASE hook[d] # NONE
      <4>1. /\ backup' = [backup EXCEPT ![d] = hook[d]] /\ hook' = [hook EXCEPT ![d] = NONE]
            /\ whole' = [whole EXCEPT ![d] = FALSE] /\ pc' = [pc EXCEPT ![p].at = "write"]
        BY <1>1, <2>1, <3>2 DEF Move, Goto
      <4> QED BY <1>0, <1>1, <4>1 DEF TypeInv
    <3> QED BY <3>1, <3>2
  <2>2. CASE Write(p)
    BY <1>0, <1>1, <2>2 DEF Write, Goto, Idle, TypeInv
  <2>3. CASE SetPermissions(p)
    BY <1>0, <1>1, <2>3 DEF SetPermissions, Idle, TypeInv
  <2> QED BY <2>1, <2>2, <2>3
<1>4. ASSUME NEW e \in Dir, e # d PROVE Installed(e)'
  BY <1>1, <1>2, <1>3, <1>4, ElsewhereWorks
<1>5. Installed(d)'
  <2> SUFFICES ASSUME ~raced[d] PROVE Installed(d)'
    BY <1>2 DEF Installed
  <2>1. /\ Alone(d) /\ StillSo(p, d) /\ Working(p, d)
        /\ backup[d] = NONE \/ backup[d].kind = "foreign"
        /\ pc[p].at = "move" => Other(hook[d])
        /\ pc[p].at = "chmod" => OursThere(d)
    BY <1>1 DEF IInv, DirInv, Installed, Working, Move, Write, SetPermissions
  <2>2. \A q \in Installer : q # p => ~Working(q, d)'
    BY <1>3, <2>1 DEF Alone, Working
  <2>3. CASE Move(p)
    <3>1. Other(hook[d])
      BY <2>1, <2>3 DEF Move
    <3>2. /\ backup'[d] = hook[d] /\ whole'[d] = FALSE /\ pc'[p].at = "write"
      BY <1>0, <1>1, <2>3, <3>1 DEF Move, Goto, TypeInv, Other
    <3> QED BY <2>2, <3>1, <3>2 DEF Installed, Other
  <2>4. CASE Write(p)
    <3>1. hook'[d].kind = "ours" /\ hook'[d] \in File
      BY <1>0, <1>1, <2>4 DEF Write, TypeInv, Ours, File
    <3>2. hook'[d] # NONE
      BY <3>1, WiringAssumption
    <3>3. backup' = backup /\ whole'[d] = FALSE /\ pc'[p].at = "chmod"
      BY <1>0, <1>1, <2>4 DEF Write, Goto, TypeInv
    <3> QED BY <2>1, <2>2, <3>1, <3>2, <3>3 DEF Installed, OursThere
  <2>5. CASE SetPermissions(p)
    <3>1. hook[d] # NONE /\ hook[d].kind = "ours" /\ hook[d] \in File
      BY <1>0, <1>1, <2>1, <2>5 DEF SetPermissions, OursThere, TypeInv
    <3>2. hook'[d] = [hook[d] EXCEPT !.exec = TRUE]
      BY <1>0, <1>1, <2>5, <3>1 DEF SetPermissions, TypeInv
    <3>3. hook'[d] \in File /\ hook'[d].kind = "ours" /\ hook'[d].exec
      BY <3>1, <3>2 DEF File
    <3>4. hook'[d] # NONE
      BY <3>3, WiringAssumption
    <3>5. backup' = backup /\ pc'[p].at = "idle"
      BY <1>0, <2>5 DEF SetPermissions, TypeInv, Idle
    <3> QED BY <2>1, <2>2, <3>3, <3>4, <3>5 DEF Installed, OursThere
  <2> QED BY <2>3, <2>4, <2>5
<1> QED BY <1>3, <1>4, <1>5

LEMMA ToolWorks ==
  ASSUME IInv, WorksInv, NEW d \in Dir, NEW file, ToolTouches(d, file)
  PROVE  WorksInv'
<1> USE DEF WorksInv
<1>1. /\ pc' = pc /\ backup' = backup
      /\ raced' = [raced EXCEPT ![d] = @ \/ AtWork(d) # {}]
      /\ whole' = [whole EXCEPT ![d] = FALSE]
      /\ TypeInv
      /\ \A e \in Dir \ {d} : hook'[e] = hook[e]
  BY DEF ToolTouches, IInv, TypeInv
<1>2. ASSUME NEW e \in Dir, e # d PROVE Installed(e)'
  BY <1>1, <1>2 DEF TypeInv, Installed, OursThere, Working, Other
<1>3. Installed(d)'
  <2> SUFFICES ASSUME ~raced'[d] PROVE Installed(d)'
    BY DEF Installed
  <2>1. ~raced[d] /\ AtWork(d) = {}
    BY <1>1 DEF TypeInv
  <2>2. \A q \in Installer : ~Working(q, d)'
    BY <1>1, <2>1 DEF Working, AtWork
  <2> QED BY <1>1, <2>1, <2>2 DEF Installed
<1> QED BY <1>1, <1>2, <1>3

LEMMA NextWorks == IInv /\ WorksInv /\ [WireNext]_wireVars => WorksInv'
<1> SUFFICES ASSUME IInv, WorksInv, [WireNext]_wireVars PROVE WorksInv'
  OBVIOUS
<1>1. ASSUME NEW p \in Installer, NEW t \in Tree, NEW v \in Version, Look(p, t, v)
      PROVE  WorksInv'
  BY <1>1, LookWorks
<1>2. ASSUME NEW p \in Installer, Move(p) \/ Write(p) \/ SetPermissions(p) PROVE WorksInv'
  BY <1>2, StepWorks
<1>3. ASSUME NEW p \in Installer, Die(p) PROVE WorksInv'
  BY <1>3 DEF Die, Idle, IInv, TypeInv, WorksInv, Installed, OursThere, Working
<1>4. ASSUME NEW d \in Dir, NEW file, ToolTouches(d, file) PROVE WorksInv'
  BY <1>4, ToolWorks
<1>5. CASE NextHome \/ UNCHANGED wireVars
  <2>1. UNCHANGED <<hook, backup, pc, raced, whole>>
    BY <1>5 DEF NextHome, InstallShellHook, InstallSystemdUnit, Uninstall, UserAdds, UserRemoves,
                gitVars, wireVars
  <2> QED BY <2>1 DEF WorksInv, Installed, OursThere, Working, Other
<1> QED BY <1>1, <1>2, <1>3, <1>4, <1>5 DEF WireNext, NextGit

(* git_hooks_dir finds the directory that git looks in, unless only the    *)
(* user or the system says where that is.                                  *)
LEMMA LooksWhereGitDoes ==
  ASSUME NEW t \in Tree, SetsHooksPath(t)
  PROVE  GitLooksIn(t) = HooksDir(t)
BY DEF GitLooksIn, HooksDir, ReadCoreHooksPath, SetsHooksPath

(* Ours runs other people's hook, ends as it ends, and sends one event or, *)
(* for a checkout of files or after a failure, none.                       *)
LEMMA OursHandsOn ==
  ASSUME NEW file, NEW prior, NEW op, NEW failing,
         file # NONE, file.exec, file.kind = "ours",
         prior = NONE \/ prior.kind = "foreign"
  PROVE  LET ran  == Ran(file, prior, op, failing)
             runs == IF prior = NONE THEN {} ELSE {prior.of}
         IN  /\ ran.runs = runs
             /\ ran.fails <=> runs \cap failing # {}
             /\ ran.sends = IF ran.fails \/ op = "restore" THEN 0 ELSE 1
<1> DEFINE first == RanPrior(prior, failing)
           runs  == IF prior = NONE THEN {} ELSE {prior.of}
           ran   == Ran(file, prior, op, failing)
<1>1. first.runs = runs /\ first.sends = 0 /\ (first.fails <=> runs \cap failing # {})
  <2>1. CASE prior = NONE
    BY <2>1 DEF RanPrior, Silent
  <2>2. CASE prior # NONE
    <3>1. {prior.of} \cap failing # {} <=> prior.of \in failing
      OBVIOUS
    <3> QED BY <2>2, <3>1 DEF RanPrior
  <2> QED BY <2>1, <2>2
<1>2. CASE first.fails \/ op = "restore"
  <2>1. ran = first
    BY <1>2 DEF Ran
  <2> QED BY <1>1, <1>2, <2>1
<1>3. CASE ~(first.fails \/ op = "restore")
  <2>1. ran = [runs |-> first.runs, sends |-> first.sends + 1, fails |-> FALSE]
    BY <1>3 DEF Ran
  <2> QED BY <1>1, <1>3, <2>1
<1> QED BY <1>2, <1>3

(* In every tree whose hooks were installed to the end, and not by two at  *)
(* once, and whose hooks path no other configuration sets: a git operation *)
(* runs other people's hook, fails exactly if that does, and sends one     *)
(* event unless it failed or was a checkout of files.                      *)
THEOREM InstalledHooksWork == WireSpec => []InstalledHookWorks
<1>1. ASSUME IInv, WorksInv, NEW t \in Tree, whole[HooksDir(t)], ~raced[HooksDir(t)],
             SetsHooksPath(t), NEW op \in GitOp, NEW failing \in SUBSET Foreign
      PROVE  Heard(t, op, failing)
  <2>1. PICK d \in Dir : d = HooksDir(t) /\ d = GitLooksIn(t)
    BY <1>1, LooksWhereGitDoes DEF Dir
  <2>2. /\ OursThere(d) /\ hook[d].exec
        /\ backup[d] = NONE \/ backup[d].kind = "foreign"
        /\ theirs[d] \subseteq Held(d)
    BY <1>1, <2>1 DEF IInv, DirInv, WorksInv, Installed
  <2> DEFINE ran  == GitRuns(t, op, failing)
             runs == IF backup[d] = NONE THEN {} ELSE {backup[d].of}
  <2>3. ran = Ran(hook[d], backup[d], op, failing)
    BY <2>1 DEF GitRuns
  <2>4. /\ ran.runs = runs
        /\ ran.fails <=> runs \cap failing # {}
        /\ ran.sends = IF ran.fails \/ op = "restore" THEN 0 ELSE 1
    BY <2>2, <2>3, OursHandsOn DEF OursThere
  <2>5. Held(d) \subseteq runs
    BY <2>2 DEF Held, Other, OursThere
  <2> QED BY <2>1, <2>2, <2>4, <2>5 DEF Heard
<1>2. IInv /\ WorksInv => InstalledHookWorks
  BY <1>1 DEF InstalledHookWorks
<1> QED BY <1>2, InitIInv, NextIInv, InitWorks, NextWorks, PTL DEF WireSpec
-----------------------------------------------------------------------------
(* The profile.  While the markers are left alone, it is the user's lines, *)
(* or those around one block.                                              *)

Line == UserLine \cup Version \cup {BEGIN_MARKER, END_MARKER}

Plain(s) == \A k \in 1..Len(s) : s[k] \in UserLine

Around(s, i, j) ==
  /\ i \in 1..Len(s) /\ j \in 1..Len(s) /\ i < j
  /\ s[i] = BEGIN_MARKER /\ s[j] = END_MARKER
  /\ \A k \in 1..Len(s) : /\ k < i \/ k > j => s[k] \in UserLine
                          /\ i < k /\ k < j => s[k] \in Version

Tidy(s) == s \in Seq(Line) /\ (Plain(s) \/ \E i, j : Around(s, i, j))

ProfileInv == ~spoiled => Tidy(profile)

LEMMA LineSorts ==
  /\ BEGIN_MARKER # END_MARKER
  /\ \A l \in UserLine : l # BEGIN_MARKER /\ l # END_MARKER /\ l \in Line
  /\ \A v \in Version : v # BEGIN_MARKER /\ v # END_MARKER /\ v \notin UserLine /\ v \in Line
  /\ BEGIN_MARKER \notin UserLine /\ END_MARKER \notin UserLine
  /\ BEGIN_MARKER \in Line /\ END_MARKER \in Line
<1>1. BEGIN_MARKER # END_MARKER
  BY DEF BEGIN_MARKER, END_MARKER
<1> QED BY <1>1, MarkersAssumption DEF Line

LEMMA FirstIs ==
  ASSUME NEW s, NEW mark, NEW from, NEW k \in from..Len(s),
         \A m \in from..Len(s) : s[m] = mark <=> m = k
  PROVE  FirstOf(s, mark, from) = k
<1> DEFINE marked == {m \in from..Len(s) : s[m] = mark}
<1>1. marked = {k}
  OBVIOUS
<1> HIDE DEF marked
<1>2. (CHOOSE m \in marked : \A n \in marked : m <= n) = k
  <2>1. k <= k
    OBVIOUS
  <2>2. \A n \in marked : k <= n
    BY <1>1, <2>1
  <2> QED BY <1>1, <2>2
<1>3. marked # {}
  BY <1>1
<1> QED BY <1>2, <1>3 DEF FirstOf, marked

(* find_block finds the block, and nothing where there is none.            *)
LEMMA FindNoBlock ==
  ASSUME NEW s \in Seq(Line), Plain(s)
  PROVE  FindBlock(s) = NONE
<1>1. {k \in 1..Len(s) : s[k] = BEGIN_MARKER} = {}
  BY LineSorts DEF Plain
<1>2. FirstOf(s, BEGIN_MARKER, 1) = 0
  BY <1>1 DEF FirstOf
<1> QED BY <1>2 DEF FindBlock

LEMMA FindTheBlock ==
  ASSUME NEW s \in Seq(Line), NEW i, NEW j, Around(s, i, j)
  PROVE  FindBlock(s) = <<i, j>>
<1>1. Len(s) \in Nat /\ i \in 1..Len(s) /\ j \in 1..Len(s) /\ i < j
  BY DEF Around
<1>2. ASSUME NEW m \in 1..Len(s) PROVE s[m] = BEGIN_MARKER <=> m = i
  <2>1. m = i \/ m = j \/ m < i \/ m > j \/ (i < m /\ m < j)
    BY <1>1
  <2> QED BY <1>1, <2>1, LineSorts DEF Around
<1>3. FirstOf(s, BEGIN_MARKER, 1) = i
  <2>1. ASSUME NEW from, from = 1 PROVE FirstOf(s, BEGIN_MARKER, from) = i
    <3>1. i \in from..Len(s) /\ \A m \in from..Len(s) : s[m] = BEGIN_MARKER <=> m = i
      BY <1>1, <1>2, <2>1
    <3> QED BY <3>1, FirstIs
  <2> QED BY <2>1
<1>4. ASSUME NEW m \in i..Len(s) PROVE s[m] = END_MARKER <=> m = j
  <2>1. m \in 1..Len(s)
    BY <1>1
  <2>2. m = i \/ m = j \/ m > j \/ (i < m /\ m < j)
    BY <1>1
  <2> QED BY <1>1, <2>1, <2>2, LineSorts DEF Around
<1>5. FirstOf(s, END_MARKER, i) = j
  <2>1. j \in i..Len(s)
    BY <1>1
  <2> QED BY <1>4, <2>1, FirstIs
<1>6. i # 0 /\ j # 0
  BY <1>1
<1> QED BY <1>3, <1>5, <1>6 DEF FindBlock

-----------------------------------------------------------------------------

(* Of three parts whose middle is not the user's, the outer two are.       *)
LEMMA SiftedAbout ==
  ASSUME NEW a \in Seq(Line), NEW b \in Seq(Line), NEW c \in Seq(Line),
         \A k \in 1..Len(b) : b[k] \notin UserLine
  PROVE  Sifted((a \o b) \o c, UserLine) = Sifted(a, UserLine) \o Sifted(c, UserLine)
<1> DEFINE ab == a \o b
<1>1. ab \in Seq(Line)
  BY ConcatProperties
<1>2. Sifted(b, UserLine) = <<>>
  BY SiftedNone
<1>3. Sifted(a, UserLine) \in Seq(Line)
  BY SiftedLeaves
<1>4. Sifted(a, UserLine) \o <<>> = Sifted(a, UserLine)
  BY <1>3, ConcatEmptySeq
<1>5. Sifted(ab, UserLine) = Sifted(a, UserLine) \o Sifted(b, UserLine)
  BY SiftedConcat
<1>6. Sifted(ab \o c, UserLine) = Sifted(ab, UserLine) \o Sifted(c, UserLine)
  <2> HIDE DEF ab
  <2> QED BY <1>1, SiftedConcat
<1>7. Sifted(ab \o c, UserLine) = Sifted(a, UserLine) \o Sifted(c, UserLine)
  <2> HIDE DEF ab
  <2> QED BY <1>2, <1>4, <1>5, <1>6
<1> QED BY <1>7

(* A part of a sequence.                                                   *)
LEMMA PartOf ==
  ASSUME NEW S, NEW s \in Seq(S), NEW m, NEW n, m \in 1..(Len(s) + 1), n \in (m - 1)..Len(s),
         NEW t, t = SubSeq(s, m, n)
  PROVE  /\ t \in Seq(S) /\ Len(t) = n - m + 1
         /\ \A k \in 1..Len(t) : t[k] = s[m + k - 1]
<1>1. Len(s) \in Nat /\ m \in Int /\ n \in Int /\ n - m + 1 \in Nat
  OBVIOUS
<1>2. \A k \in m..n : s[k] \in S
  OBVIOUS
<1>3. t \in Seq(S) /\ Len(t) = IF m <= n THEN n - m + 1 ELSE 0
  BY <1>1, <1>2, SubSeqProperties
<1>4. \A k \in 1..(n - m + 1) : t[k] = s[m + k - 1]
  BY <1>1, <1>2, SubSeqProperties
<1>5. Len(t) = n - m + 1
  BY <1>1, <1>3
<1> QED BY <1>3, <1>4, <1>5

LEMMA AheadOf ==
  ASSUME NEW s \in Seq(Line), NEW i \in 1..Len(s), NEW block, block[1] = i
  PROVE  /\ Ahead(s, block) \in Seq(Line) /\ Len(Ahead(s, block)) = i - 1
         /\ \A k \in 1..Len(Ahead(s, block)) : Ahead(s, block)[k] = s[k]
<1>1. SUFFICES ASSUME NEW m, NEW n, m = 1, n = i - 1, NEW t, t = SubSeq(s, m, n)
               PROVE  /\ t \in Seq(Line) /\ Len(t) = i - 1
                      /\ \A k \in 1..Len(t) : t[k] = s[k]
  BY DEF Ahead
<1>2. m \in 1..(Len(s) + 1) /\ n \in (m - 1)..Len(s)
  BY <1>1
<1>3. /\ t \in Seq(Line) /\ Len(t) = n - m + 1
      /\ \A k \in 1..Len(t) : t[k] = s[m + k - 1]
  BY <1>1, <1>2, PartOf
<1>4. n - m + 1 = i - 1 /\ \A k \in 1..Len(t) : m + k - 1 = k
  BY <1>1
<1> QED BY <1>3, <1>4

LEMMA AfterOf ==
  ASSUME NEW s \in Seq(Line), NEW j \in 1..Len(s), NEW block, block[2] = j
  PROVE  /\ After(s, block) \in Seq(Line) /\ Len(After(s, block)) = Len(s) - j
         /\ \A k \in 1..Len(After(s, block)) : After(s, block)[k] = s[j + k]
<1>1. SUFFICES ASSUME NEW m, NEW n, m = j + 1, n = Len(s), NEW t, t = SubSeq(s, m, n)
               PROVE  /\ t \in Seq(Line) /\ Len(t) = Len(s) - j
                      /\ \A k \in 1..Len(t) : t[k] = s[j + k]
  BY DEF After
<1>2. m \in 1..(Len(s) + 1) /\ n \in (m - 1)..Len(s)
  BY <1>1
<1>3. /\ t \in Seq(Line) /\ Len(t) = n - m + 1
      /\ \A k \in 1..Len(t) : t[k] = s[m + k - 1]
  BY <1>1, <1>2, PartOf
<1>4. n - m + 1 = Len(s) - j /\ \A k \in 1..Len(t) : m + k - 1 = j + k
  BY <1>1
<1> QED BY <1>3, <1>4

(* What is ahead of a block, and what comes after it.                      *)
LEMMA AroundParts ==
  ASSUME NEW s \in Seq(Line), NEW i, NEW j, Around(s, i, j), NEW block, block = <<i, j>>
  PROVE  /\ Ahead(s, block) \in Seq(Line) /\ Plain(Ahead(s, block))
         /\ After(s, block) \in Seq(Line) /\ Plain(After(s, block))
         /\ Sifted(s, UserLine)
              = Sifted(Ahead(s, block), UserLine) \o Sifted(After(s, block), UserLine)
<1> DEFINE a == Ahead(s, block)
           c == After(s, block)
           n == Len(s)
           b == SubSeq(s, i, j)
<1>1. n \in Nat /\ i \in 1..n /\ j \in 1..n /\ i < j
  BY DEF Around
<1>2. a = SubSeq(s, 1, i - 1) /\ c = SubSeq(s, j + 1, n)
  BY DEF Ahead, After
<1>4. a \in Seq(Line) /\ Len(a) = i - 1 /\ \A k \in 1..Len(a) : a[k] = s[k]
  <2>1. block[1] = i
    OBVIOUS
  <2>2. i \in 1..Len(s)
    BY <1>1
  <2> QED BY <2>1, <2>2, AheadOf
<1>5. c \in Seq(Line) /\ Len(c) = n - j /\ \A k \in 1..Len(c) : c[k] = s[j + k]
  <2>1. block[2] = j
    OBVIOUS
  <2>2. j \in 1..Len(s)
    BY <1>1
  <2> QED BY <2>1, <2>2, AfterOf
<1>6. /\ b \in Seq(Line) /\ Len(b) = j - i + 1
      /\ \A k \in 1..Len(b) : b[k] = s[i + k - 1]
  <2>1. i \in 1..(n + 1) /\ j \in (i - 1)..n
    BY <1>1
  <2> HIDE DEF b
  <2> QED BY <2>1, PartOf DEF b
<1> HIDE DEF a, c
<1>7. Plain(a)
  <2>1. ASSUME NEW k \in 1..Len(a) PROVE a[k] \in UserLine
    <3>1. k \in 1..n /\ k < i /\ a[k] = s[k]
      <4>1. k \in 1..(i - 1) /\ a[k] = s[k]
        BY <1>4
      <4> QED BY <1>1, <4>1
    <3> QED BY <3>1 DEF Around
  <2> QED BY <2>1 DEF Plain
<1>8. Plain(c)
  <2>1. ASSUME NEW k \in 1..Len(c) PROVE c[k] \in UserLine
    <3>1. j + k \in 1..n /\ j + k > j /\ c[k] = s[j + k]
      <4>1. k \in 1..(n - j) /\ c[k] = s[j + k]
        BY <1>5
      <4> QED BY <1>1, <4>1
    <3> QED BY <3>1 DEF Around
  <2> QED BY <2>1 DEF Plain
<1>9. \A k \in 1..Len(b) : b[k] \notin UserLine
  <2>1. SUFFICES ASSUME NEW k \in 1..Len(b) PROVE b[k] \notin UserLine
    OBVIOUS
  <2> DEFINE m == i + k - 1
  <2>2. m \in 1..n /\ b[k] = s[m] /\ (m = i \/ m = j \/ (i < m /\ m < j))
    BY <1>1, <1>6
  <2> HIDE DEF m
  <2> QED BY <1>1, <2>2, LineSorts DEF Around
<1>10. s = (a \o b) \o c
  <2>1. a \o b = SubSeq(s, 1, j)
    <3>1. 1 \in 1..(n + 1) /\ i - 1 \in (1 - 1)..n /\ j \in (i - 1)..n /\ (i - 1) + 1 = i
      BY <1>1
    <3> QED BY <1>2, <3>1, ConcatAdjacentSubSeq
  <2>2. SubSeq(s, 1, j) \o c = SubSeq(s, 1, n)
    <3>1. 1 \in 1..(n + 1) /\ j \in (1 - 1)..n /\ n \in j..n
      BY <1>1
    <3> QED BY <1>2, <3>1, ConcatAdjacentSubSeq
  <2> QED BY <2>1, <2>2, SubSeqFull
<1> HIDE DEF b
<1>11. Sifted((a \o b) \o c, UserLine) = Sifted(a, UserLine) \o Sifted(c, UserLine)
  BY <1>4, <1>5, <1>6, <1>9, SiftedAbout
<1> QED BY <1>4, <1>5, <1>7, <1>8, <1>10, <1>11 DEF a, c

(* A block between lines of the user's makes a tidy profile.               *)
LEMMA BlockBetween ==
  ASSUME NEW a \in Seq(Line), Plain(a), NEW c \in Seq(Line), Plain(c), NEW v \in Version,
         NEW s, s = (a \o Block(v)) \o c
  PROVE  Tidy(s) /\ Sifted(s, UserLine) = Sifted(a, UserLine) \o Sifted(c, UserLine)
<1> DEFINE b == Block(v)
<1>1. /\ b \in Seq(Line) /\ Len(b) = 3
      /\ b[1] = BEGIN_MARKER /\ b[2] = v /\ b[3] = END_MARKER
  BY LineSorts DEF Block
<1> HIDE DEF b
<1>2. \A k \in 1..Len(b) : b[k] \notin UserLine
  <2>1. \A k \in 1..3 : k = 1 \/ k = 2 \/ k = 3
    OBVIOUS
  <2> QED BY <1>1, <2>1, LineSorts
<1>3. Sifted(s, UserLine) = Sifted(a, UserLine) \o Sifted(c, UserLine)
  BY <1>1, <1>2, SiftedAbout DEF b
<1> DEFINE f == a \o b
           n == Len(a)
<1>4. /\ f \in Seq(Line) /\ Len(f) = n + 3 /\ n \in Nat
      /\ \A k \in 1..n : f[k] = a[k]
      /\ \A k \in 1..3 : f[n + k] = b[k]
  <2>1. b \in Seq(Line)
    BY <1>1
  <2>2. f = a \o b
    OBVIOUS
  <2> HIDE DEF f, n
  <2>3. /\ f \in Seq(Line) /\ Len(f) = Len(a) + Len(b) /\ Len(a) \in Nat
        /\ \A k \in 1..Len(a) : f[k] = a[k]
        /\ \A k \in 1..Len(b) : f[Len(a) + k] = b[k]
    BY <2>1, <2>2, ConcatParts
  <2> QED BY <1>1, <2>3 DEF n
<1>5. s = f \o c
  BY DEF b
<1> HIDE DEF f
<1>6. /\ s \in Seq(Line) /\ Len(s) = (n + 3) + Len(c) /\ Len(c) \in Nat
      /\ \A k \in 1..(n + 3) : s[k] = f[k]
      /\ \A k \in 1..Len(c) : s[(n + 3) + k] = c[k]
  <2>1. f \in Seq(Line)
    BY <1>4
  <2>2. /\ s \in Seq(Line) /\ Len(s) = Len(f) + Len(c) /\ Len(c) \in Nat
        /\ \A k \in 1..Len(f) : s[k] = f[k]
        /\ \A k \in 1..Len(c) : s[Len(f) + k] = c[k]
    BY ONLY <1>5, <2>1, c \in Seq(Line), ConcatParts
  <2>3. Len(f) = n + 3 /\ n \in Nat
    BY <1>4
  <2> HIDE DEF n
  <2> QED BY ONLY <2>2, <2>3
<1>7. /\ s[n + 1] = BEGIN_MARKER /\ s[n + 2] = v /\ s[n + 3] = END_MARKER
      /\ \A k \in 1..n : s[k] = a[k]
  <2>1. /\ 1 \in 1..3 /\ 2 \in 1..3 /\ 3 \in 1..3
        /\ n + 1 \in 1..(n + 3) /\ n + 2 \in 1..(n + 3) /\ n + 3 \in 1..(n + 3)
        /\ \A k \in 1..n : k \in 1..(n + 3)
    BY <1>4
  <2> HIDE DEF n
  <2>2. f[n + 1] = BEGIN_MARKER /\ f[n + 2] = v /\ f[n + 3] = END_MARKER
    BY ONLY <1>1, <1>4, <2>1
  <2> QED BY ONLY <1>4, <1>6, <2>1, <2>2
<1>8. ASSUME NEW k \in 1..Len(s)
      PROVE  /\ k < n + 1 \/ k > n + 3 => s[k] \in UserLine
             /\ n + 1 < k /\ k < n + 3 => s[k] \in Version
  <2>1. CASE k < n + 1
    <3>1. k \in 1..n /\ ~(n + 1 < k)
      BY <1>4, <2>1
    <3>2. s[k] = a[k] /\ a[k] \in UserLine
      BY <1>7, <3>1 DEF Plain
    <3> QED BY <3>1, <3>2
  <2>2. CASE k > n + 3
    <3> DEFINE m == k - (n + 3)
    <3>1. m \in 1..Len(c) /\ k = (n + 3) + m /\ ~(k < n + 3)
      BY <1>4, <1>6, <2>2
    <3> HIDE DEF m
    <3>2. s[k] = c[m] /\ c[m] \in UserLine
      BY <1>6, <3>1 DEF Plain
    <3> QED BY <3>1, <3>2
  <2>3. CASE ~(k < n + 1) /\ ~(k > n + 3)
    <3>1. k \in Nat /\ (n + 1 < k /\ k < n + 3 => k = n + 2)
      BY <1>4, <2>3
    <3> QED BY <1>7, <2>3, <3>1
  <2> QED BY <2>1, <2>2, <2>3
<1>9. n + 1 \in 1..Len(s) /\ n + 3 \in 1..Len(s) /\ n + 1 < n + 3
  BY <1>4, <1>6
<1>10. Around(s, n + 1, n + 3)
  BY <1>7, <1>8, <1>9 DEF Around
<1> QED BY <1>3, <1>6, <1>10 DEF Tidy

LEMMA PlainConcat ==
  ASSUME NEW a \in Seq(Line), Plain(a), NEW c \in Seq(Line), Plain(c)
  PROVE  a \o c \in Seq(Line) /\ Plain(a \o c)
<1> DEFINE s == a \o c
<1>1. /\ s \in Seq(Line) /\ Len(s) = Len(a) + Len(c) /\ Len(a) \in Nat /\ Len(c) \in Nat
      /\ \A k \in 1..Len(a) : s[k] = a[k]
      /\ \A k \in 1..Len(c) : s[Len(a) + k] = c[k]
  BY ConcatParts
<1> HIDE DEF s
<1>2. ASSUME NEW k \in 1..Len(s) PROVE s[k] \in UserLine
  <2>1. CASE k <= Len(a)
    BY <1>1, <2>1 DEF Plain
  <2>2. CASE ~(k <= Len(a))
    <3>1. PICK m \in 1..Len(c) : k = Len(a) + m
      <4>1. k - Len(a) \in 1..Len(c) /\ k = Len(a) + (k - Len(a))
        BY <1>1, <2>2
      <4> QED BY <4>1
    <3> QED BY <1>1, <3>1 DEF Plain
  <2> QED BY <2>1, <2>2
<1> QED BY <1>1, <1>2 DEF Plain, s

-----------------------------------------------------------------------------
(* install_shell_hook and uninstall_shell_hook.                            *)

Refreshed(s, v) ==
  LET block == FindBlock(s)
  IN  IF block = NONE THEN s \o Block(v) ELSE Ahead(s, block) \o Block(v) \o After(s, block)

LEMMA InstallTidy ==
  ASSUME NEW s, Tidy(s), NEW v \in Version
  PROVE  Tidy(Refreshed(s, v)) /\ Sifted(Refreshed(s, v), UserLine) = Sifted(s, UserLine)
<1> DEFINE t == Refreshed(s, v)
           block == FindBlock(s)
<1>0. t = IF block = NONE THEN s \o Block(v) ELSE Ahead(s, block) \o Block(v) \o After(s, block)
  BY DEF Refreshed
<1> HIDE DEF t
<1>1. s \in Seq(Line)
  BY DEF Tidy
<1>2. CASE Plain(s)
  <2>1. t = s \o Block(v)
    BY <1>0, <1>1, <1>2, FindNoBlock
  <2>2. s \o Block(v) \in Seq(Line)
    BY <1>1, LineSorts, ConcatProperties DEF Block
  <2>3. t = (s \o Block(v)) \o <<>>
    BY <2>1, <2>2, ConcatEmptySeq
  <2>4. <<>> \in Seq(Line) /\ Plain(<<>>)
    BY DEF Plain
  <2>5. Tidy(t) /\ Sifted(t, UserLine) = Sifted(s, UserLine) \o Sifted(<<>>, UserLine)
    BY <1>1, <1>2, <2>3, <2>4, BlockBetween
  <2>6. Sifted(<<>>, UserLine) = <<>>
    <3>1. \A k \in 1..Len(<<>>) : <<>>[k] \notin UserLine
      OBVIOUS
    <3> QED BY <2>4, <3>1, SiftedNone
  <2>7. Sifted(s, UserLine) \in Seq(Line)
    BY <1>1, SiftedLeaves
  <2> QED BY <2>5, <2>6, <2>7, ConcatEmptySeq DEF t
<1>3. CASE \E i, j : Around(s, i, j)
  <2>1. PICK i, j : Around(s, i, j)
    BY <1>3
  <2>2. block = <<i, j>> /\ block # NONE
    <3>1. block = <<i, j>>
      BY <1>1, <2>1, FindTheBlock
    <3>2. <<i, j>> \in Nat \X Nat
      BY <2>1 DEF Around
    <3> QED BY <3>1, <3>2, MarkersAssumption
  <2> DEFINE a == Ahead(s, block)
             c == After(s, block)
  <2>3. /\ a \in Seq(Line) /\ Plain(a) /\ c \in Seq(Line) /\ Plain(c)
        /\ Sifted(s, UserLine) = Sifted(a, UserLine) \o Sifted(c, UserLine)
    <3>1. block = <<i, j>>
      BY <2>2
    <3> HIDE DEF block
    <3> QED BY <1>1, <2>1, <3>1, AroundParts
  <2>4. t = (a \o Block(v)) \o c
    BY <1>0, <2>2
  <2> HIDE DEF a, c
  <2>5. Tidy(t) /\ Sifted(t, UserLine) = Sifted(a, UserLine) \o Sifted(c, UserLine)
    <3>1. a \in Seq(Line) /\ Plain(a)
      BY <2>3
    <3>2. c \in Seq(Line) /\ Plain(c)
      BY <2>3
    <3> QED BY ONLY <3>1, <3>2, <2>4, v \in Version, BlockBetween
  <2> QED BY <2>3, <2>5 DEF t
<1> QED BY <1>2, <1>3 DEF Tidy, t

LEMMA UninstallTidy ==
  ASSUME NEW s, Tidy(s), NEW block, block = FindBlock(s), block # NONE,
         NEW t, t = WithoutBlock(s, block)
  PROVE  Tidy(t) /\ Sifted(t, UserLine) = Sifted(s, UserLine)
<1>1. s \in Seq(Line) /\ ~Plain(s)
  BY FindNoBlock DEF Tidy
<1>2. PICK i, j : Around(s, i, j)
  BY <1>1 DEF Tidy
<1>3. block = <<i, j>>
  BY <1>1, <1>2, FindTheBlock
<1> DEFINE a == Ahead(s, block)
           c == After(s, block)
<1>4. /\ a \in Seq(Line) /\ Plain(a) /\ c \in Seq(Line) /\ Plain(c)
      /\ Sifted(s, UserLine) = Sifted(a, UserLine) \o Sifted(c, UserLine)
  <2>1. s \in Seq(Line)
    BY <1>1
  <2> QED BY <1>2, <1>3, <2>1, AroundParts
<1>5. t = a \o c
  BY DEF WithoutBlock
<1> HIDE DEF a, c
<1>6. t \in Seq(Line) /\ Plain(t)
  BY <1>4, <1>5, PlainConcat
<1>7. Sifted(t, UserLine) = Sifted(a, UserLine) \o Sifted(c, UserLine)
  BY ONLY <1>4, <1>5, SiftedConcat
<1> QED BY <1>4, <1>6, <1>7 DEF Tidy
-----------------------------------------------------------------------------
(* The user's edits.                                                       *)

LEMMA AppendTidy ==
  ASSUME NEW s, Tidy(s), NEW line \in UserLine, NEW t, t = Append(s, line)
  PROVE  Tidy(t)
<1> DEFINE n == Len(s)
<1>1. s \in Seq(Line) /\ n \in Nat /\ line \in Line
  BY LineSorts DEF Tidy
<1>2. /\ t \in Seq(Line) /\ Len(t) = n + 1 /\ t[n + 1] = line
      /\ \A k \in 1..n : t[k] = s[k]
  BY <1>1, AppendProperties
<1> HIDE DEF n
<1>3. \A k \in 1..Len(t) : k \in 1..n \/ k = n + 1
  BY <1>1, <1>2
<1>4. CASE Plain(s)
  <2>1. Plain(t)
    BY <1>2, <1>3, <1>4 DEF Plain, n
  <2> QED BY <1>2, <2>1 DEF Tidy
<1>5. CASE \E i, j : Around(s, i, j)
  <2>1. PICK i, j : Around(s, i, j)
    BY <1>5
  <2>2. /\ i \in 1..n /\ j \in 1..n /\ i < j /\ s[i] = BEGIN_MARKER /\ s[j] = END_MARKER
        /\ \A k \in 1..n : /\ k < i \/ k > j => s[k] \in UserLine
                           /\ i < k /\ k < j => s[k] \in Version
    BY <2>1 DEF Around, n
  <2>3. ~(n + 1 < j)
    BY <1>1, <2>2
  <2>4. i \in 1..Len(t) /\ j \in 1..Len(t)
    BY <1>1, <1>2, <2>2
  <2>5. Around(t, i, j)
    BY <1>2, <1>3, <2>2, <2>3, <2>4 DEF Around
  <2> QED BY <1>2, <2>5 DEF Tidy
<1> QED BY <1>4, <1>5 DEF Tidy

LEMMA PrependTidy ==
  ASSUME NEW s, Tidy(s), NEW line \in UserLine, NEW t, t = <<line>> \o s
  PROVE  Tidy(t)
<1> DEFINE n == Len(s)
<1>1. s \in Seq(Line) /\ n \in Nat /\ line \in Line
  BY LineSorts DEF Tidy
<1>2. /\ t \in Seq(Line) /\ Len(t) = n + 1 /\ t[1] = line
      /\ \A k \in 1..n : t[k + 1] = s[k]
  <2> DEFINE one == <<line>>
  <2>1. one \in Seq(Line) /\ Len(one) = 1 /\ one[1] = line
    BY <1>1
  <2>2. t = one \o s
    OBVIOUS
  <2> HIDE DEF one
  <2>3. one \in Seq(Line)
    BY <2>1
  <2>4. s \in Seq(Line)
    BY <1>1
  <2>5. /\ t \in Seq(Line) /\ Len(t) = Len(one) + Len(s)
        /\ \A k \in 1..Len(one) : t[k] = one[k]
        /\ \A k \in 1..Len(s) : t[Len(one) + k] = s[k]
    BY <2>2, <2>3, <2>4, ConcatParts
  <2>6. \A k \in 1..n : Len(one) + k = k + 1
    BY <1>1, <2>1
  <2> QED BY <1>1, <2>1, <2>5, <2>6
<1> HIDE DEF n
<1>3. \A k \in 1..Len(t) : k = 1 \/ (\E m \in 1..n : k = m + 1)
  <2>1. SUFFICES ASSUME NEW k \in 1..Len(t), k # 1 PROVE \E m \in 1..n : k = m + 1
    OBVIOUS
  <2>2. k - 1 \in 1..n /\ k = (k - 1) + 1
    BY <1>1, <1>2, <2>1
  <2> QED BY <2>2
<1>4. CASE Plain(s)
  <2>1. Plain(t)
    BY <1>2, <1>3, <1>4 DEF Plain, n
  <2> QED BY <1>2, <2>1 DEF Tidy
<1>5. CASE \E i, j : Around(s, i, j)
  <2>1. PICK i, j : Around(s, i, j)
    BY <1>5
  <2>2. /\ i \in 1..n /\ j \in 1..n /\ i < j /\ s[i] = BEGIN_MARKER /\ s[j] = END_MARKER
        /\ \A k \in 1..n : /\ k < i \/ k > j => s[k] \in UserLine
                           /\ i < k /\ k < j => s[k] \in Version
    BY <2>1 DEF Around, n
  <2>3. i + 1 \in 1..Len(t) /\ j + 1 \in 1..Len(t) /\ i + 1 < j + 1
    BY <1>1, <1>2, <2>2
  <2>4. ASSUME NEW k \in 1..Len(t)
        PROVE  /\ k < i + 1 \/ k > j + 1 => t[k] \in UserLine
               /\ i + 1 < k /\ k < j + 1 => t[k] \in Version
    <3>1. CASE k = 1
      BY <1>2, <2>2, <3>1
    <3>2. CASE \E m \in 1..n : k = m + 1
      <4>1. PICK m \in 1..n : k = m + 1
        BY <3>2
      <4>2. /\ k < i + 1 => m < i
            /\ k > j + 1 => m > j
            /\ i + 1 < k /\ k < j + 1 => i < m /\ m < j
        BY <2>2, <4>1
      <4> QED BY <1>2, <2>2, <4>1, <4>2
    <3> QED BY <1>3, <3>1, <3>2
  <2>5. Around(t, i + 1, j + 1)
    BY <1>2, <2>2, <2>3, <2>4 DEF Around
  <2> QED BY <1>2, <2>5 DEF Tidy
<1> QED BY <1>4, <1>5 DEF Tidy

(* What is left of s when line p is gone.                                  *)
Without(s, p, t) ==
  /\ t \in Seq(Line) /\ Len(t) = Len(s) - 1
  /\ \A k \in 1..(Len(s) - 1) : /\ k < p => t[k] = s[k]
                                /\ k >= p => t[k] = s[k + 1]

LEMMA Joined ==
  ASSUME NEW s \in Seq(Line), NEW p \in 1..Len(s), NEW a \in Seq(Line), NEW c \in Seq(Line),
         Len(a) = p - 1, \A k \in 1..Len(a) : a[k] = s[k],
         Len(c) = Len(s) - p, \A k \in 1..Len(c) : c[k] = s[p + k],
         NEW t \in Seq(Line), Len(t) = Len(a) + Len(c),
         \A k \in 1..Len(a) : t[k] = a[k],
         \A k \in 1..Len(c) : t[Len(a) + k] = c[k]
  PROVE  Without(s, p, t)
<1> DEFINE n == Len(s)
<1>1. n \in Nat /\ p \in 1..n /\ Len(a) = p - 1 /\ Len(c) = n - p
  OBVIOUS
<1> HIDE DEF n
<1>2. Len(t) = n - 1
  BY <1>1
<1>3. \A k \in 1..(n - 1) : k < p => t[k] = s[k]
  BY <1>1
<1>4. \A k \in 1..(n - 1) : k >= p => t[k] = s[k + 1]
  <2>1. SUFFICES ASSUME NEW k \in 1..(n - 1), k >= p PROVE t[k] = s[k + 1]
    OBVIOUS
  <2>2. PICK m \in 1..Len(c) : k = Len(a) + m
    <3>1. k - (p - 1) \in 1..(n - p) /\ k = (p - 1) + (k - (p - 1))
      BY <1>1, <2>1
    <3> QED BY <1>1, <3>1
  <2>3. t[k] = c[m] /\ c[m] = s[p + m]
    BY <2>2
  <2>4. p + m = k + 1
    BY <1>1, <2>2
  <2> QED BY <2>3, <2>4
<1> QED BY <1>2, <1>3, <1>4 DEF Without, n

(* Any line but a marker may go.                                           *)
LEMMA WithoutTidy ==
  ASSUME NEW s, Tidy(s), NEW p \in 1..Len(s), s[p] \notin {BEGIN_MARKER, END_MARKER},
         NEW t, Without(s, p, t)
  PROVE  Tidy(t)
<1> DEFINE n == Len(s)
<1>1. s \in Seq(Line)
  BY DEF Tidy
<1>2. n \in Nat /\ p \in 1..n
  BY <1>1
<1>3. t \in Seq(Line) /\ Len(t) = n - 1
  BY DEF Without
<1>4. \A k \in 1..(n - 1) : k < p => t[k] = s[k]
  BY DEF Without
<1>5. \A k \in 1..(n - 1) : k >= p => t[k] = s[k + 1]
  BY DEF Without
<1> HIDE DEF n
<1>6. CASE Plain(s)
  <2>1. ASSUME NEW k \in 1..(n - 1) PROVE t[k] \in UserLine
    <3>1. k \in 1..n /\ k + 1 \in 1..n
      BY <1>2
    <3>2. t[k] = s[k] \/ t[k] = s[k + 1]
      BY <1>2, <1>4, <1>5
    <3> QED BY <1>6, <3>1, <3>2 DEF Plain, n
  <2>2. Plain(t)
    BY <1>3, <2>1 DEF Plain
  <2> QED BY <1>3, <2>2 DEF Tidy
<1>7. CASE \E i, j : Around(s, i, j)
  <2>1. PICK i, j : Around(s, i, j)
    BY <1>7
  <2>2. /\ i \in 1..n /\ j \in 1..n /\ i < j /\ s[i] = BEGIN_MARKER /\ s[j] = END_MARKER
        /\ \A k \in 1..n : /\ k < i \/ k > j => s[k] \in UserLine
                           /\ i < k /\ k < j => s[k] \in Version
        /\ p # i /\ p # j
    BY <2>1 DEF Around, n
  <2>3. ASSUME NEW x, NEW y,
               x = (IF p < i THEN i - 1 ELSE i), y = (IF p < j THEN j - 1 ELSE j)
        PROVE  Around(t, x, y)
    <3>1. x \in 1..(n - 1) /\ y \in 1..(n - 1) /\ x < y
      BY <1>2, <2>2, <2>3
    <3>2. t[x] = BEGIN_MARKER
      <4>1. CASE p < i
        <5>1. x >= p /\ x + 1 = i
          BY <1>2, <2>2, <2>3, <4>1
        <5> QED BY <1>5, <2>2, <3>1, <5>1
      <4>2. CASE ~(p < i)
        <5>1. x < p /\ x = i
          BY <1>2, <2>2, <2>3, <4>2
        <5> QED BY <1>4, <2>2, <3>1, <5>1
      <4> QED BY <4>1, <4>2
    <3>3. t[y] = END_MARKER
      <4>1. CASE p < j
        <5>1. y >= p /\ y + 1 = j
          BY <1>2, <2>2, <2>3, <4>1
        <5> QED BY <1>5, <2>2, <3>1, <5>1
      <4>2. CASE ~(p < j)
        <5>1. y < p /\ y = j
          BY <1>2, <2>2, <2>3, <4>2
        <5> QED BY <1>4, <2>2, <3>1, <5>1
      <4> QED BY <4>1, <4>2
    <3>4. ASSUME NEW k \in 1..(n - 1)
          PROVE  /\ k < x \/ k > y => t[k] \in UserLine
                 /\ x < k /\ k < y => t[k] \in Version
      <4>1. PICK m \in 1..n : t[k] = s[m] /\ m # p /\ m = (IF k < p THEN k ELSE k + 1)
        <5>1. CASE k < p
          <6>1. k \in 1..n /\ t[k] = s[k] /\ k # p
            BY <1>2, <1>4, <5>1
          <6> QED BY <5>1, <6>1
        <5>2. CASE ~(k < p)
          <6>1. k + 1 \in 1..n /\ t[k] = s[k + 1] /\ k + 1 # p
            BY <1>2, <1>5, <5>2
          <6> QED BY <5>2, <6>1
        <5> QED BY <5>1, <5>2
      <4>2. /\ k < x => m < i
            /\ k > y => m > j
            /\ x < k /\ k < y => i < m /\ m < j
        BY <1>2, <2>2, <2>3, <4>1
      <4> QED BY <2>2, <4>1, <4>2
    <3> QED BY <1>3, <3>1, <3>2, <3>3, <3>4 DEF Around
  <2> QED BY <1>3, <2>3 DEF Tidy
<1> QED BY <1>6, <1>7 DEF Tidy

LEMMA RemoveTidy ==
  ASSUME NEW s, Tidy(s), NEW p \in 1..Len(s), s[p] \notin {BEGIN_MARKER, END_MARKER},
         NEW block, block = <<p, p>>
  PROVE  Tidy(Ahead(s, block) \o After(s, block))
<1> DEFINE a == Ahead(s, block)
           c == After(s, block)
           t == a \o c
<1>1. s \in Seq(Line)
  BY DEF Tidy
<1>2. block[1] = p /\ block[2] = p
  OBVIOUS
<1>3. a \in Seq(Line) /\ Len(a) = p - 1 /\ \A k \in 1..Len(a) : a[k] = s[k]
  BY <1>1, <1>2, AheadOf
<1>4. c \in Seq(Line) /\ Len(c) = Len(s) - p /\ \A k \in 1..Len(c) : c[k] = s[p + k]
  BY <1>1, <1>2, AfterOf
<1> HIDE DEF a, c
<1>5. /\ t \in Seq(Line) /\ Len(t) = Len(a) + Len(c)
      /\ \A k \in 1..Len(a) : t[k] = a[k]
      /\ \A k \in 1..Len(c) : t[Len(a) + k] = c[k]
  <2>1. a \in Seq(Line)
    BY <1>3
  <2>2. c \in Seq(Line)
    BY <1>4
  <2>3. t = a \o c
    OBVIOUS
  <2> HIDE DEF t
  <2> QED BY <2>1, <2>2, <2>3, ConcatParts
<1> HIDE DEF t
<1>6. Without(s, p, t)
  BY <1>1, <1>3, <1>4, <1>5, Joined
<1>7. Tidy(t)
  BY <1>6, WithoutTidy
<1> QED BY <1>7 DEF t, a, c

-----------------------------------------------------------------------------

LEMMA TidyBlocks ==
  ASSUME NEW s, Tidy(s)
  PROVE  Cardinality({k \in DOMAIN s : s[k] = BEGIN_MARKER}) <= 1
<1> DEFINE marked == {k \in DOMAIN s : s[k] = BEGIN_MARKER}
<1>1. s \in Seq(Line) /\ DOMAIN s = 1..Len(s)
  BY DEF Tidy
<1>2. CASE Plain(s)
  <2>1. marked = {}
    BY <1>1, <1>2, LineSorts DEF Plain
  <2>2. Cardinality(marked) = 0
    <3> HIDE DEF marked
    <3> QED BY <2>1, FS_EmptySet
  <2> QED BY <2>2
<1>3. CASE \E i, j : Around(s, i, j)
  <2>1. PICK i, j : Around(s, i, j)
    BY <1>3
  <2>2. \A k \in 1..Len(s) : s[k] = BEGIN_MARKER => k = i
    <3>1. SUFFICES ASSUME NEW k \in 1..Len(s), s[k] = BEGIN_MARKER PROVE k = i
      OBVIOUS
    <3>2. k = i \/ k = j \/ k < i \/ k > j \/ (i < k /\ k < j)
      BY <2>1 DEF Around
    <3> QED BY <2>1, <3>1, <3>2, LineSorts DEF Around
  <2>3. marked = {i}
    BY <1>1, <2>1, <2>2 DEF Around
  <2>4. Cardinality(marked) = 1
    <3> HIDE DEF marked
    <3> QED BY <2>3, FS_Singleton
  <2> QED BY <2>4
<1> QED BY <1>2, <1>3 DEF Tidy

(* What an install or an uninstall starts from.                            *)
LEMMA ExistingTidy ==
  ASSUME Tidy(profile)
  PROVE  Tidy(Existing) /\ (IsUtf8(profile) => Existing = profile)
<1>1. Tidy(<<>>)
  BY DEF Tidy, Plain
<1> QED BY <1>1 DEF Existing

LEMMA NextProfile ==
  ASSUME ProfileInv, [WireNext]_wireVars
  PROVE  /\ ProfileInv'
         /\ ~spoiled' /\ IsUtf8(profile) => LeavesUserLines
<1> DEFINE Kept == /\ ProfileInv'
                   /\ ~spoiled' /\ IsUtf8(profile) => UserLinesOf(profile') = UserLinesOf(profile)
<1>1. ASSUME NEW v \in Version, InstallShellHook(v) PROVE Kept
  <2>1. SUFFICES ASSUME ~spoiled PROVE Kept
    BY <1>1 DEF InstallShellHook, ProfileInv
  <2>2. Tidy(Existing) /\ (IsUtf8(profile) => Existing = profile)
    BY <2>1, ExistingTidy DEF ProfileInv
  <2>3. profile' = Refreshed(Existing, v)
    BY <1>1 DEF InstallShellHook, Refreshed
  <2>4. Tidy(profile') /\ Sifted(profile', UserLine) = Sifted(Existing, UserLine)
    BY <2>2, <2>3, InstallTidy
  <2> QED BY <2>2, <2>4 DEF ProfileInv, UserLinesOf, Tidy, Plain, Around
<1>2. ASSUME Uninstall PROVE Kept
  <2>1. SUFFICES ASSUME ~spoiled PROVE Kept
    BY <1>2 DEF Uninstall, ProfileInv
  <2>2. Tidy(Existing) /\ Tidy(profile) /\ (IsUtf8(profile) => Existing = profile)
    BY <2>1, ExistingTidy DEF ProfileInv
  <2>3. CASE FindBlock(Existing) = NONE
    BY <1>2, <2>2, <2>3 DEF Uninstall, ProfileInv, UserLinesOf, Tidy, Plain, Around
  <2>4. CASE FindBlock(Existing) # NONE
    <3>1. profile' = WithoutBlock(Existing, FindBlock(Existing))
      BY <1>2, <2>4 DEF Uninstall
    <3>2. Tidy(profile') /\ Sifted(profile', UserLine) = Sifted(Existing, UserLine)
      BY <2>2, <2>4, <3>1, UninstallTidy
    <3> QED BY <2>2, <3>2 DEF ProfileInv, UserLinesOf, Tidy, Plain, Around
  <2> QED BY <2>3, <2>4
<1>3. ASSUME NEW line \in UserLine, UserAdds(line) PROVE ProfileInv'
  <2>1. SUFFICES ASSUME ~spoiled PROVE Tidy(profile')
    BY <1>3 DEF UserAdds, ProfileInv, Tidy, Plain, Around
  <2>2. Tidy(profile)
    BY <2>1 DEF ProfileInv
  <2>3. profile' = Append(profile, line) \/ profile' = <<line>> \o profile
    BY <1>3 DEF UserAdds
  <2> QED BY <2>2, <2>3, AppendTidy, PrependTidy
<1>4. ASSUME NEW k \in DOMAIN profile, UserRemoves(k) PROVE ProfileInv'
  <2>1. SUFFICES ASSUME ~spoiled, profile[k] \notin {BEGIN_MARKER, END_MARKER}
                 PROVE  Tidy(profile')
    BY <1>4 DEF UserRemoves, ProfileInv, Tidy, Plain, Around
  <2>2. Tidy(profile) /\ k \in 1..Len(profile)
    BY <2>1 DEF ProfileInv, Tidy
  <2>3. profile' = Ahead(profile, <<k, k>>) \o After(profile, <<k, k>>)
    BY <1>4 DEF UserRemoves, Ahead, After
  <2>4. Tidy(Ahead(profile, <<k, k>>) \o After(profile, <<k, k>>))
    BY <2>1, <2>2, RemoveTidy
  <2> QED BY <2>3, <2>4
<1>5. CASE NextGit \/ (\E v \in Version : InstallSystemdUnit(v)) \/ UNCHANGED wireVars
  <2>1. profile' = profile /\ spoiled' = spoiled
    BY <1>5 DEF NextGit, Look, Move, Write, SetPermissions, Die, ToolTouches, homeVars,
                InstallSystemdUnit, wireVars
  <2> QED BY <2>1 DEF ProfileInv, Tidy, Plain, Around, LeavesUserLines, UserLinesOf
<1>6. ProfileInv'
  BY <1>1, <1>2, <1>3, <1>4, <1>5 DEF WireNext, NextHome
<1>7. ~spoiled' /\ IsUtf8(profile) => LeavesUserLines
  BY <1>1, <1>2 DEF LeavesUserLines
<1> QED BY <1>6, <1>7

(* Installs for changing sockets, uninstalls and edits around the block    *)
(* leave every line of the user's, in its order, and one block at most.    *)
THEOREM ProfileStaysTheUsers == WireSpec => ProfileIsTheUsers
<1>1. WireInit => ProfileInv
  BY DEF WireInit, ProfileInv, Tidy, Plain
<1>2. ProfileInv /\ [WireNext]_wireVars => ProfileInv'
  BY NextProfile
<1>3. ProfileInv /\ [WireNext]_wireVars
        => [~spoiled' /\ IsUtf8(profile) => LeavesUserLines /\ AtMostOneBlock']_wireVars
  <2>1. SUFFICES ASSUME ProfileInv, [WireNext]_wireVars, ~spoiled', IsUtf8(profile)
                 PROVE  LeavesUserLines /\ AtMostOneBlock'
    OBVIOUS
  <2>2. ProfileInv' /\ LeavesUserLines
    BY <2>1, NextProfile
  <2>3. Tidy(profile')
    BY <2>1, <2>2 DEF ProfileInv, Tidy, Plain, Around
  <2>4. AtMostOneBlock'
    BY <2>3, TidyBlocks DEF AtMostOneBlock
  <2> QED BY <2>2, <2>4
<1> QED BY <1>1, <1>2, <1>3, PTL DEF WireSpec, ProfileIsTheUsers

-----------------------------------------------------------------------------
(* Prefixes.                                                               *)

LEMMA PrefixIs ==
  ASSUME NEW S, NEW s \in Seq(S), NEW t \in Seq(S)
  PROVE  /\ Len(s) \in Nat /\ Len(t) \in Nat
         /\ IsPrefix(s, t) <=> Len(s) <= Len(t) /\ \A k \in 1..Len(s) : s[k] = t[k]
<1>1. Len(s) \in Nat /\ Len(t) \in Nat
  OBVIOUS
<1>2. SubSeq(s, 1, Len(s)) = s
  BY SubSeqFull
<1>3. ASSUME Len(s) <= Len(t)
      PROVE  /\ SubSeq(t, 1, Len(s)) \in Seq(S) /\ Len(SubSeq(t, 1, Len(s))) = Len(s)
             /\ \A k \in 1..Len(s) : SubSeq(t, 1, Len(s))[k] = t[k]
  <2>1. \A k \in 1..Len(s) : t[k] \in S
    BY <1>1, <1>3
  <2>2. 1 \in Int /\ Len(s) \in Int
    BY <1>1
  <2>3. /\ SubSeq(t, 1, Len(s)) \in Seq(S)
        /\ Len(SubSeq(t, 1, Len(s))) = IF 1 <= Len(s) THEN Len(s) - 1 + 1 ELSE 0
        /\ \A k \in 1..(Len(s) - 1 + 1) : SubSeq(t, 1, Len(s))[k] = t[1 + k - 1]
    BY <2>1, <2>2, SubSeqProperties
  <2> QED BY <1>1, <2>3
<1>4. ASSUME IsPrefix(s, t)
      PROVE  Len(s) <= Len(t) /\ \A k \in 1..Len(s) : s[k] = t[k]
  <2>1. Len(s) <= Len(t) /\ s = SubSeq(t, 1, Len(s))
    BY <1>2, <1>4 DEF IsPrefix
  <2>2. \A k \in 1..Len(s) : SubSeq(t, 1, Len(s))[k] = t[k]
    BY <1>3, <2>1
  <2> QED BY <2>1, <2>2
<1>5. ASSUME Len(s) <= Len(t), \A k \in 1..Len(s) : s[k] = t[k]
      PROVE  IsPrefix(s, t)
  <2>1. s = SubSeq(t, 1, Len(s))
    <3> DEFINE u == SubSeq(t, 1, Len(s))
    <3>1. u \in Seq(S) /\ Len(s) = Len(u) /\ \A k \in 1..Len(s) : s[k] = u[k]
      BY <1>3, <1>5
    <3> HIDE DEF u
    <3>2. s = u
      BY <3>1, SeqEqual
    <3> QED BY <3>2 DEF u
  <2> QED BY <1>2, <1>5, <2>1 DEF IsPrefix
<1> QED BY <1>1, <1>4, <1>5

LEMMA PrefixSelf ==
  ASSUME NEW S, NEW s \in Seq(S) PROVE IsPrefix(s, s)
BY PrefixIs

LEMMA PrefixTransitive ==
  ASSUME NEW S, NEW s \in Seq(S), NEW t \in Seq(S), NEW u \in Seq(S),
         IsPrefix(s, t), IsPrefix(t, u)
  PROVE  IsPrefix(s, u)
<1>1. Len(s) \in Nat /\ Len(t) \in Nat /\ Len(u) \in Nat
  OBVIOUS
<1>2. Len(s) <= Len(t) /\ \A k \in 1..Len(s) : s[k] = t[k]
  BY PrefixIs
<1>3. Len(t) <= Len(u) /\ \A k \in 1..Len(t) : t[k] = u[k]
  BY PrefixIs
<1>4. Len(s) <= Len(u) /\ \A k \in 1..Len(s) : s[k] = u[k]
  BY <1>1, <1>2, <1>3
<1> QED BY <1>4, PrefixIs

LEMMA PrefixSame ==
  ASSUME NEW S, NEW s \in Seq(S), NEW t \in Seq(S), IsPrefix(s, t), Len(t) <= Len(s)
  PROVE  s = t
<1>1. Len(s) \in Nat /\ Len(t) \in Nat
  OBVIOUS
<1>2. Len(s) <= Len(t) /\ \A k \in 1..Len(s) : s[k] = t[k]
  BY PrefixIs
<1>3. Len(s) = Len(t)
  BY <1>1, <1>2
<1> QED BY <1>2, <1>3, SeqEqual

(* Two prefixes of one path are one below the other.                       *)
LEMMA PrefixesNest ==
  ASSUME NEW S, NEW s \in Seq(S), NEW t \in Seq(S), NEW u \in Seq(S),
         IsPrefix(s, u), IsPrefix(t, u), Len(s) <= Len(t)
  PROVE  IsPrefix(s, t)
<1>1. Len(s) \in Nat /\ Len(t) \in Nat /\ Len(u) \in Nat
  OBVIOUS
<1>2. \A k \in 1..Len(s) : s[k] = u[k]
  BY PrefixIs
<1>3. \A k \in 1..Len(t) : t[k] = u[k]
  BY PrefixIs
<1>4. \A k \in 1..Len(s) : s[k] = t[k]
  BY <1>1, <1>2, <1>3
<1> QED BY <1>4, PrefixIs

LEMMA FrontIs ==
  ASSUME NEW S, NEW s \in Seq(S), s # <<>>
  PROVE  /\ Front(s) \in Seq(S) /\ Len(Front(s)) = Len(s) - 1
         /\ IsPrefix(Front(s), s) /\ Len(s) \in Nat \ {0}
<1>1. Len(s) \in Nat \ {0}
  BY EmptySeq
<1>2. \A k \in 1..(Len(s) - 1) : s[k] \in S
  BY <1>1
<1>3. 1 \in Int /\ Len(s) - 1 \in Int
  BY <1>1
<1>4. /\ SubSeq(s, 1, Len(s) - 1) \in Seq(S)
      /\ Len(SubSeq(s, 1, Len(s) - 1)) =
           IF 1 <= Len(s) - 1 THEN (Len(s) - 1) - 1 + 1 ELSE 0
      /\ \A k \in 1..((Len(s) - 1) - 1 + 1) : SubSeq(s, 1, Len(s) - 1)[k] = s[1 + k - 1]
  BY <1>2, <1>3, SubSeqProperties
<1>5. /\ Front(s) \in Seq(S) /\ Len(Front(s)) = Len(s) - 1
      /\ \A k \in 1..Len(Front(s)) : Front(s)[k] = s[k]
  <2> DEFINE f == SubSeq(s, 1, Len(s) - 1)
  <2>1. f \in Seq(S) /\ Len(f) = (IF 1 <= Len(s) - 1 THEN (Len(s) - 1) - 1 + 1 ELSE 0)
        /\ \A k \in 1..((Len(s) - 1) - 1 + 1) : f[k] = s[1 + k - 1]
    BY <1>4
  <2>2. f = Front(s)
    BY DEF Front
  <2> HIDE DEF f
  <2> DEFINE n == Len(s)
  <2>5. n \in Nat /\ n >= 1 /\ Len(f) = IF 1 <= n - 1 THEN (n - 1) - 1 + 1 ELSE 0
    BY <1>1, <2>1
  <2> HIDE DEF n
  <2>6. Len(f) = n - 1
    BY <2>5
  <2>3. Len(f) = Len(s) - 1
    BY <2>6 DEF n
  <2>4. \A k \in 1..Len(f) : f[k] = s[k]
    BY <1>1, <2>1, <2>3
  <2> QED BY <2>1, <2>2, <2>3, <2>4
<1>6. IsPrefix(Front(s), s)
  BY <1>1, <1>5, PrefixIs
<1> QED BY <1>1, <1>5, <1>6

(* What is strictly above a path is above its parent.                      *)
LEMMA PrefixOfFront ==
  ASSUME NEW S, NEW s \in Seq(S), NEW t \in Seq(S), IsPrefix(s, t), s # t
  PROVE  t # <<>> /\ IsPrefix(s, Front(t))
<1>1. Len(s) \in Nat /\ Len(t) \in Nat /\ Len(s) <= Len(t)
  BY PrefixIs
<1>2. ~(Len(t) <= Len(s))
  BY PrefixSame
<1>3. t # <<>>
  BY <1>1, <1>2
<1>4. Front(t) \in Seq(S) /\ Len(Front(t)) = Len(t) - 1 /\ IsPrefix(Front(t), t)
  BY <1>3, FrontIs
<1>5. Len(s) <= Len(Front(t))
  BY <1>1, <1>2, <1>4
<1> QED BY <1>3, <1>4, <1>5, PrefixesNest

(* What stands for induction along a path.                                 *)
LEMMA Shortest ==
  ASSUME NEW S, NEW P, P \subseteq Seq(S), P # {}
  PROVE  \E x \in P : \A y \in P : Len(x) <= Len(y)
<1> DEFINE T == {Len(x) : x \in P}
<1>1. \A x \in P : Len(x) \in Nat
  OBVIOUS
<1>2. T \subseteq Nat /\ T # {}
  BY <1>1
<1>3. PICK n \in T : \A m \in T : n <= m
  BY <1>2, LeastNatural
<1>4. PICK x \in P : n = Len(x)
  BY <1>3
<1>5. \A y \in P : Len(y) \in T
  OBVIOUS
<1> QED BY <1>3, <1>4, <1>5

-----------------------------------------------------------------------------
(* The tree.                                                               *)

LEMMA Paths ==
  /\ \A p \in Path : p \in Seq(STRING)
  /\ Root \in Path /\ \A p \in DirPath \cup FilePath : p \in Path
  /\ \A p \in Path \ {Root} : p # <<>> /\ Front(p) \in DirPath /\ Front(p) \in Path
  /\ \A p \in DirPath : p \notin FilePath
  /\ DbPath \in FilePath
BY WatcherAssumption DEF Path

LEMMA AllUnderRoot == \A p \in Path : IsPrefix(Root, p)
<1> DEFINE Astray == {p \in Path : ~IsPrefix(Root, p)}
<1>1. SUFFICES ASSUME Astray # {} PROVE FALSE
  OBVIOUS
<1>2. Astray \subseteq Seq(STRING)
  BY Paths
<1>3. PICK p \in Astray : \A y \in Astray : Len(p) <= Len(y)
  BY <1>1, <1>2, Shortest
<1>4. p \in Path /\ ~IsPrefix(Root, p)
  BY <1>3
<1>5. p \in Path /\ p \in Seq(STRING) /\ ~IsPrefix(Root, p) /\ Root \in Seq(STRING)
  BY <1>4, Paths
<1>6. p # Root
  BY <1>5, PrefixSelf
<1>7. p # <<>> /\ Front(p) \in Path /\ Front(p) \in Seq(STRING)
  BY <1>5, <1>6, Paths
<1>8. Len(Front(p)) = Len(p) - 1 /\ IsPrefix(Front(p), p) /\ Len(p) \in Nat
  BY <1>5, <1>7, FrontIs
<1>9. Front(p) \notin Astray
  BY <1>3, <1>8
<1>10. IsPrefix(Root, Front(p))
  BY <1>7, <1>9
<1> QED BY <1>5, <1>7, <1>8, <1>10, PrefixTransitive

(* A set of directories that are each in one of the set, as those that     *)
(* exist are, holds what is above any of them.                             *)
Rooted(D) == D \subseteq DirPath /\ Root \in D /\ \A d \in D \ {Root} : Front(d) \in D

LEMMA RootedIsClosed ==
  ASSUME NEW D, Rooted(D), NEW d \in D, NEW q \in Path, IsPrefix(q, d)
  PROVE  q \in D
<1> DEFINE Low == {x \in D : IsPrefix(q, x)}
<1>1. \A x \in D : x \in Path /\ x \in Seq(STRING)
  BY Paths DEF Rooted
<1>2. Low \subseteq Seq(STRING) /\ Low # {}
  BY <1>1
<1>3. PICK x \in Low : \A y \in Low : Len(x) <= Len(y)
  BY <1>2, Shortest
<1>4. x \in D /\ IsPrefix(q, x)
  BY <1>3
<1>5. q \in Seq(STRING) /\ x \in Seq(STRING) /\ x \in D /\ IsPrefix(q, x)
  BY <1>1, <1>4, Paths
<1>6. CASE q = x
  BY <1>5, <1>6
<1>7. CASE q # x
  <2>1. x # <<>> /\ IsPrefix(q, Front(x))
    BY <1>5, <1>7, PrefixOfFront
  <2>2. x # Root
    <3>1. SUFFICES ASSUME x = Root PROVE FALSE
      OBVIOUS
    <3>2. IsPrefix(Root, q)
      BY AllUnderRoot
    <3>3. Len(x) <= Len(q)
      BY <1>5, <3>1, <3>2, PrefixIs
    <3> QED BY <1>5, <1>7, <3>3, PrefixSame
  <2>3. Front(x) \in Low
    BY <1>5, <2>1, <2>2 DEF Rooted
  <2>4. Len(Front(x)) = Len(x) - 1 /\ Len(x) \in Nat
    BY <1>5, <2>1, FrontIs
  <2> QED BY <1>3, <2>3, <2>4
<1> QED BY <1>6, <1>7
-----------------------------------------------------------------------------
(* The state.                                                              *)

Kind == {"Create", "Modify", "Remove", "From", "To", "Both"}
Reported == [kind : Kind, paths : Seq(Path)]

Stage == {"list", "attach", "run", "watch", "publish", "dead"}

TreeInv ==
  /\ Rooted(dirs) /\ files \subseteq FilePath
  /\ watched \subseteq DirPath /\ pending \subseteq DirPath /\ missed \subseteq DirPath
  /\ seen \subseteq Path /\ dirty \subseteq Path
  /\ queue \in Seq(Reported)
  /\ mode \in {"native", "poll"} /\ at \in Stage
  /\ mode = "native" => dirty = {}
  /\ mode = "poll" => at \in {"run", "watch", "publish"}
  /\ at \in {"watch", "publish"} => queue # <<>>
  /\ at \in {"list", "run", "publish"} => pending = {}

LEMMA ReportIs ==
  ASSUME NEW kind \in Kind, NEW paths \in Seq(Path)
  PROVE  /\ Event(kind, paths) \in Reported
         /\ Event(kind, paths).kind = kind /\ Event(kind, paths).paths = paths
         /\ Report(Event(kind, paths)) \in Seq(Reported)
         /\ Front(paths[1]) \in watched =>
              /\ Len(Report(Event(kind, paths))) = 1
              /\ Report(Event(kind, paths))[1] = Event(kind, paths)
<1>1. Event(kind, paths) \in Reported
  BY DEF Event, Reported
<1>2. Event(kind, paths).kind = kind /\ Event(kind, paths).paths = paths
  BY DEF Event
<1> DEFINE e == Event(kind, paths)
<1>3. <<e>> \in Seq(Reported) /\ <<>> \in Seq(Reported) /\ Len(<<e>>) = 1 /\ <<e>>[1] = e
  BY <1>1
<1>4. Report(e) = IF Front(paths[1]) \in watched THEN <<e>> ELSE <<>>
  BY <1>2 DEF Report
<1> HIDE DEF e
<1>5. Report(e) \in Seq(Reported)
  BY <1>3, <1>4
<1>6. Front(paths[1]) \in watched => Len(Report(e)) = 1 /\ Report(e)[1] = e
  BY <1>3, <1>4
<1> QED BY <1>1, <1>2, <1>5, <1>6 DEF e

LEMMA ReportOfOne ==
  ASSUME NEW kind \in Kind, NEW p \in Path
  PROVE  /\ <<p>> \in Seq(Path) /\ Len(<<p>>) = 1 /\ <<p>>[1] = p
         /\ Event(kind, <<p>>) \in Reported
         /\ Event(kind, <<p>>).kind = kind /\ Event(kind, <<p>>).paths = <<p>>
         /\ Report(Event(kind, <<p>>)) \in Seq(Reported)
         /\ Front(p) \in watched => /\ Len(Report(Event(kind, <<p>>))) = 1
                                    /\ Report(Event(kind, <<p>>))[1] = Event(kind, <<p>>)
<1>1. <<p>> \in Seq(Path) /\ Len(<<p>>) = 1 /\ <<p>>[1] = p
  OBVIOUS
<1> DEFINE one == <<p>>
<1> HIDE DEF one
<1>2. one \in Seq(Path) /\ one[1] = p
  BY <1>1 DEF one
<1>3. /\ Event(kind, one) \in Reported
      /\ Event(kind, one).kind = kind /\ Event(kind, one).paths = one
      /\ Report(Event(kind, one)) \in Seq(Reported)
      /\ Front(one[1]) \in watched => /\ Len(Report(Event(kind, one))) = 1
                                      /\ Report(Event(kind, one))[1] = Event(kind, one)
  BY <1>2, ReportIs
<1> QED BY <1>1, <1>2, <1>3 DEF one

(* What a change under a watch does: a native watch queues the events, and *)
(* a poll keeps the paths; what is owed grows by what was heard.           *)
LEMMA Noticed ==
  ASSUME TreeInv, NEW events \in Seq(Reported), NEW touched, touched \subseteq Path,
         Notice(events, touched)
  PROVE  /\ queue' \in Seq(Reported) /\ Len(queue) \in Nat /\ Len(queue') \in Nat
         /\ Len(queue) <= Len(queue')
         /\ \A k \in 1..Len(queue) : queue'[k] = queue[k]
         /\ dirty' \subseteq Path /\ dirty \subseteq dirty'
         /\ mode = "native" =>
              /\ dirty' = {}
              /\ Len(queue') = Len(queue) + Len(events)
              /\ \A k \in 1..Len(events) : queue'[Len(queue) + k] = events[k]
         /\ mode # "native" =>
              /\ owed' \subseteq files'
              /\ \A p \in touched : Front(p) \in watched => p \in dirty'
         /\ \A p \in owed' : \/ p \in owed
                             \/ p \in touched /\ Front(p) \in watched /\ IsInteresting(p)
<1> DEFINE heard == {p \in touched : Front(p) \in watched}
           owes == owed \cup {p \in heard : IsInteresting(p)}
<1>1. /\ owed' = IF mode = "native" THEN owes ELSE owes \cap files'
      /\ IF mode = "native"
         THEN queue' = queue \o events /\ UNCHANGED dirty
         ELSE UNCHANGED queue /\ dirty' = dirty \cup heard
  BY DEF Notice
<1>2. queue \in Seq(Reported) /\ dirty \subseteq Path /\ (mode = "native" => dirty = {})
  BY DEF TreeInv
<1>3. \A p \in owed' : \/ p \in owed
                       \/ p \in touched /\ Front(p) \in watched /\ IsInteresting(p)
  BY <1>1
<1>4. CASE mode = "native"
  <2>1. /\ queue' \in Seq(Reported) /\ Len(queue') = Len(queue) + Len(events)
        /\ Len(queue) \in Nat /\ Len(events) \in Nat
        /\ \A k \in 1..Len(queue) : queue'[k] = queue[k]
        /\ \A k \in 1..Len(events) : queue'[Len(queue) + k] = events[k]
    <3>1. queue' = queue \o events /\ queue \in Seq(Reported) /\ events \in Seq(Reported)
      BY <1>1, <1>2, <1>4
    <3> QED BY ONLY <3>1, ConcatParts
  <2>2. Len(queue) <= Len(queue') /\ Len(queue') \in Nat
    BY <2>1
  <2>3. dirty' = {} /\ dirty = {}
    BY <1>1, <1>2, <1>4
  <2> QED BY <1>3, <1>4, <2>1, <2>2, <2>3
<1>5. CASE mode # "native"
  <2>1. queue' = queue /\ dirty' = dirty \cup heard /\ owed' \subseteq files'
    BY <1>1, <1>5
  <2>2. Len(queue) \in Nat
    BY <1>2
  <2> QED BY <1>2, <1>3, <1>5, <2>1, <2>2
<1> QED BY <1>4, <1>5
-----------------------------------------------------------------------------
(* A tree that moves.                                                      *)

LEMMA RestIs ==
  ASSUME NEW S, NEW p \in Seq(S), NEW m \in Nat, m <= Len(p), NEW r,
         r = SubSeq(p, m + 1, Len(p))
  PROVE  /\ r \in Seq(S) /\ Len(r) = Len(p) - m /\ Len(p) \in Nat
         /\ \A k \in 1..Len(r) : r[k] = p[m + k]
<1>1. Len(p) \in Nat /\ Len(p) \in Int /\ m + 1 \in Int
  OBVIOUS
<1>2. \A k \in (m + 1)..Len(p) : p[k] \in S
  BY <1>1
<1>3. /\ SubSeq(p, m + 1, Len(p)) \in Seq(S)
      /\ Len(SubSeq(p, m + 1, Len(p))) =
           IF m + 1 <= Len(p) THEN Len(p) - (m + 1) + 1 ELSE 0
      /\ \A k \in 1..(Len(p) - (m + 1) + 1) :
           SubSeq(p, m + 1, Len(p))[k] = p[(m + 1) + k - 1]
  BY <1>1, <1>2, SubSeqProperties
<1> DEFINE n == Len(p)
<1>4. /\ n \in Nat /\ m <= n /\ r \in Seq(S)
      /\ Len(r) = IF m + 1 <= n THEN n - (m + 1) + 1 ELSE 0
  BY <1>1, <1>3
<1>5. \A k \in 1..(n - (m + 1) + 1) : r[k] = p[(m + 1) + k - 1]
  BY <1>3
<1> HIDE DEF n
<1>6. Len(r) = n - m
  BY <1>4
<1>7. \A k \in 1..Len(r) : r[k] = p[m + k]
  <2>1. SUFFICES ASSUME NEW k \in 1..Len(r) PROVE r[k] = p[m + k]
    OBVIOUS
  <2>2. k \in 1..(n - (m + 1) + 1) /\ (m + 1) + k - 1 = m + k
    BY <1>4, <1>6
  <2> QED BY <1>5, <2>2
<1> QED BY <1>4, <1>6, <1>7 DEF n

Graft(to, p, m) == to \o SubSeq(p, m + 1, Len(p))

Joins(g, to, p, m) ==
  /\ Len(g) = Len(to) + (Len(p) - m) /\ Len(to) \in Nat /\ Len(p) \in Nat
  /\ \A k \in 1..Len(to) : g[k] = to[k]
  /\ \A k \in (Len(to) + 1)..Len(g) : g[k] = p[m + (k - Len(to))]

LEMMA GraftIs ==
  ASSUME NEW S, NEW to \in Seq(S), NEW p \in Seq(S), NEW m \in Nat, m <= Len(p), NEW g,
         g = Graft(to, p, m)
  PROVE  g \in Seq(S) /\ IsPrefix(to, g) /\ Joins(g, to, p, m)
<1> DEFINE r == SubSeq(p, m + 1, Len(p))
<1>0. r = SubSeq(p, m + 1, Len(p))
  OBVIOUS
<1>2. g = to \o r
  BY DEF Graft
<1> HIDE DEF r
<1>1. /\ r \in Seq(S) /\ Len(r) = Len(p) - m /\ Len(p) \in Nat
      /\ \A k \in 1..Len(r) : r[k] = p[m + k]
  BY <1>0, RestIs
<1>3. /\ g \in Seq(S) /\ Len(g) = Len(to) + Len(r) /\ Len(to) \in Nat /\ Len(r) \in Nat
      /\ \A k \in 1..Len(to) : g[k] = to[k]
      /\ \A k \in 1..Len(r) : g[Len(to) + k] = r[k]
  <2>1. r \in Seq(S)
    BY <1>1
  <2> QED BY <1>2, <2>1, ConcatParts
<1>4. Len(to) <= Len(g)
  BY <1>3
<1>5. IsPrefix(to, g)
  BY <1>3, <1>4, PrefixIs
<1>6. ASSUME NEW k \in (Len(to) + 1)..Len(g) PROVE g[k] = p[m + (k - Len(to))]
  <2> DEFINE j == k - Len(to)
  <2>1. j \in 1..Len(r) /\ Len(to) + j = k
    BY <1>3
  <2> HIDE DEF j
  <2>2. g[Len(to) + j] = r[j] /\ r[j] = p[m + j]
    BY <1>1, <1>3, <2>1
  <2> QED BY <2>1, <2>2 DEF j
<1>7. Len(g) = Len(to) + (Len(p) - m)
  BY <1>1, <1>3
<1> QED BY <1>1, <1>3, <1>5, <1>6, <1>7 DEF Joins

LEMMA GraftOfWhole ==
  ASSUME NEW S, NEW to \in Seq(S), NEW p \in Seq(S)
  PROVE  Graft(to, p, Len(p)) = to
<1> DEFINE g == Graft(to, p, Len(p))
<1>1. Len(p) \in Nat /\ Len(p) <= Len(p)
  OBVIOUS
<1>0. g = Graft(to, p, Len(p))
  OBVIOUS
<1> HIDE DEF g
<1>2. g \in Seq(S) /\ IsPrefix(to, g) /\ Joins(g, to, p, Len(p))
  BY <1>0, <1>1, GraftIs
<1>3. Len(g) <= Len(to)
  BY <1>1, <1>2 DEF Joins
<1>4. g = to
  BY <1>2, <1>3, PrefixSame
<1> QED BY <1>4 DEF g

LEMMA GraftOfFront ==
  ASSUME NEW S, NEW to \in Seq(S), NEW p \in Seq(S), NEW m \in Nat, m < Len(p)
  PROVE  Graft(to, Front(p), m) = Front(Graft(to, p, m))
<1> DEFINE g == Graft(to, p, m)
           h == Graft(to, Front(p), m)
<1>1. p # <<>> /\ Len(p) \in Nat
  OBVIOUS
<1>2. /\ Front(p) \in Seq(S) /\ Len(Front(p)) = Len(p) - 1 /\ IsPrefix(Front(p), p)
  BY <1>1, FrontIs
<1>3. \A k \in 1..Len(Front(p)) : Front(p)[k] = p[k]
  BY <1>2, PrefixIs
<1>4. m <= Len(p) /\ m <= Len(Front(p))
  BY <1>1, <1>2
<1> DEFINE f == Front(p)
<1>0. g = Graft(to, p, m) /\ h = Graft(to, f, m)
  OBVIOUS
<1> HIDE DEF g, h
<1>15. g \in Seq(S) /\ Joins(g, to, p, m)
  BY <1>0, <1>4, GraftIs
<1>5. /\ g \in Seq(S) /\ Len(to) \in Nat /\ Len(g) = Len(to) + (Len(p) - m)
      /\ \A k \in 1..Len(to) : g[k] = to[k]
      /\ \A k \in (Len(to) + 1)..Len(g) : g[k] = p[m + (k - Len(to))]
  BY <1>15 DEF Joins
<1>13. f \in Seq(S) /\ m <= Len(f)
  BY <1>2, <1>4
<1> HIDE DEF f
<1>14. h \in Seq(S) /\ Joins(h, to, f, m)
  BY <1>0, <1>13, GraftIs
<1>6. /\ h \in Seq(S) /\ Len(h) = Len(to) + (Len(Front(p)) - m)
      /\ \A k \in 1..Len(to) : h[k] = to[k]
      /\ \A k \in (Len(to) + 1)..Len(h) : h[k] = Front(p)[m + (k - Len(to))]
  BY <1>14 DEF f, Joins
<1>7. g # <<>>
  BY <1>1, <1>5
<1>8. Front(g) \in Seq(S) /\ Len(Front(g)) = Len(g) - 1 /\ IsPrefix(Front(g), g)
  BY <1>5, <1>7, FrontIs
<1>9. \A k \in 1..Len(Front(g)) : Front(g)[k] = g[k]
  BY <1>5, <1>8, PrefixIs
<1>10. Len(h) = Len(Front(g))
  BY <1>1, <1>2, <1>5, <1>6, <1>8
<1>11. ASSUME NEW k \in 1..Len(h) PROVE h[k] = Front(g)[k]
  <2>1. Front(g)[k] = g[k]
    BY <1>9, <1>10
  <2>2. CASE k <= Len(to)
    BY <1>5, <1>6, <2>1, <2>2
  <2>3. CASE ~(k <= Len(to))
    <3> DEFINE j == k - Len(to)
    <3>1. m + j \in 1..Len(Front(p))
      BY <1>1, <1>2, <1>4, <1>5, <1>6, <2>3
    <3>2. k \in (Len(to) + 1)..Len(h) /\ k \in (Len(to) + 1)..Len(g)
      BY <1>5, <1>6, <1>8, <1>10, <2>3
    <3>3. h[k] = Front(p)[m + j] /\ g[k] = p[m + j]
      BY <1>5, <1>6, <3>2
    <3> HIDE DEF j
    <3>4. Front(p)[m + j] = p[m + j]
      BY <1>3, <3>1
    <3> QED BY <2>1, <3>3, <3>4
  <2> QED BY <2>2, <2>3
<1>12. h = Front(g)
  BY <1>6, <1>8, <1>10, <1>11, SeqEqual
<1> QED BY <1>12 DEF f, g, h
(* What is above a path that stays is not in the tree that goes.           *)
LEMMA StaysAbove ==
  ASSUME NEW top \in Path, NEW d \in dirs \ Under(top), d \in Path,
         NEW x \in Path, IsPrefix(x, d)
  PROVE  x \notin Under(top)
<1>1. SUFFICES ASSUME x \in Under(top) PROVE FALSE
  OBVIOUS
<1>2. IsPrefix(top, x)
  BY <1>1 DEF Under
<1>3. top \in Seq(STRING) /\ d \in Seq(STRING) /\ x \in Seq(STRING)
  BY Paths
<1>4. IsPrefix(top, d)
  BY <1>2, <1>3, PrefixTransitive
<1> QED BY <1>4 DEF Under

LEMMA Pruned ==
  ASSUME TreeInv, NEW top \in DirPath, top # Root
  PROVE  Rooted(dirs \ Under(top))
<1>1. /\ dirs \subseteq DirPath /\ Root \in dirs /\ top \in Path
      /\ \A d \in dirs : d \in Path
      /\ \A d \in dirs \ {Root} : Front(d) \in dirs
  BY Paths DEF TreeInv, Rooted
<1>2. Root \notin Under(top)
  <2>1. SUFFICES ASSUME IsPrefix(top, Root) PROVE FALSE
    BY DEF Under
  <2>2. Root \in Seq(STRING) /\ top \in Seq(STRING) /\ Root \in Path
    BY <1>1, Paths
  <2>3. IsPrefix(Root, top)
    BY <1>1, AllUnderRoot
  <2>4. Len(Root) <= Len(top)
    BY <2>2, <2>3, PrefixIs
  <2> QED BY <2>1, <2>2, <2>4, PrefixSame
<1>3. ASSUME NEW d \in (dirs \ Under(top)) \ {Root} PROVE Front(d) \in dirs \ Under(top)
  <2>1. d \in Path /\ d \in Seq(STRING) /\ d # <<>> /\ Front(d) \in Path /\ Front(d) \in dirs
    BY <1>1, Paths
  <2>2. IsPrefix(Front(d), d)
    BY <2>1, FrontIs
  <2> QED BY <1>1, <2>1, <2>2, StaysAbove
<1> QED BY <1>1, <1>2, <1>3 DEF Rooted

LEMMA MoveIs ==
  ASSUME TreeInv, NEW from \in DirPath, NEW to \in DirPath, MoveTree(from, to)
  PROVE  /\ Rooted(dirs') /\ files' \subseteq FilePath
         /\ to # Root /\ to \notin dirs /\ Front(to) \in dirs \ Under(from)
         /\ \E new \in SUBSET DirPath :
              /\ dirs' = (dirs \ Under(from)) \cup new
              /\ \A d \in new : IsPrefix(to, d)
              /\ missed' = (missed \ Under(from)) \cup Unseen(new, to)
<1> DEFINE gone == Under(from)
           m == Len(from)
           moved(p) == Graft(to, p, m)
           new == {moved(p) : p \in gone \cap dirs}
<1>1. /\ from \in dirs \ {Root}
      /\ to \in DirPath \ dirs /\ Front(to) \in dirs \ gone
      /\ \A p \in gone : moved(p) \in (IF p \in dirs THEN DirPath ELSE FilePath)
      /\ dirs' = (dirs \ gone) \cup new
      /\ files' = (files \ gone) \cup {moved(p) : p \in gone \cap files}
      /\ missed' = (missed \ gone) \cup Unseen(new, to)
  BY DEF MoveTree, Graft
<1>2. /\ dirs \subseteq DirPath /\ Root \in dirs /\ files \subseteq FilePath
      /\ \A d \in dirs : d \in Path /\ d \in Seq(STRING)
      /\ \A d \in dirs \ {Root} : Front(d) \in dirs
      /\ \A p \in files : p \notin dirs
      /\ from \in Path /\ to \in Path /\ from \in Seq(STRING) /\ to \in Seq(STRING)
  BY Paths DEF TreeInv, Rooted
<1>3. new \subseteq DirPath /\ files' \subseteq FilePath
  BY <1>1, <1>2
<1>4. Rooted(dirs \ gone)
  BY <1>1, Pruned
<1>5. m \in Nat
  BY <1>2
<1>6. ASSUME NEW p \in gone \cap dirs
      PROVE  /\ IsPrefix(to, moved(p))
             /\ moved(p) # to => /\ Front(p) \in gone \cap dirs
                                 /\ Front(moved(p)) = moved(Front(p))
  <2>1. IsPrefix(from, p) /\ p \in Seq(STRING) /\ p \in dirs /\ p \in Path
    BY <1>2 DEF Under
  <2>2. m <= Len(p) /\ Len(p) \in Nat
    BY <1>2, <2>1, PrefixIs
  <2>3. IsPrefix(to, moved(p))
    <3> DEFINE g == moved(p)
    <3>1. g = Graft(to, p, m)
      OBVIOUS
    <3> HIDE DEF g, m
    <3>2. IsPrefix(to, g)
      BY <1>2, <1>5, <2>1, <2>2, <3>1, GraftIs
    <3> QED BY <3>2 DEF g
  <2>4. ASSUME moved(p) # to
        PROVE  Front(p) \in gone \cap dirs /\ Front(moved(p)) = moved(Front(p))
    <3>1. p # from
      <4>1. SUFFICES ASSUME p = from PROVE moved(p) = to
        BY <2>4
      <4>2. Graft(to, from, Len(from)) = to
        BY <1>2, GraftOfWhole
      <4> QED BY <4>1, <4>2
    <3>2. p # <<>> /\ IsPrefix(from, Front(p))
      BY <1>2, <2>1, <3>1, PrefixOfFront
    <3>3. p # Root
      <4>1. SUFFICES ASSUME p = Root PROVE FALSE
        OBVIOUS
      <4>2. IsPrefix(Root, from)
        BY <1>2, AllUnderRoot
      <4>3. Len(p) <= Len(from)
        BY <1>2, <2>1, <4>1, <4>2, PrefixIs
      <4> QED BY <1>2, <2>1, <3>1, <4>3, PrefixSame
    <3>4. Front(p) \in dirs
      BY <1>2, <2>1, <3>3
    <3>5. m < Len(p)
      <4>1. m # Len(p)
        <5>1. SUFFICES ASSUME m = Len(p) PROVE FALSE
          OBVIOUS
        <5>2. Len(p) <= Len(from)
          BY <2>2, <5>1
        <5> QED BY <1>2, <2>1, <3>1, <5>2, PrefixSame
      <4> QED BY <1>5, <2>2, <4>1
    <3>6. Graft(to, Front(p), m) = Front(Graft(to, p, m))
      <4> HIDE DEF m
      <4> QED BY <1>2, <1>5, <2>1, <3>5, GraftOfFront
    <3> QED BY <3>2, <3>4, <3>6 DEF Under
  <2> QED BY <2>3, <2>4
<1>7. Rooted(dirs')
  <2>1. dirs' \subseteq DirPath /\ Root \in dirs'
    BY <1>1, <1>3, <1>4 DEF Rooted
  <2>2. ASSUME NEW d \in dirs' \ {Root} PROVE Front(d) \in dirs'
    <3>1. CASE d \in dirs \ gone
      BY <1>1, <1>4, <3>1 DEF Rooted
    <3>2. CASE d \in new
      <4>1. PICK p \in gone \cap dirs : d = moved(p)
        BY <3>2
      <4>2. CASE d = to
        BY <1>1, <4>2
      <4>3. CASE d # to
        <5>1. Front(p) \in gone \cap dirs /\ Front(d) = moved(Front(p))
          BY <1>6, <4>1, <4>3
        <5>2. moved(Front(p)) \in new
          BY <5>1
        <5> QED BY <1>1, <5>1, <5>2
      <4> QED BY <4>2, <4>3
    <3> QED BY <1>1, <3>1, <3>2
  <2> QED BY <2>1, <2>2 DEF Rooted
<1>8. \A d \in new : IsPrefix(to, d)
  BY <1>6
<1>9. to # Root
  BY <1>1, <1>2
<1> HIDE DEF new
<1> QED BY <1>1, <1>3, <1>7, <1>8, <1>9
-----------------------------------------------------------------------------
(* TreeInv is inductive.                                                   *)

LEMMA NoticeKeeps ==
  ASSUME TreeInv, NEW events \in Seq(Reported), NEW touched, touched \subseteq Path,
         Notice(events, touched), UNCHANGED <<mode, at>>
  PROVE  /\ queue' \in Seq(Reported) /\ dirty' \subseteq Path
         /\ mode' = "native" => dirty' = {}
         /\ at' \in {"watch", "publish"} => queue' # <<>>
<1>1. /\ queue' \in Seq(Reported) /\ Len(queue) \in Nat /\ Len(queue') \in Nat
      /\ Len(queue) <= Len(queue') /\ dirty' \subseteq Path
      /\ mode = "native" => dirty' = {}
  BY Noticed
<1>2. queue \in Seq(Reported) /\ (at \in {"watch", "publish"} => queue # <<>>)
  BY DEF TreeInv
<1>3. queue # <<>> => Len(queue) # 0
  BY <1>2, EmptySeq
<1>4. queue # <<>> => queue' # <<>>
  BY <1>1, <1>3, EmptySeq
<1> QED BY <1>1, <1>2, <1>4

LEMMA UnseenIsNew ==
  ASSUME NEW new, NEW top PROVE Unseen(new, top) \subseteq new
BY DEF Unseen

LEMMA TreeMakeDir ==
  ASSUME TreeInv, NEW p \in DirPath, MakeDir(p)
  PROVE  TreeInv'
<1>1. /\ p \notin dirs /\ Front(p) \in dirs /\ dirs' = dirs \cup {p} /\ files' = files
      /\ Notice(Report(Event("Create", <<p>>)), {p})
      /\ missed' = missed \cup Unseen({p}, p)
      /\ UNCHANGED <<mode, watched, at, pending, seen>>
  BY DEF MakeDir, task
<1>2. Report(Event("Create", <<p>>)) \in Seq(Reported) /\ {p} \subseteq Path
  BY ReportOfOne, Paths DEF Kind
<1>3. /\ queue' \in Seq(Reported) /\ dirty' \subseteq Path
      /\ mode' = "native" => dirty' = {}
      /\ at' \in {"watch", "publish"} => queue' # <<>>
  BY <1>1, <1>2, NoticeKeeps
<1>4. Rooted(dirs')
  BY <1>1 DEF TreeInv, Rooted
<1>5. missed' \subseteq DirPath
  BY <1>1, UnseenIsNew DEF TreeInv
<1> QED BY <1>1, <1>3, <1>4, <1>5 DEF TreeInv

LEMMA TreeSave ==
  ASSUME TreeInv, NEW p \in FilePath, Save(p)
  PROVE  TreeInv'
<1>1. /\ files' = files \cup {p} /\ dirs' = dirs
      /\ UNCHANGED <<mode, watched, at, pending, seen, missed>>
      /\ \E kind \in {"To", IF p \in files THEN "Modify" ELSE "Create"} :
           Notice(Report(Event(kind, <<p>>)), {p})
  BY DEF Save, task
<1>2. PICK kind \in Kind : Notice(Report(Event(kind, <<p>>)), {p})
  BY <1>1 DEF Kind
<1>3. Report(Event(kind, <<p>>)) \in Seq(Reported) /\ {p} \subseteq Path
  BY ReportOfOne, Paths
<1>4. /\ queue' \in Seq(Reported) /\ dirty' \subseteq Path
      /\ mode' = "native" => dirty' = {}
      /\ at' \in {"watch", "publish"} => queue' # <<>>
  BY <1>1, <1>2, <1>3, NoticeKeeps
<1> QED BY <1>1, <1>4 DEF TreeInv

LEMMA TreeStore ==
  ASSUME TreeInv, StoreTakes
  PROVE  TreeInv'
<1>1. /\ UNCHANGED <<dirs, files, mode, watched, at, pending, seen, missed>>
      /\ Notice(Report(Event("Modify", <<DbPath>>)), {DbPath})
  BY DEF StoreTakes, task
<1>2. Report(Event("Modify", <<DbPath>>)) \in Seq(Reported) /\ {DbPath} \subseteq Path
  BY ReportOfOne, Paths DEF Kind
<1>3. /\ queue' \in Seq(Reported) /\ dirty' \subseteq Path
      /\ mode' = "native" => dirty' = {}
      /\ at' \in {"watch", "publish"} => queue' # <<>>
  BY <1>1, <1>2, NoticeKeeps
<1> QED BY <1>1, <1>3 DEF TreeInv

LEMMA TreeRemove ==
  ASSUME TreeInv, NEW top \in DirPath, RemoveTree(top)
  PROVE  TreeInv'
<1>1. /\ top # Root /\ dirs' = dirs \ Under(top) /\ files' = files \ Under(top)
      /\ watched' = IF mode = "native" THEN watched \ Under(top) ELSE watched
      /\ Notice(Report(Event("Remove", <<top>>)), {top})
      /\ missed' = missed \ Under(top)
      /\ UNCHANGED <<mode, at, pending, seen>>
  BY DEF RemoveTree
<1>2. Report(Event("Remove", <<top>>)) \in Seq(Reported) /\ {top} \subseteq Path
  BY ReportOfOne, Paths DEF Kind
<1>3. /\ queue' \in Seq(Reported) /\ dirty' \subseteq Path
      /\ mode' = "native" => dirty' = {}
      /\ at' \in {"watch", "publish"} => queue' # <<>>
  BY <1>1, <1>2, NoticeKeeps
<1>4. Rooted(dirs')
  BY <1>1, Pruned
<1> QED BY <1>1, <1>3, <1>4 DEF TreeInv

(* The events of a move.                                                   *)
MoveEvents(from, to) ==
  Report(Event("From", <<from>>)) \o Report(Event("To", <<to>>))
    \o (IF Front(from) \in watched /\ Front(to) \in watched
        THEN <<Event("Both", <<from, to>>)>> ELSE <<>>)

LEMMA MoveTells ==
  ASSUME NEW from \in Path, NEW to \in Path
  PROVE  /\ MoveEvents(from, to) \in Seq(Reported)
         /\ Front(from) \in watched =>
              \E k \in 1..Len(MoveEvents(from, to)) :
                MoveEvents(from, to)[k] = Event("From", <<from>>)
         /\ Front(to) \in watched =>
              \E k \in 1..Len(MoveEvents(from, to)) :
                MoveEvents(from, to)[k] = Event("To", <<to>>)
<1> DEFINE a == Report(Event("From", <<from>>))
           b == Report(Event("To", <<to>>))
           both == Event("Both", <<from, to>>)
           c == IF Front(from) \in watched /\ Front(to) \in watched THEN <<both>> ELSE <<>>
           ab == a \o b
           all == ab \o c
<1>1. /\ a \in Seq(Reported)
      /\ Front(from) \in watched => Len(a) = 1 /\ a[1] = Event("From", <<from>>)
  BY ReportOfOne DEF Kind
<1>2. /\ b \in Seq(Reported)
      /\ Front(to) \in watched => Len(b) = 1 /\ b[1] = Event("To", <<to>>)
  BY ReportOfOne DEF Kind
<1>3. c \in Seq(Reported)
  <2>1. <<from, to>> \in Seq(Path)
    OBVIOUS
  <2>2. both \in Reported
    BY <2>1 DEF Event, Reported, Kind
  <2> HIDE DEF both
  <2> QED BY <2>2
<1>4. all = MoveEvents(from, to)
  BY DEF MoveEvents
<1>5. ab = a \o b /\ all = ab \o c
  OBVIOUS
<1> HIDE DEF a, b, c, ab, all
<1>6. /\ ab \in Seq(Reported) /\ Len(ab) = Len(a) + Len(b) /\ Len(a) \in Nat /\ Len(b) \in Nat
      /\ \A i \in 1..Len(a) : ab[i] = a[i]
      /\ \A i \in 1..Len(b) : ab[Len(a) + i] = b[i]
  <2>1. a \in Seq(Reported) /\ b \in Seq(Reported)
    BY <1>1, <1>2
  <2> QED BY <1>5, <2>1, ConcatParts
<1>7. /\ all \in Seq(Reported) /\ Len(all) = Len(ab) + Len(c) /\ Len(ab) \in Nat /\ Len(c) \in Nat
      /\ \A i \in 1..Len(ab) : all[i] = ab[i]
      /\ \A i \in 1..Len(c) : all[Len(ab) + i] = c[i]
  <2>1. ab \in Seq(Reported)
    BY <1>6
  <2> QED BY <1>3, <1>5, <2>1, ConcatParts
<1>10. /\ Len(ab) = Len(a) + Len(b) /\ Len(all) = Len(ab) + Len(c)
       /\ Len(a) \in Nat /\ Len(b) \in Nat /\ Len(c) \in Nat
  BY <1>6, <1>7
<1>8. ASSUME Front(from) \in watched
      PROVE  \E k \in 1..Len(all) : all[k] = Event("From", <<from>>)
  <2>3. Len(a) = 1
    BY <1>1, <1>8
  <2>1. 1 \in 1..Len(a) /\ 1 \in 1..Len(ab) /\ 1 \in 1..Len(all)
    BY <1>10, <2>3
  <2>2. all[1] = Event("From", <<from>>)
    BY <1>1, <1>6, <1>7, <1>8, <2>1
  <2> QED BY <2>1, <2>2
<1>9. ASSUME Front(to) \in watched
      PROVE  \E k \in 1..Len(all) : all[k] = Event("To", <<to>>)
  <2> DEFINE k == Len(a) + 1
  <2>4. Len(b) = 1
    BY <1>2, <1>9
  <2>1. 1 \in 1..Len(b) /\ k \in 1..Len(ab) /\ k \in 1..Len(all)
    BY <1>10, <2>4
  <2>2. ab[k] = b[1]
    BY <1>6, <2>1
  <2> HIDE DEF k
  <2>3. all[k] = Event("To", <<to>>)
    BY <1>2, <1>7, <1>9, <2>1, <2>2
  <2> QED BY <2>1, <2>3
<1> QED BY <1>4, <1>7, <1>8, <1>9

LEMMA TreeMove ==
  ASSUME TreeInv, NEW from \in DirPath, NEW to \in DirPath, MoveTree(from, to)
  PROVE  TreeInv'
<1>1. /\ watched' = IF mode = "native" THEN watched \ Under(from) ELSE watched
      /\ Notice(MoveEvents(from, to), {from, to})
      /\ UNCHANGED <<mode, at, pending, seen>>
  BY DEF MoveTree, MoveEvents
<1>2. MoveEvents(from, to) \in Seq(Reported) /\ {from, to} \subseteq Path
  BY MoveTells, Paths
<1>3. /\ queue' \in Seq(Reported) /\ dirty' \subseteq Path
      /\ mode' = "native" => dirty' = {}
      /\ at' \in {"watch", "publish"} => queue' # <<>>
  BY <1>1, <1>2, NoticeKeeps
<1>4. PICK new \in SUBSET DirPath :
             /\ dirs' = (dirs \ Under(from)) \cup new
             /\ \A d \in new : IsPrefix(to, d)
             /\ missed' = (missed \ Under(from)) \cup Unseen(new, to)
  BY MoveIs
<1>5. missed' \subseteq DirPath
  BY <1>4, UnseenIsNew DEF TreeInv
<1>6. Rooted(dirs') /\ files' \subseteq FilePath
  BY MoveIs
<1> QED BY <1>1, <1>3, <1>5, <1>6 DEF TreeInv
(* What a scan may find.                                                   *)
LEMMA DifferencesAre ==
  ASSUME NEW kind, NEW p
  PROVE  Event(kind, <<p>>) \in Differences <=>
           \/ kind = "Create" /\ p \in Entries(watched) \ seen
           \/ kind = "Remove" /\ p \in seen \ Entries(watched)
           \/ kind = "Modify" /\ p \in seen \cap Entries(watched) \cap dirty
<1> DEFINE now == Entries(watched)
<1> HIDE DEF now
<1>1. \A X, c : Event(kind, <<p>>) \in [kind : {c}, paths : {<<q>> : q \in X}]
                <=> kind = c /\ p \in X
  <2>1. SUFFICES ASSUME NEW X, NEW c
                 PROVE  Event(kind, <<p>>) \in [kind : {c}, paths : {<<q>> : q \in X}]
                        <=> kind = c /\ p \in X
    OBVIOUS
  <2>2. <<p>> \in {<<q>> : q \in X} <=> p \in X
    OBVIOUS
  <2> DEFINE Y == {<<q>> : q \in X}
             y == <<p>>
  <2> HIDE DEF Y, y
  <2>3. Event(kind, y) \in [kind : {c}, paths : Y] <=> kind = c /\ y \in Y
    BY DEF Event
  <2> QED BY <2>2, <2>3 DEF Y, y
<1>2. Differences = [kind : {"Create"}, paths : {<<q>> : q \in now \ seen}]
                    \cup [kind : {"Remove"}, paths : {<<q>> : q \in seen \ now}]
                    \cup [kind : {"Modify"}, paths : {<<q>> : q \in seen \cap now \cap dirty}]
  BY DEF Differences, now
<1>3. Event(kind, <<p>>) \in Differences <=>
           \/ kind = "Create" /\ p \in now \ seen
           \/ kind = "Remove" /\ p \in seen \ now
           \/ kind = "Modify" /\ p \in seen \cap now \cap dirty
  BY <1>1, <1>2
<1> QED BY <1>3 DEF now

LEMMA DifferenceIsOfOne ==
  ASSUME NEW e \in Differences
  PROVE  \E p : e = Event(e.kind, <<p>>)
<1>1. ASSUME NEW X, NEW c, e \in [kind : {c}, paths : {<<q>> : q \in X}]
      PROVE  \E p : e = Event(e.kind, <<p>>)
  <2>1. e = [kind |-> e.kind, paths |-> e.paths] /\ e.paths \in {<<q>> : q \in X}
    BY <1>1
  <2>2. PICK p \in X : e.paths = <<p>>
    BY <2>1
  <2>3. e = Event(e.kind, e.paths)
    BY <2>1 DEF Event
  <2> QED BY <2>2, <2>3
<1>2. \/ \E X : e \in [kind : {"Create"}, paths : {<<q>> : q \in X}]
      \/ \E X : e \in [kind : {"Remove"}, paths : {<<q>> : q \in X}]
      \/ \E X : e \in [kind : {"Modify"}, paths : {<<q>> : q \in X}]
  BY DEF Differences
<1> QED BY <1>1, <1>2

LEMMA EntriesAre ==
  ASSUME TreeInv, NEW ds
  PROVE  /\ Entries(ds) \subseteq Path
         /\ \A p \in Entries(ds) : p # Root /\ Front(p) \in ds
BY Paths DEF Entries, TreeInv, Rooted

(* A scan reports one path.                                                *)
ScanOf(kind, p) ==
  /\ kind \in {"Create", "Remove", "Modify"} /\ p \in Path
  /\ \/ kind = "Create" /\ p \in Entries(watched) \ seen /\ seen' = seen \cup {p}
     \/ kind = "Remove" /\ p \in seen \ Entries(watched) /\ seen' = seen \ {p}
     \/ kind = "Modify" /\ p \in seen \cap Entries(watched) \cap dirty /\ seen' = seen
  /\ dirty' = dirty \ {p}
  /\ Event(kind, <<p>>) \in Reported
  /\ queue' = Append(queue, Event(kind, <<p>>))
  /\ queue' \in Seq(Reported) /\ Len(queue') = Len(queue) + 1 /\ Len(queue) \in Nat
  /\ \A k \in 1..Len(queue) : queue'[k] = queue[k]
  /\ queue'[Len(queue) + 1] = Event(kind, <<p>>)

LEMMA ScanIs ==
  ASSUME TreeInv, Scan
  PROVE  \E kind, p : ScanOf(kind, p)
<1> DEFINE e == CHOOSE e \in Differences : TRUE
<1>1. /\ Differences # {} /\ queue' = Append(queue, e)
      /\ seen' = IF e.kind = "Remove" THEN seen \ {e.paths[1]} ELSE seen \cup {e.paths[1]}
      /\ dirty' = dirty \ {e.paths[1]}
  BY DEF Scan
<1>2. e \in Differences
  BY <1>1
<1> HIDE DEF e
<1>3. PICK p : e = Event(e.kind, <<p>>)
  BY <1>2, DifferenceIsOfOne
<1> DEFINE kind == e.kind
<1>4. e = Event(kind, <<p>>) /\ Event(kind, <<p>>) \in Differences
  BY <1>2, <1>3
<1> HIDE DEF kind
<1>5. \/ kind = "Create" /\ p \in Entries(watched) \ seen
      \/ kind = "Remove" /\ p \in seen \ Entries(watched)
      \/ kind = "Modify" /\ p \in seen \cap Entries(watched) \cap dirty
  BY <1>4, DifferencesAre
<1>6. p \in Path
  BY <1>5, EntriesAre DEF TreeInv
<1>7. kind \in Kind
  BY <1>5 DEF Kind
<1>8. /\ Event(kind, <<p>>) \in Reported /\ <<p>>[1] = p
      /\ Event(kind, <<p>>).kind = kind /\ Event(kind, <<p>>).paths = <<p>>
  BY <1>6, <1>7, ReportOfOne
<1>9. e.kind = kind /\ e.paths[1] = p /\ e \in Reported
  BY <1>4, <1>8
<1>10. queue \in Seq(Reported)
  BY DEF TreeInv
<1>11. /\ queue' \in Seq(Reported) /\ Len(queue') = Len(queue) + 1 /\ Len(queue) \in Nat
       /\ \A k \in 1..Len(queue) : queue'[k] = queue[k]
       /\ queue'[Len(queue) + 1] = e
  BY <1>1, <1>9, <1>10, AppendProperties
<1>12. \/ kind = "Create" /\ p \in Entries(watched) \ seen /\ seen' = seen \cup {p}
       \/ kind = "Remove" /\ p \in seen \ Entries(watched) /\ seen' = seen \ {p}
       \/ kind = "Modify" /\ p \in seen \cap Entries(watched) \cap dirty /\ seen' = seen
  BY <1>1, <1>5, <1>9
<1>13. dirty' = dirty \ {p}
  BY <1>1, <1>9
<1>14. ScanOf(kind, p)
  BY <1>1, <1>4, <1>5, <1>6, <1>8, <1>11, <1>12, <1>13 DEF ScanOf
<1> QED BY <1>14

LEMMA TreeScan ==
  ASSUME TreeInv, Scan
  PROVE  TreeInv'
<1>1. mode = "poll" /\ UNCHANGED <<dirs, files, mode, watched, at, pending, missed>>
  BY DEF Scan, world, task
<1>2. PICK kind, p : ScanOf(kind, p)
  BY ScanIs
<1>3. /\ seen' \subseteq Path /\ dirty' \subseteq Path
      /\ queue' \in Seq(Reported) /\ Len(queue') # 0
  BY <1>2 DEF ScanOf, TreeInv
<1>4. queue' # <<>>
  BY <1>3, EmptySeq
<1> QED BY <1>1, <1>3, <1>4 DEF TreeInv

LEMMA ListedExist ==
  ASSUME TreeInv
  PROVE  /\ \A top : InterestingWatchDirs(top) \subseteq DirPath
         /\ \A event : Introduced(event) \subseteq DirPath
BY DEF InterestingWatchDirs, Introduced, TreeInv, Rooted

LEMMA TreeTask ==
  ASSUME TreeInv,
         \/ List \/ ListNew \/ Publish
         \/ \E d \in DirPath : Attach(d) \/ WatchNew(d)
  PROVE  TreeInv'
<1>1. CASE List
  <2>1. pending' \subseteq DirPath
    BY <1>1, ListedExist DEF List
  <2> QED BY <1>1, <2>1 DEF List, TreeInv, Stage, world
<1>2. CASE ListNew
  <2>1. pending' \subseteq DirPath
    BY <1>2, ListedExist DEF ListNew
  <2> QED BY <1>2, <2>1 DEF ListNew, TreeInv, Stage, world
<1>3. CASE Publish
  <2>1. /\ ReadyToPublish /\ queue' = Tail(queue) /\ at' = "run"
        /\ UNCHANGED <<dirs, files, mode, watched, pending, seen, dirty, missed>>
    BY <1>3 DEF Publish, world
  <2>2. queue \in Seq(Reported) /\ queue # <<>> /\ pending = {}
    BY <2>1 DEF ReadyToPublish, TreeInv
  <2>3. queue' \in Seq(Reported)
    BY <2>1, <2>2, HeadTailProperties
  <2> QED BY <2>1, <2>2, <2>3 DEF TreeInv, Stage
<1>4. ASSUME NEW d \in DirPath, Attach(d) PROVE TreeInv'
  <2>1. /\ at = "attach" /\ mode = "native" /\ d \in pending
        /\ UNCHANGED <<dirs, files, queue, dirty, missed>>
    BY <1>4 DEF Attach, NextToAttach, TreeInv, world
  <2>2. CASE d \notin dirs
    BY <1>4, <2>1, <2>2 DEF Attach, TreeInv, Stage
  <2>3. CASE d \in dirs /\ Cardinality(watched) = WatchLimit
    <3>1. /\ mode' = "poll" /\ at' = "run" /\ pending' = {}
          /\ watched' = watched \cup (pending \cap dirs)
          /\ seen' = Entries(watched')
      BY <1>4, <2>1, <2>3 DEF Attach
    <3>2. seen' \subseteq Path
      BY <3>1, EntriesAre
    <3> QED BY <2>1, <3>1, <3>2 DEF TreeInv, Stage
  <2>4. CASE d \in dirs /\ Cardinality(watched) # WatchLimit
    <3>1. /\ watched' = watched \cup {d} /\ pending' = pending \ {d}
          /\ at' = IF pending = {d} THEN "run" ELSE "attach"
          /\ UNCHANGED <<mode, seen>>
      BY <1>4, <2>1, <2>4 DEF Attach
    <3> QED BY <2>1, <3>1 DEF TreeInv, Stage
  <2> QED BY <2>2, <2>3, <2>4
<1>5. ASSUME NEW d \in DirPath, WatchNew(d) PROVE TreeInv'
  <2>1. /\ at = "watch" /\ pending' = pending \ {d}
        /\ at' = IF pending = {d} THEN "publish" ELSE "watch"
        /\ watched' \subseteq watched \cup {d}
        /\ UNCHANGED <<dirs, files, mode, queue>>
    BY <1>5 DEF WatchNew, NextToAttach, world
  <2>2. missed' \subseteq DirPath /\ seen' \subseteq Path /\ dirty' \subseteq dirty
    <3>1. CASE mode = "poll" /\ d \in dirs
      <4>1. /\ seen' = {p \in seen : Front(p) # d} \cup Entries({d})
            /\ dirty' = {p \in dirty : Front(p) # d}
            /\ missed' = missed \cup ((Entries({d}) \cap dirs) \ (seen \cup pending \cup watched))
        BY <1>5, <3>1 DEF WatchNew
      <4> QED BY <4>1, EntriesAre DEF TreeInv, Rooted
    <3>2. CASE ~(mode = "poll" /\ d \in dirs)
      BY <1>5, <3>2 DEF WatchNew, TreeInv
    <3> QED BY <3>1, <3>2
  <2> QED BY <2>1, <2>2 DEF TreeInv, Stage
<1> QED BY <1>1, <1>2, <1>3, <1>4, <1>5

LEMMA TreeStarts == Init => TreeInv
<1>1. <<>> \in Seq(Reported)
  OBVIOUS
<1>2. {DbPath} \subseteq FilePath
  BY Paths
<1> QED BY <1>1, <1>2 DEF Init, TreeInv, Rooted, Stage

LEMMA TreeSteps == TreeInv /\ [Next]_vars => TreeInv'
<1> SUFFICES ASSUME TreeInv, [Next]_vars PROVE TreeInv'
  OBVIOUS
<1>1. CASE \E p \in DirPath : MakeDir(p) \/ RemoveTree(p)
  BY <1>1, TreeMakeDir, TreeRemove
<1>2. CASE \E p \in FilePath : Save(p)
  BY <1>2, TreeSave
<1>3. CASE \E p, q \in DirPath : MoveTree(p, q)
  BY <1>3, TreeMove
<1>4. CASE List \/ ListNew \/ Publish \/ \E d \in DirPath : Attach(d) \/ WatchNew(d)
  BY <1>4, TreeTask
<1>5. CASE Scan
  BY <1>5, TreeScan
<1>6. CASE StoreTakes
  BY <1>6, TreeStore
<1>7. CASE ManifestTakes \/ UNCHANGED vars
  BY <1>7 DEF ManifestTakes, vars, world, task, TreeInv
<1> QED BY <1>1, <1>2, <1>3, <1>4, <1>5, <1>6, <1>7 DEF Next
-----------------------------------------------------------------------------
(* What the manifest watcher derives.                                      *)

Sent == [source : {"fs", "manifest"}, path : Path]

Marks(b, source, upto) ==
  {k \in 1..upto : b[k].source = source /\ IsProjectManifestPath(b[k].path)}

BusInv ==
  /\ bus \in Seq(Sent) /\ manifestAt \in Nat /\ manifestAt <= Len(bus)
  /\ ~lagged => Cardinality(Marks(bus, "manifest", Len(bus)))
                  = Cardinality(Marks(bus, "fs", manifestAt))

LEMMA MarksAreFew ==
  ASSUME NEW b, NEW source, NEW n \in Nat
  PROVE  /\ IsFiniteSet(Marks(b, source, n))
         /\ Cardinality(Marks(b, source, n)) \in Nat
<1>1. IsFiniteSet(1..n)
  BY FS_Interval
<1>2. Marks(b, source, n) \subseteq 1..n
  BY DEF Marks
<1>3. IsFiniteSet(Marks(b, source, n))
  BY <1>1, <1>2, FS_Subset
<1> QED BY <1>3, FS_CardinalityType

(* One more place, marked or not.                                          *)
LEMMA MarksNext ==
  ASSUME NEW b, NEW source, NEW n \in Nat
  PROVE  Cardinality(Marks(b, source, n + 1)) =
           IF b[n + 1].source = source /\ IsProjectManifestPath(b[n + 1].path)
           THEN Cardinality(Marks(b, source, n)) + 1
           ELSE Cardinality(Marks(b, source, n))
<1> DEFINE T == Marks(b, source, n)
           U == Marks(b, source, n + 1)
           marked == b[n + 1].source = source /\ IsProjectManifestPath(b[n + 1].path)
<1>1. IsFiniteSet(T)
  BY MarksAreFew
<1>2. n + 1 \notin T
  BY DEF Marks
<1>3. U = IF marked THEN T \cup {n + 1} ELSE T
  <2>1. 1..(n + 1) = 1..n \cup {n + 1}
    OBVIOUS
  <2> QED BY <2>1 DEF Marks
<1> HIDE DEF T, U, marked
<1>4. Cardinality(T \cup {n + 1}) = Cardinality(T) + 1
  BY <1>1, <1>2, FS_AddElement
<1>5. Cardinality(U) = IF marked THEN Cardinality(T) + 1 ELSE Cardinality(T)
  BY <1>3, <1>4
<1> QED BY <1>5 DEF T, U, marked

(* What is appended does not count for what is before it.                  *)
LEMMA MarksStay ==
  ASSUME NEW b, NEW c, NEW source, NEW n \in Nat, \A k \in 1..n : c[k] = b[k]
  PROVE  Marks(c, source, n) = Marks(b, source, n)
BY DEF Marks

(* What a publication sends are file-system events.                        *)
LEMMA PublishSends ==
  ASSUME TreeInv, bus \in Seq(Sent), Publish
  PROVE  /\ bus' \in Seq(Sent) /\ Len(bus) \in Nat /\ Len(bus') \in Nat
         /\ Len(bus) <= Len(bus')
         /\ \A k \in 1..Len(bus) : bus'[k] = bus[k]
         /\ \A k \in (Len(bus) + 1)..Len(bus') : bus'[k].source = "fs"
         /\ UNCHANGED <<manifestAt, lagged>>
<1> DEFINE kept == Sifted(Head(queue).paths, {p \in Path : IsInteresting(p)})
           sent == [k \in DOMAIN kept |-> FileSystem(kept[k])]
<1>1. /\ ReadyToPublish /\ bus' = bus \o sent
      /\ UNCHANGED <<manifestAt, lagged>>
  BY DEF Publish, readers
<1>2. queue # <<>> /\ queue \in Seq(Reported)
  BY <1>1 DEF ReadyToPublish, TreeInv
<1>3. Head(queue) \in Reported
  BY <1>2, HeadTailProperties
<1>4. Head(queue).paths \in Seq(Path)
  BY <1>3 DEF Reported
<1>5. kept \in Seq(Path)
  BY <1>4, SiftedLeaves
<1> HIDE DEF kept
<1>6. sent \in Seq(Sent) /\ \A k \in 1..Len(sent) : sent[k].source = "fs"
  <2>1. \A k \in DOMAIN kept : FileSystem(kept[k]) \in Sent /\ FileSystem(kept[k]).source = "fs"
    BY <1>5 DEF FileSystem, Sent
  <2>2. DOMAIN kept = 1..Len(kept) /\ Len(kept) \in Nat
    BY <1>5
  <2>3. sent \in [1..Len(kept) -> Sent]
    BY <2>1, <2>2
  <2>4. sent \in Seq(Sent) /\ Len(sent) = Len(kept)
    BY <2>2, <2>3
  <2> QED BY <2>1, <2>2, <2>4
<1> HIDE DEF sent
<1>7. /\ bus' \in Seq(Sent) /\ Len(bus') = Len(bus) + Len(sent)
      /\ Len(bus) \in Nat /\ Len(sent) \in Nat
      /\ \A i \in 1..Len(bus) : bus'[i] = bus[i]
      /\ \A i \in 1..Len(sent) : bus'[Len(bus) + i] = sent[i]
  <2>1. sent \in Seq(Sent)
    BY <1>6
  <2> QED BY <1>1, <2>1, ConcatParts
<1>8. ASSUME NEW k \in (Len(bus) + 1)..Len(bus') PROVE bus'[k].source = "fs"
  <2> DEFINE j == k - Len(bus)
  <2>1. j \in 1..Len(sent) /\ Len(bus) + j = k
    BY <1>7
  <2> HIDE DEF j
  <2>2. bus'[Len(bus) + j] = sent[j] /\ sent[j].source = "fs"
    BY <1>6, <1>7, <2>1
  <2> QED BY <2>1, <2>2
<1>9. Len(bus) <= Len(bus') /\ Len(bus') \in Nat
  BY <1>7
<1> QED BY <1>1, <1>7, <1>8, <1>9

LEMMA BusPublish ==
  ASSUME TreeInv, BusInv, Publish
  PROVE  BusInv'
<1>1. /\ bus' \in Seq(Sent) /\ Len(bus) \in Nat /\ Len(bus') \in Nat
      /\ Len(bus) <= Len(bus')
      /\ \A k \in 1..Len(bus) : bus'[k] = bus[k]
      /\ \A k \in (Len(bus) + 1)..Len(bus') : bus'[k].source = "fs"
      /\ UNCHANGED <<manifestAt, lagged>>
  BY PublishSends DEF BusInv
<1>2. manifestAt \in Nat /\ manifestAt <= Len(bus)
  BY DEF BusInv
<1>3. Marks(bus', "fs", manifestAt) = Marks(bus, "fs", manifestAt)
  BY <1>1, <1>2, MarksStay
<1>4. Marks(bus', "manifest", Len(bus')) = Marks(bus, "manifest", Len(bus))
  <2>1. Marks(bus', "manifest", Len(bus)) = Marks(bus, "manifest", Len(bus))
    BY <1>1, MarksStay
  <2>2. \A k \in 1..Len(bus') : k \in 1..Len(bus) \/ k \in (Len(bus) + 1)..Len(bus')
    BY <1>1
  <2>3. 1..Len(bus) \subseteq 1..Len(bus')
    BY <1>1
  <2>4. Marks(bus', "manifest", Len(bus')) = Marks(bus', "manifest", Len(bus))
    BY <1>1, <2>2, <2>3 DEF Marks
  <2> QED BY <2>1, <2>4
<1>5. manifestAt' <= Len(bus')
  BY <1>1, <1>2
<1> QED BY <1>1, <1>2, <1>3, <1>4, <1>5 DEF BusInv

LEMMA BusTake ==
  ASSUME BusInv, ManifestTakes
  PROVE  BusInv'
<1> DEFINE oldest == Len(bus) - BusCapacity
           n == manifestAt
           event == bus[n + 1]
<1>1. /\ n < Len(bus)
      /\ IF n < oldest
         THEN manifestAt' = oldest /\ lagged' = TRUE /\ UNCHANGED bus
         ELSE /\ manifestAt' = n + 1
              /\ bus' = IF IsManifestChange(event) THEN Append(bus, Manifest(event.path)) ELSE bus
              /\ UNCHANGED lagged
  BY DEF ManifestTakes
<1>2. /\ bus \in Seq(Sent) /\ n \in Nat /\ n <= Len(bus) /\ Len(bus) \in Nat /\ BusCapacity \in Nat
      /\ ~lagged => Cardinality(Marks(bus, "manifest", Len(bus)))
                      = Cardinality(Marks(bus, "fs", n))
  BY WatcherAssumption DEF BusInv
<1> HIDE DEF n
<1>3. CASE n < oldest
  <2>1. manifestAt' = oldest /\ lagged' = TRUE /\ bus' = bus
    BY <1>1, <1>3
  <2>2. manifestAt' \in Nat /\ manifestAt' <= Len(bus')
    BY <1>2, <1>3, <2>1
  <2> QED BY <1>2, <2>1, <2>2 DEF BusInv
<1>4. CASE ~(n < oldest) /\ ~IsManifestChange(event)
  <2>1. manifestAt' = n + 1 /\ bus' = bus /\ lagged' = lagged
    BY <1>1, <1>4
  <2>2. ~(bus[n + 1].source = "fs" /\ IsProjectManifestPath(bus[n + 1].path))
    BY <1>4 DEF IsManifestChange
  <2>3. Cardinality(Marks(bus, "fs", n + 1)) = Cardinality(Marks(bus, "fs", n))
    BY <1>2, <2>2, MarksNext
  <2>4. n + 1 \in Nat /\ n + 1 <= Len(bus)
    BY <1>1, <1>2
  <2> QED BY <1>2, <2>1, <2>3, <2>4 DEF BusInv
<1>5. CASE ~(n < oldest) /\ IsManifestChange(event)
  <2>1. manifestAt' = n + 1 /\ bus' = Append(bus, Manifest(event.path)) /\ lagged' = lagged
    BY <1>1, <1>5
  <2>2. bus[n + 1].source = "fs" /\ IsProjectManifestPath(bus[n + 1].path)
    BY <1>5 DEF IsManifestChange
  <2>3. n + 1 \in Nat /\ n + 1 <= Len(bus) /\ n + 1 \in 1..Len(bus)
    BY <1>1, <1>2
  <2>4. bus[n + 1] \in Sent
    BY <1>2, <2>3
  <2> DEFINE e == Manifest(event.path)
  <2>5. /\ e \in Sent /\ e.source = "manifest" /\ e.source # "fs"
        /\ IsProjectManifestPath(e.path)
    BY <2>2, <2>4 DEF Manifest, Sent
  <2> HIDE DEF e
  <2>6. /\ bus' \in Seq(Sent) /\ Len(bus') = Len(bus) + 1
        /\ \A k \in 1..Len(bus) : bus'[k] = bus[k]
        /\ bus'[Len(bus) + 1] = e
    BY <1>2, <2>1, <2>5, AppendProperties DEF e
  <2>7. Cardinality(Marks(bus', "manifest", Len(bus) + 1))
          = Cardinality(Marks(bus, "manifest", Len(bus))) + 1
    <3>1. Marks(bus', "manifest", Len(bus)) = Marks(bus, "manifest", Len(bus))
      BY <1>2, <2>6, MarksStay
    <3>2. /\ bus'[Len(bus) + 1].source = "manifest"
          /\ IsProjectManifestPath(bus'[Len(bus) + 1].path)
      BY <2>5, <2>6
    <3> QED BY <1>2, <3>1, <3>2, MarksNext
  <2>8. Cardinality(Marks(bus', "fs", n + 1)) = Cardinality(Marks(bus, "fs", n)) + 1
    <3>1. \A k \in 1..(n + 1) : bus'[k] = bus[k]
      BY <1>2, <2>3, <2>6
    <3>2. Marks(bus', "fs", n + 1) = Marks(bus, "fs", n + 1)
      BY <2>3, <3>1, MarksStay
    <3>3. Cardinality(Marks(bus, "fs", n + 1)) = Cardinality(Marks(bus, "fs", n)) + 1
      BY <1>2, <2>2, MarksNext
    <3> QED BY <3>2, <3>3
  <2>9. manifestAt' <= Len(bus')
    BY <1>2, <2>1, <2>3, <2>6
  <2> QED BY <1>2, <2>1, <2>3, <2>6, <2>7, <2>8, <2>9 DEF BusInv
<1> QED BY <1>3, <1>4, <1>5

LEMMA BusSteps == TreeInv /\ BusInv /\ [Next]_vars => BusInv'
<1> SUFFICES ASSUME TreeInv, BusInv, [Next]_vars PROVE BusInv'
  OBVIOUS
<1>1. CASE Publish
  BY <1>1, BusPublish
<1>2. CASE ManifestTakes
  BY <1>2, BusTake
<1>3. CASE UNCHANGED <<bus, manifestAt, lagged>>
  BY <1>3 DEF BusInv
<1>4. Publish \/ ManifestTakes \/ UNCHANGED <<bus, manifestAt, lagged>>
  BY DEF Next, vars, readers, MakeDir, RemoveTree, Save, MoveTree, Scan, List, ListNew,
         StoreTakes, Attach, WatchNew
<1> QED BY <1>1, <1>2, <1>3, <1>4

LEMMA BusStarts == Init => BusInv
<1> SUFFICES ASSUME Init PROVE BusInv
  OBVIOUS
<1>1. bus = <<>> /\ manifestAt = 0
  BY DEF Init
<1>2. bus \in Seq(Sent) /\ Len(bus) = 0
  BY <1>1
<1>3. Marks(bus, "manifest", 0) = {} /\ Marks(bus, "fs", 0) = {}
  BY DEF Marks
<1>4. Cardinality(Marks(bus, "manifest", Len(bus))) = Cardinality(Marks(bus, "fs", manifestAt))
  BY <1>1, <1>2, <1>3
<1>5. manifestAt \in Nat /\ manifestAt <= Len(bus)
  BY <1>1, <1>2
<1> QED BY <1>2, <1>4, <1>5 DEF BusInv

LEMMA TreeAlways == Spec => []TreeInv
BY TreeStarts, TreeSteps, PTL DEF Spec

(* As long as it does not fall BusCapacity behind, the manifest watcher    *)
(* derives one event from each change of a manifest that it has taken, and *)
(* nothing from the events it sends itself: in any tree, whatever changes. *)
THEOREM ManifestsAreFollowed == Spec => []ManifestFollows
<1>1. BusInv => ManifestFollows
  BY DEF BusInv, ManifestFollows, CountOf, Marks
<1> QED BY <1>1, TreeAlways, BusStarts, BusSteps, PTL DEF Spec
-----------------------------------------------------------------------------
(* What users did bounds what is sent.                                     *)

(* What an event of the watcher may still send: nothing, one event, or two *)
(* for the two paths of a rename.                                          *)
Loud   == {e \in Reported : \E k \in 1..Len(e.paths) : IsInteresting(e.paths[k])}
Paired == {e \in Loud : e.kind = "Both"}
Backlog(events) == Len(Sifted(events, Loud)) + Len(Sifted(events, Paired))

(* What a poll has still to find.                                          *)
Changed(p) == \/ p \in Entries(watched) \ seen
              \/ p \in seen \ Entries(watched)
              \/ p \in seen \cap Entries(watched) \cap dirty
Unreported == IF mode = "poll" THEN {p \in Path : Changed(p) /\ IsInteresting(p)} ELSE {}

FromFiles(b, upto) == {k \in 1..upto : b[k].source = "fs"}

(* A change may rename a directory that is watched natively, which is four *)
(* paths in three events; or it may change as much of a polled tree as     *)
(* there is.                                                               *)
PerOperation == IF Cardinality(Path) < 4 THEN 4 ELSE Cardinality(Path)

Shaped(e) == Len(e.paths) = IF e.kind = "Both" THEN 2 ELSE 1

CauseInv ==
  /\ ops \in Nat
  /\ \A k \in 1..Len(queue) : Shaped(queue[k])
  /\ Cardinality(FromFiles(bus, Len(bus))) + Backlog(queue) + Cardinality(Unreported)
       <= PerOperation * ops
  /\ Len(bus) <= Cardinality(FromFiles(bus, Len(bus)))
                 + Cardinality(FromFiles(bus, manifestAt))

(* The daemon does not feed on itself: however much it stores, and         *)
(* whatever it derives, the events of its file-system watcher and of its   *)
(* manifest watcher are bounded by what users did to files.                *)
CausedByUsers == Len(bus) <= 2 * (PerOperation * ops)

LEMMA FilesAreFew ==
  ASSUME NEW b, NEW n \in Nat
  PROVE  /\ IsFiniteSet(FromFiles(b, n)) /\ Cardinality(FromFiles(b, n)) \in Nat
         /\ \A m \in 0..n : Cardinality(FromFiles(b, m)) <= Cardinality(FromFiles(b, n))
<1>1. IsFiniteSet(1..n)
  BY FS_Interval
<1>2. FromFiles(b, n) \subseteq 1..n
  BY DEF FromFiles
<1>3. IsFiniteSet(FromFiles(b, n))
  BY <1>1, <1>2, FS_Subset
<1>4. \A m \in 0..n : FromFiles(b, m) \subseteq FromFiles(b, n)
  BY DEF FromFiles
<1> QED BY <1>3, <1>4, FS_Subset, FS_CardinalityType

(* One more place.                                                         *)
LEMMA FilesNext ==
  ASSUME NEW b, NEW n \in Nat
  PROVE  Cardinality(FromFiles(b, n + 1)) =
           IF b[n + 1].source = "fs" THEN Cardinality(FromFiles(b, n)) + 1
           ELSE Cardinality(FromFiles(b, n))
<1> DEFINE T == FromFiles(b, n)
           U == FromFiles(b, n + 1)
           file == b[n + 1].source = "fs"
<1>1. IsFiniteSet(T)
  BY FilesAreFew
<1>2. n + 1 \notin T
  BY DEF FromFiles
<1>3. U = IF file THEN T \cup {n + 1} ELSE T
  <2>1. 1..(n + 1) = 1..n \cup {n + 1}
    OBVIOUS
  <2> QED BY <2>1 DEF FromFiles
<1> HIDE DEF T, U, file
<1>4. Cardinality(T \cup {n + 1}) = Cardinality(T) + 1
  BY <1>1, <1>2, FS_AddElement
<1>5. Cardinality(U) = IF file THEN Cardinality(T) + 1 ELSE Cardinality(T)
  BY <1>3, <1>4
<1> QED BY <1>5 DEF T, U, file

LEMMA FilesStay ==
  ASSUME NEW b, NEW c, NEW n \in Nat, \A k \in 1..n : c[k] = b[k]
  PROVE  FromFiles(c, n) = FromFiles(b, n)
BY DEF FromFiles

(* A stretch of file-system events at the end.                             *)
LEMMA FilesRun ==
  ASSUME NEW b, NEW n \in Nat, NEW m \in Nat,
         \A k \in (n + 1)..(n + m) : b[k].source = "fs"
  PROVE  Cardinality(FromFiles(b, n + m)) = Cardinality(FromFiles(b, n)) + m
<1> DEFINE T == {j \in 0..m : Cardinality(FromFiles(b, n + j)) = Cardinality(FromFiles(b, n)) + j}
<1>1. Cardinality(FromFiles(b, n)) \in Nat
  BY FilesAreFew
<1>2. 0 \in T
  BY <1>1
<1>3. ASSUME NEW j \in 1..m, j - 1 \in T PROVE j \in T
  <2> DEFINE i == j - 1
  <2>1. i \in Nat /\ n + i \in Nat /\ (n + i) + 1 = n + j /\ n + j \in (n + 1)..(n + m)
    OBVIOUS
  <2>2. Cardinality(FromFiles(b, n + i)) = Cardinality(FromFiles(b, n)) + i
    BY <1>3
  <2>3. b[(n + i) + 1].source = "fs"
    BY <2>1
  <2>4. Cardinality(FromFiles(b, (n + i) + 1)) = Cardinality(FromFiles(b, n + i)) + 1
    BY <2>1, <2>3, FilesNext
  <2>5. Cardinality(FromFiles(b, n + j)) = Cardinality(FromFiles(b, n)) + j
    BY <1>1, <2>1, <2>2, <2>4
  <2> QED BY <2>5
<1> HIDE DEF T
<1>4. m \in T
  BY <1>2, <1>3, UpTo
<1> QED BY <1>4 DEF T

(* The backlog of events is the sum of that of its parts.                  *)
LEMMA BacklogOfBoth ==
  ASSUME NEW a \in Seq(Reported), NEW b \in Seq(Reported)
  PROVE  /\ Backlog(a \o b) = Backlog(a) + Backlog(b)
         /\ Backlog(a) \in Nat /\ Backlog(b) \in Nat
<1>1. ASSUME NEW keep
      PROVE  /\ Len(Sifted(a \o b, keep)) = Len(Sifted(a, keep)) + Len(Sifted(b, keep))
             /\ Len(Sifted(a, keep)) \in Nat /\ Len(Sifted(b, keep)) \in Nat
  <2>1. Sifted(a \o b, keep) = Sifted(a, keep) \o Sifted(b, keep)
    BY SiftedConcat
  <2>2. Sifted(a, keep) \in Seq(Reported) /\ Sifted(b, keep) \in Seq(Reported)
    BY SiftedLeaves
  <2> QED BY <2>1, <2>2, ConcatProperties
<1> QED BY <1>1 DEF Backlog

LEMMA BacklogOfNone == Backlog(<<>>) = 0
<1>1. \A keep : Sifted(<<>>, keep) = <<>>
  <2> SUFFICES ASSUME NEW keep PROVE Sifted(<<>>, keep) = <<>>
    OBVIOUS
  <2> DEFINE none == <<>>
  <2>1. none \in Seq(Reported) /\ \A i \in 1..Len(none) : none[i] \notin keep
    OBVIOUS
  <2> HIDE DEF none
  <2>2. Sifted(none, keep) = <<>>
    BY <2>1, SiftedNone
  <2> QED BY <2>2 DEF none
<1> QED BY <1>1 DEF Backlog

LEMMA SiftedOne ==
  ASSUME NEW e \in Reported, NEW keep
  PROVE  Len(Sifted(<<e>>, keep)) = IF e \in keep THEN 1 ELSE 0
<1> DEFINE s == <<e>>
<1>1. s \in Seq(Reported) /\ Len(s) = 1 /\ s[1] = e
  OBVIOUS
<1> HIDE DEF s
<1>2. CASE e \notin keep
  <2>1. Sifted(s, keep) = <<>>
    BY <1>1, <1>2, SiftedNone
  <2> QED BY <1>2, <2>1 DEF s
<1>3. CASE e \in keep
  <2>1. /\ Len(Sifted(s, keep)) \in Nat /\ Len(Sifted(s, keep)) <= 1
        /\ \E k \in 1..Len(Sifted(s, keep)) : Sifted(s, keep)[k] = e
    <3>1. 1 \in 1..Len(s) /\ s[1] \in keep /\ s \in Seq(Reported)
      BY <1>1, <1>3
    <3>2. /\ Len(Sifted(s, keep)) \in Nat /\ Len(Sifted(s, keep)) <= Len(s)
          /\ \E k \in 1..Len(Sifted(s, keep)) : Sifted(s, keep)[k] = s[1]
      BY <3>1, SiftedElements
    <3> QED BY <1>1, <3>2
  <2>2. Len(Sifted(s, keep)) = 1
    BY <2>1
  <2> QED BY <1>3, <2>2 DEF s
<1> QED BY <1>2, <1>3

LEMMA BacklogOfOne ==
  ASSUME NEW e \in Reported
  PROVE  /\ Backlog(<<e>>) = (IF e \in Loud THEN 1 ELSE 0) + (IF e \in Paired THEN 1 ELSE 0)
         /\ e.kind # "Both" => Backlog(<<e>>) = IF e \in Loud THEN 1 ELSE 0
         /\ Backlog(<<e>>) \in 0..2
<1>1. Backlog(<<e>>) = (IF e \in Loud THEN 1 ELSE 0) + (IF e \in Paired THEN 1 ELSE 0)
  BY SiftedOne DEF Backlog
<1>2. e.kind # "Both" => e \notin Paired
  BY DEF Paired
<1> QED BY <1>1, <1>2

LEMMA CountsAreNat ==
  ASSUME IsFiniteSet(Path), TreeInv, BusInv
  PROVE  /\ Len(bus) \in Nat /\ manifestAt \in 0..Len(bus)
         /\ Cardinality(FromFiles(bus, Len(bus))) \in Nat
         /\ Cardinality(FromFiles(bus, manifestAt)) \in Nat
         /\ Cardinality(FromFiles(bus, manifestAt)) <= Cardinality(FromFiles(bus, Len(bus)))
         /\ Backlog(queue) \in Nat
         /\ IsFiniteSet(Unreported) /\ Cardinality(Unreported) \in Nat
         /\ Cardinality(Unreported) <= PerOperation
         /\ PerOperation \in Nat /\ PerOperation >= 4
<1>1. Len(bus) \in Nat /\ manifestAt \in 0..Len(bus) /\ manifestAt \in Nat
  BY DEF BusInv
<1>2. queue \in Seq(Reported)
  BY DEF TreeInv
<1>3. Unreported \in SUBSET Path
  BY DEF Unreported
<1>4. /\ IsFiniteSet(Unreported) /\ Cardinality(Unreported) \in Nat
      /\ Cardinality(Unreported) <= Cardinality(Path) /\ Cardinality(Path) \in Nat
  BY <1>3, FS_Subset, FS_CardinalityType
<1>5. /\ PerOperation \in Nat /\ PerOperation >= 4 /\ Cardinality(Path) <= PerOperation
  BY <1>4 DEF PerOperation
<1>6. Cardinality(Unreported) <= PerOperation
  BY <1>4, <1>5
<1>7. Backlog(queue) \in Nat
  BY <1>2, BacklogOfBoth
<1> QED BY <1>1, <1>4, <1>5, <1>6, <1>7, FilesAreFew

(* One operation more allows for PerOperation more.                        *)
LEMMA OneMore ==
  ASSUME NEW n \in Nat, NEW m \in Nat
  PROVE  /\ n * m \in Nat /\ n * (m + 1) = n * m + n
OBVIOUS

(* What users do under a native watch is at most four more paths to        *)
(* report; under a poll, at most all there is.                             *)
LEMMA CauseNotice ==
  ASSUME IsFiniteSet(Path), TreeInv, BusInv, CauseInv, TreeInv', BusInv',
         NEW events \in Seq(Reported), \A k \in 1..Len(events) : Shaped(events[k]),
         Backlog(events) <= 4, NEW touched, touched \subseteq Path,
         Notice(events, touched), ops' = ops + 1, UNCHANGED <<mode, bus, manifestAt>>
  PROVE  CauseInv'
<1> DEFINE F == Cardinality(FromFiles(bus, Len(bus)))
           Q == Backlog(queue)
           U == Cardinality(Unreported)
           B == Backlog(events)
           K == PerOperation
<1>1. /\ F \in Nat /\ Q \in Nat /\ U \in Nat /\ B \in Nat /\ K \in Nat /\ K >= 4
      /\ Cardinality(Unreported') \in Nat /\ Cardinality(Unreported') <= K
  <2>1. Cardinality(Unreported') \in Nat /\ Cardinality(Unreported') <= K
    <3>1. Unreported' \in SUBSET Path
      BY DEF Unreported
    <3>2. /\ Cardinality(Unreported') \in Nat /\ Cardinality(Path) \in Nat
          /\ Cardinality(Unreported') <= Cardinality(Path)
      BY <3>1, FS_Subset, FS_CardinalityType
    <3> QED BY <3>2 DEF PerOperation
  <2>2. B \in Nat
    BY BacklogOfBoth
  <2> QED BY <2>1, <2>2, CountsAreNat
<1>2. ops \in Nat /\ F + Q + U <= K * ops
  BY DEF CauseInv
<1>3. K * ops' = K * ops + K /\ K * ops \in Nat
  <2> HIDE DEF K
  <2> QED BY <1>1, <1>2, OneMore
<1>4. \A k \in 1..Len(queue') : Shaped(queue'[k])
  <2>1. queue \in Seq(Reported) /\ \A k \in 1..Len(queue) : Shaped(queue[k])
    BY DEF TreeInv, CauseInv
  <2>2. CASE mode = "native"
    <3>1. queue' = queue \o events
      BY <2>2 DEF Notice
    <3>2. /\ Len(queue') = Len(queue) + Len(events) /\ Len(queue) \in Nat /\ Len(events) \in Nat
          /\ \A i \in 1..Len(queue) : queue'[i] = queue[i]
          /\ \A i \in 1..Len(events) : queue'[Len(queue) + i] = events[i]
      BY <2>1, <3>1, ConcatParts
    <3>3. SUFFICES ASSUME NEW k \in 1..Len(queue'), k \notin 1..Len(queue)
                   PROVE  Shaped(queue'[k])
      BY <2>1, <3>2
    <3> DEFINE i == k - Len(queue)
    <3>4. i \in 1..Len(events) /\ Len(queue) + i = k
      BY <3>2, <3>3
    <3> HIDE DEF i
    <3> QED BY <3>2, <3>4
  <2>3. CASE mode # "native"
    <3>1. queue' = queue
      BY <2>3 DEF Notice
    <3> QED BY <2>1, <3>1
  <2> QED BY <2>2, <2>3
<1>5. F + Backlog(queue') + Cardinality(Unreported') <= K * ops'
  <2>1. CASE mode = "native"
    <3>1. queue' = queue \o events /\ mode' # "poll"
      BY <2>1 DEF Notice
    <3>2. Backlog(queue') = Q + B
      BY <3>1, BacklogOfBoth DEF TreeInv
    <3>3. Unreported' = {}
      BY <3>1 DEF Unreported
    <3>4. Cardinality(Unreported') = 0
      BY <3>3, FS_EmptySet
    <3> HIDE DEF F, Q, U, B, K
    <3> QED BY <1>1, <1>2, <1>3, <3>2, <3>4 DEF B
  <2>2. CASE mode # "native"
    <3>1. queue' = queue
      BY <2>2 DEF Notice
    <3>2. Backlog(queue') = Q
      BY <3>1
    <3> HIDE DEF F, Q, U, B, K
    <3> QED BY <1>1, <1>2, <1>3, <3>2
  <2> QED BY <2>1, <2>2
<1>6. ops' \in Nat
  BY <1>2
<1>7. /\ Cardinality(FromFiles(bus', Len(bus'))) = F
      /\ Cardinality(FromFiles(bus', manifestAt')) = Cardinality(FromFiles(bus, manifestAt))
      /\ Len(bus') = Len(bus)
  OBVIOUS
<1>8. Len(bus) <= F + Cardinality(FromFiles(bus, manifestAt))
  BY DEF CauseInv
<1> HIDE DEF F, K
<1> QED BY <1>4, <1>5, <1>6, <1>7, <1>8 DEF CauseInv, K

(* An event of one path, and those of a rename.                            *)
LEMMA OneTold ==
  ASSUME NEW kind \in Kind \ {"Both"}, NEW p \in Path
  PROVE  /\ Report(Event(kind, <<p>>)) \in Seq(Reported)
         /\ \A k \in 1..Len(Report(Event(kind, <<p>>))) : Shaped(Report(Event(kind, <<p>>))[k])
         /\ Backlog(Report(Event(kind, <<p>>))) \in 0..1
         /\ ~IsInteresting(p) => Backlog(Report(Event(kind, <<p>>))) = 0
<1> DEFINE e == Event(kind, <<p>>)
           r == Report(e)
<1>1. /\ e \in Reported /\ e.kind = kind /\ e.paths = <<p>> /\ r \in Seq(Reported)
      /\ Len(<<p>>) = 1 /\ <<p>>[1] = p
  BY ReportOfOne
<1>2. r = <<>> \/ r = <<e>>
  BY DEF Report
<1>3. Shaped(e) /\ e.kind # "Both"
  BY <1>1 DEF Shaped
<1>4. e \in Loud <=> IsInteresting(p)
  <2> HIDE DEF e
  <2>1. e \in Loud <=> \E k \in 1..Len(e.paths) : IsInteresting(e.paths[k])
    BY <1>1 DEF Loud
  <2> DEFINE s == <<p>>
  <2>2. e.paths = s /\ Len(s) = 1 /\ s[1] = p
    BY <1>1
  <2> HIDE DEF s
  <2> QED BY <2>1, <2>2
<1> HIDE DEF e
<1>5. Backlog(<<e>>) = IF IsInteresting(p) THEN 1 ELSE 0
  BY <1>1, <1>3, <1>4, BacklogOfOne
<1>6. /\ \A k \in 1..Len(r) : Shaped(r[k])
      /\ Backlog(r) \in 0..1 /\ (~IsInteresting(p) => Backlog(r) = 0)
  <2>1. CASE r = <<>>
    BY <2>1, BacklogOfNone
  <2>2. CASE r = <<e>>
    BY <1>3, <1>5, <2>2
  <2> QED BY <1>2, <2>1, <2>2
<1> QED BY <1>1, <1>6 DEF e

LEMMA RenameTold ==
  ASSUME NEW from \in Path, NEW to \in Path
  PROVE  /\ MoveEvents(from, to) \in Seq(Reported)
         /\ \A k \in 1..Len(MoveEvents(from, to)) : Shaped(MoveEvents(from, to)[k])
         /\ Backlog(MoveEvents(from, to)) <= 4
<1> DEFINE a == Report(Event("From", <<from>>))
           b == Report(Event("To", <<to>>))
           both == Event("Both", <<from, to>>)
           c == IF Front(from) \in watched /\ Front(to) \in watched THEN <<both>> ELSE <<>>
           ab == a \o b
           all == ab \o c
<1>1. /\ a \in Seq(Reported) /\ (\A k \in 1..Len(a) : Shaped(a[k])) /\ Backlog(a) \in 0..1
      /\ b \in Seq(Reported) /\ (\A k \in 1..Len(b) : Shaped(b[k])) /\ Backlog(b) \in 0..1
  BY OneTold DEF Kind
<1>2. both \in Reported /\ Shaped(both)
  <2>1. <<from, to>> \in Seq(Path) /\ Len(<<from, to>>) = 2
    OBVIOUS
  <2>2. both.kind = "Both" /\ both.paths = <<from, to>> /\ both \in Reported
    BY <2>1 DEF Event, Reported, Kind
  <2> HIDE DEF both
  <2> QED BY <2>1, <2>2 DEF Shaped
<1> HIDE DEF both
<1>3. c \in Seq(Reported) /\ (\A k \in 1..Len(c) : Shaped(c[k])) /\ Backlog(c) \in 0..2
  <2>1. <<both>> \in Seq(Reported) /\ (\A k \in 1..Len(<<both>>) : Shaped(<<both>>[k]))
    BY <1>2
  <2>2. Backlog(<<both>>) \in 0..2
    BY <1>2, BacklogOfOne
  <2>3. /\ <<>> \in Seq(Reported) /\ (\A k \in 1..Len(<<>>) : Shaped(<<>>[k]))
        /\ Backlog(<<>>) \in 0..2
    BY BacklogOfNone
  <2>4. c = <<both>> \/ c = <<>>
    OBVIOUS
  <2> HIDE DEF c
  <2> QED BY <2>1, <2>2, <2>3, <2>4
<1>4. all = MoveEvents(from, to)
  BY DEF MoveEvents, both
<1>5. ab = a \o b /\ all = ab \o c
  OBVIOUS
<1> HIDE DEF a, b, c, ab, all
<1>6. ASSUME NEW s \in Seq(Reported), NEW t \in Seq(Reported),
             \A k \in 1..Len(s) : Shaped(s[k]), \A k \in 1..Len(t) : Shaped(t[k])
      PROVE  /\ s \o t \in Seq(Reported) /\ \A k \in 1..Len(s \o t) : Shaped((s \o t)[k])
             /\ Backlog(s \o t) = Backlog(s) + Backlog(t)
             /\ Backlog(s) \in Nat /\ Backlog(t) \in Nat
  <2> DEFINE u == s \o t
  <2>1. /\ u \in Seq(Reported) /\ Len(u) = Len(s) + Len(t) /\ Len(s) \in Nat /\ Len(t) \in Nat
        /\ \A i \in 1..Len(s) : u[i] = s[i]
        /\ \A i \in 1..Len(t) : u[Len(s) + i] = t[i]
    BY ConcatParts
  <2>2. /\ Backlog(u) = Backlog(s) + Backlog(t) /\ Backlog(s) \in Nat /\ Backlog(t) \in Nat
    BY BacklogOfBoth
  <2> HIDE DEF u
  <2>3. ASSUME NEW k \in 1..Len(u) PROVE Shaped(u[k])
    <3>1. CASE k \in 1..Len(s)
      BY <1>6, <2>1, <3>1
    <3>2. CASE k \notin 1..Len(s)
      <4> DEFINE i == k - Len(s)
      <4>1. i \in 1..Len(t) /\ Len(s) + i = k
        BY <2>1, <3>2
      <4> HIDE DEF i
      <4> QED BY <1>6, <2>1, <4>1
    <3> QED BY <3>1, <3>2
  <2> QED BY <2>1, <2>2, <2>3 DEF u
<1>7. /\ ab \in Seq(Reported) /\ (\A k \in 1..Len(ab) : Shaped(ab[k]))
      /\ Backlog(ab) = Backlog(a) + Backlog(b)
  BY <1>1, <1>5, <1>6
<1>8. /\ all \in Seq(Reported) /\ (\A k \in 1..Len(all) : Shaped(all[k]))
      /\ Backlog(all) = Backlog(ab) + Backlog(c)
  BY <1>3, <1>5, <1>6, <1>7
<1>9. Backlog(all) <= 4
  BY <1>1, <1>3, <1>7, <1>8
<1> QED BY <1>4, <1>8, <1>9

LEMMA CauseUsers ==
  ASSUME IsFiniteSet(Path), TreeInv, BusInv, CauseInv, TreeInv', BusInv',
         \/ \E p \in DirPath : MakeDir(p) \/ RemoveTree(p)
         \/ \E p \in FilePath : Save(p)
         \/ \E p, q \in DirPath : MoveTree(p, q)
  PROVE  CauseInv'
<1>1. ASSUME NEW p \in DirPath, MakeDir(p) PROVE CauseInv'
  <2>1. /\ Notice(Report(Event("Create", <<p>>)), {p})
        /\ ops' = ops + 1 /\ UNCHANGED <<mode, bus, manifestAt>>
    BY <1>1 DEF MakeDir, task, readers
  <2>2. p \in Path /\ "Create" \in Kind \ {"Both"}
    BY Paths DEF Kind
  <2> QED BY <2>1, <2>2, OneTold, CauseNotice
<1>2. ASSUME NEW p \in DirPath, RemoveTree(p) PROVE CauseInv'
  <2>1. /\ Notice(Report(Event("Remove", <<p>>)), {p})
        /\ ops' = ops + 1 /\ UNCHANGED <<mode, bus, manifestAt>>
    BY <1>2 DEF RemoveTree, readers
  <2>2. p \in Path /\ "Remove" \in Kind \ {"Both"}
    BY Paths DEF Kind
  <2> QED BY <2>1, <2>2, OneTold, CauseNotice
<1>3. ASSUME NEW p \in FilePath, Save(p) PROVE CauseInv'
  <2>1. /\ \E kind \in {"To", IF p \in files THEN "Modify" ELSE "Create"} :
             Notice(Report(Event(kind, <<p>>)), {p})
        /\ ops' = ops + 1 /\ UNCHANGED <<mode, bus, manifestAt>>
    BY <1>3 DEF Save, task, readers
  <2>2. PICK kind \in Kind \ {"Both"} : Notice(Report(Event(kind, <<p>>)), {p})
    BY <2>1 DEF Kind
  <2>3. p \in Path
    BY Paths
  <2> QED BY <2>1, <2>2, <2>3, OneTold, CauseNotice
<1>4. ASSUME NEW from \in DirPath, NEW to \in DirPath, MoveTree(from, to) PROVE CauseInv'
  <2>1. /\ Notice(MoveEvents(from, to), {from, to})
        /\ ops' = ops + 1 /\ UNCHANGED <<mode, bus, manifestAt>>
    BY <1>4 DEF MoveTree, MoveEvents, readers
  <2>2. from \in Path /\ to \in Path
    BY Paths
  <2> QED BY <2>1, <2>2, RenameTold, CauseNotice
<1> QED BY <1>1, <1>2, <1>3, <1>4

(* What the store writes is the daemon's own, and of no interest.          *)
LEMMA OwnIsIgnored == ~IsInteresting(DbPath)
<1>1. DbPath \in OwnPaths /\ DbPath \in Seq(STRING)
  BY WatcherAssumption, Paths
<1>2. IsPrefix(DbPath, DbPath)
  BY <1>1, PrefixSelf
<1> QED BY <1>1, <1>2 DEF IsInteresting, IsIgnoredDirectory

LEMMA CauseStore ==
  ASSUME IsFiniteSet(Path), TreeInv, BusInv, CauseInv, StoreTakes
  PROVE  CauseInv'
<1> DEFINE events == Report(Event("Modify", <<DbPath>>))
<1>1. /\ Notice(events, {DbPath})
      /\ UNCHANGED <<dirs, files, ops, mode, watched, seen, bus, manifestAt>>
  BY DEF StoreTakes, task
<1>2. DbPath \in Path /\ "Modify" \in Kind \ {"Both"}
  BY Paths DEF Kind
<1>3. /\ events \in Seq(Reported) /\ (\A k \in 1..Len(events) : Shaped(events[k]))
      /\ Backlog(events) = 0
  BY <1>2, OneTold, OwnIsIgnored
<1> HIDE DEF events
<1>4. queue \in Seq(Reported) /\ \A k \in 1..Len(queue) : Shaped(queue[k])
  BY DEF TreeInv, CauseInv
<1>5. Backlog(queue') = Backlog(queue) /\ \A k \in 1..Len(queue') : Shaped(queue'[k])
  <2>1. CASE mode = "native"
    <3>1. queue' = queue \o events
      BY <1>1, <2>1 DEF Notice
    <3>2. /\ Len(queue') = Len(queue) + Len(events) /\ Len(queue) \in Nat /\ Len(events) \in Nat
          /\ \A i \in 1..Len(queue) : queue'[i] = queue[i]
          /\ \A i \in 1..Len(events) : queue'[Len(queue) + i] = events[i]
      BY <1>3, <1>4, <3>1, ConcatParts
    <3>3. ASSUME NEW k \in 1..Len(queue'), k \notin 1..Len(queue) PROVE Shaped(queue'[k])
      <4> DEFINE i == k - Len(queue)
      <4>1. i \in 1..Len(events) /\ Len(queue) + i = k
        BY <3>2, <3>3
      <4> HIDE DEF i
      <4> QED BY <1>3, <3>2, <4>1
    <3>4. /\ Backlog(queue') = Backlog(queue) + Backlog(events) /\ Backlog(queue) \in Nat
      BY <1>3, <1>4, <3>1, BacklogOfBoth
    <3>5. Backlog(queue') = Backlog(queue)
      BY <1>3, <3>4
    <3> QED BY <1>4, <3>2, <3>3, <3>5
  <2>2. CASE mode # "native"
    <3>1. queue' = queue
      BY <1>1, <2>2 DEF Notice
    <3> QED BY <1>4, <3>1
  <2> QED BY <2>1, <2>2
<1>6. Unreported' = Unreported
  <2>1. dirty' = dirty \/ dirty' = dirty \cup {DbPath} \/ dirty' = dirty \cup {}
    BY <1>1 DEF Notice
  <2>2. \A p : IsInteresting(p) => (p \in dirty' <=> p \in dirty)
    BY <2>1, OwnIsIgnored
  <2>3. Entries(watched)' = Entries(watched) /\ seen' = seen /\ mode' = mode
    BY <1>1 DEF Entries
  <2>4. \A p : IsInteresting(p)' = IsInteresting(p)
    BY DEF IsInteresting, IsIgnoredDirectory
  <2>5. \A p : IsInteresting(p) => (Changed(p)' <=> Changed(p))
    BY <2>2, <2>3 DEF Changed
  <2> QED BY <2>3, <2>4, <2>5 DEF Unreported
<1> QED BY <1>1, <1>5, <1>6 DEF CauseInv

(* What a scan finds is no longer to be found.                             *)
LEMMA CauseScan ==
  ASSUME IsFiniteSet(Path), TreeInv, BusInv, CauseInv, Scan
  PROVE  CauseInv'
<1>1. mode = "poll" /\ UNCHANGED <<dirs, files, ops, mode, watched, bus, manifestAt>>
  BY DEF Scan, world, task, readers
<1>2. PICK kind, p : ScanOf(kind, p)
  BY ScanIs
<1> DEFINE e == Event(kind, <<p>>)
           s == <<e>>
           loud == IF IsInteresting(p) THEN 1 ELSE 0
<1>3. /\ kind \in Kind \ {"Both"} /\ p \in Path /\ e \in Reported
      /\ queue' = Append(queue, e) /\ Changed(p)
      /\ queue \in Seq(Reported) /\ \A k \in 1..Len(queue) : Shaped(queue[k])
  BY <1>2 DEF ScanOf, Changed, Kind, TreeInv, CauseInv
<1>4. /\ e.kind = kind /\ e.paths = <<p>> /\ Len(<<p>>) = 1 /\ <<p>>[1] = p
  BY <1>3, ReportOfOne
<1>5. Shaped(e) /\ (e \in Loud <=> IsInteresting(p))
  <2> DEFINE one == <<p>>
  <2>1. Len(one) = 1 /\ one[1] = p /\ e.paths = one /\ e \in Reported /\ e.kind # "Both"
    BY <1>3, <1>4
  <2> HIDE DEF one, e
  <2> QED BY <2>1 DEF Loud, Shaped
<1>6. Backlog(s) = loud
  <2>1. e.kind # "Both" /\ e \in Reported
    BY <1>3, <1>4
  <2> HIDE DEF e
  <2> QED BY <1>5, <2>1, BacklogOfOne
<1> HIDE DEF e
<1>7. s \in Seq(Reported) /\ queue' = queue \o s
  <2>1. s \in Seq(Reported)
    BY <1>3
  <2>2. Append(queue, e) = queue \o s
    BY <1>3
  <2> QED BY <1>3, <2>1, <2>2
<1> HIDE DEF s
<1>8. Backlog(queue') = Backlog(queue) + loud /\ Backlog(queue) \in Nat
  BY <1>3, <1>6, <1>7, BacklogOfBoth
<1>9. \A k \in 1..Len(queue') : Shaped(queue'[k])
  <2>1. /\ Len(queue') = Len(queue) + 1 /\ Len(queue) \in Nat
        /\ \A k \in 1..Len(queue) : queue'[k] = queue[k]
        /\ queue'[Len(queue) + 1] = e
    BY <1>3, AppendProperties
  <2>2. \A k \in 1..Len(queue') : k \in 1..Len(queue) \/ k = Len(queue) + 1
    BY <2>1
  <2> QED BY <1>3, <1>5, <2>1, <2>2
<1>10. Unreported' = Unreported \ {p}
  <2>1. Entries(watched)' = Entries(watched) /\ mode' = "poll" /\ mode = "poll"
    BY <1>1 DEF Entries
  <2>2. \A q : IsInteresting(q)' = IsInteresting(q)
    BY DEF IsInteresting, IsIgnoredDirectory
  <2>3. \A q : Changed(q)' <=> Changed(q) /\ q # p
    BY <1>2, <2>1 DEF Changed, ScanOf
  <2> QED BY <2>1, <2>2, <2>3 DEF Unreported
<1>11. p \in Unreported <=> IsInteresting(p)
  BY <1>1, <1>3 DEF Unreported
<1>12. Cardinality(Unreported') = Cardinality(Unreported) - loud
  <2>1. IsFiniteSet(Unreported) /\ Cardinality(Unreported) \in Nat
    BY CountsAreNat
  <2>2. Cardinality(Unreported \ {p}) = IF p \in Unreported THEN Cardinality(Unreported) - 1
                                        ELSE Cardinality(Unreported)
    BY <2>1, FS_RemoveElement
  <2> QED BY <1>10, <1>11, <2>1, <2>2
<1> DEFINE F == Cardinality(FromFiles(bus, Len(bus)))
<1>13. F \in Nat /\ Cardinality(Unreported) \in Nat /\ loud \in Nat
  BY CountsAreNat
<1>14. /\ ops \in Nat /\ F + Backlog(queue) + Cardinality(Unreported) <= PerOperation * ops
       /\ Len(bus) <= F + Cardinality(FromFiles(bus, manifestAt))
  BY DEF CauseInv
<1>15. /\ Cardinality(FromFiles(bus', Len(bus'))) = F
       /\ Cardinality(FromFiles(bus', manifestAt')) = Cardinality(FromFiles(bus, manifestAt))
       /\ Len(bus') = Len(bus) /\ ops' = ops
  BY <1>1
<1> HIDE DEF F, loud
<1>16. F + Backlog(queue') + Cardinality(Unreported') = F + Backlog(queue) + Cardinality(Unreported)
  BY <1>8, <1>12, <1>13
<1> QED BY <1>9, <1>14, <1>15, <1>16 DEF CauseInv

(* A poll takes stock of what it is given: nothing is changed there.       *)
LEMMA CauseWatch ==
  ASSUME IsFiniteSet(Path), TreeInv, BusInv, CauseInv,
         \/ List \/ ListNew
         \/ \E d \in DirPath : Attach(d) \/ WatchNew(d)
  PROVE  CauseInv'
<1>1. UNCHANGED <<dirs, files, ops, queue, bus, manifestAt>>
  BY DEF List, ListNew, Attach, WatchNew, world, readers
<1>2. Unreported' \subseteq Unreported
  <2> DEFINE now == Entries(watched)
  <2>0. \A p : IsInteresting(p)' = IsInteresting(p)
    BY DEF IsInteresting, IsIgnoredDirectory
  <2>1. CASE List \/ ListNew
    <3>1. UNCHANGED <<dirs, files, mode, watched, seen, dirty>>
      BY <1>1, <2>1 DEF List, ListNew
    <3> QED BY <2>0, <3>1 DEF Unreported, Changed, Entries
  <2>2. ASSUME NEW d \in DirPath, Attach(d) PROVE Unreported' = {}
    <3>1. mode = "native" /\ dirty = {} /\ dirty' = dirty
      BY <2>2 DEF Attach, TreeInv
    <3>2. CASE mode' = "poll"
      <4>1. seen' = Entries(watched')
        BY <2>2, <3>1, <3>2 DEF Attach
      <4>2. Entries(watched)' = Entries(watched')
        BY <1>1 DEF Entries
      <4> QED BY <3>1, <4>1, <4>2 DEF Unreported, Changed
    <3>3. CASE mode' # "poll"
      BY <3>3 DEF Unreported
    <3> QED BY <3>2, <3>3
  <2>3. ASSUME NEW d \in DirPath, WatchNew(d) PROVE Unreported' \subseteq Unreported
    <3>1. /\ mode' = mode
          /\ watched' = IF /\ d \in dirs
                           /\ ~(/\ mode = "native" /\ d \notin watched
                                /\ Cardinality(watched) = WatchLimit)
                        THEN watched \cup {d} ELSE watched
      BY <2>3 DEF WatchNew
    <3>2. CASE mode = "poll" /\ d \in dirs
      <4>1. /\ seen' = {p \in seen : Front(p) # d} \cup Entries({d})
            /\ dirty' = {p \in dirty : Front(p) # d}
            /\ watched' = watched \cup {d}
        BY <2>3, <3>1, <3>2 DEF WatchNew
      <4>2. \A p : p \in Entries(watched)' <=> p \in Entries(watched) \/ p \in Entries({d})
        BY <1>1, <4>1 DEF Entries
      <4>3. /\ \A p \in Entries({d}) : Front(p) = d
            /\ \A p \in Entries(watched) : Front(p) = d => p \in Entries({d})
        BY DEF Entries
      <4>4. \A p \in Path : Changed(p)' => Changed(p)
        BY <4>1, <4>2, <4>3 DEF Changed
      <4> QED BY <2>0, <3>1, <4>4 DEF Unreported
    <3>3. CASE mode = "poll" /\ d \notin dirs
      <4>1. UNCHANGED <<dirs, files, mode, watched, seen, dirty>>
        BY <1>1, <2>3, <3>1, <3>3 DEF WatchNew
      <4> QED BY <2>0, <4>1 DEF Unreported, Changed, Entries
    <3>4. CASE mode # "poll"
      BY <3>1, <3>4 DEF Unreported
    <3> QED BY <3>2, <3>3, <3>4
  <2> QED BY <2>1, <2>2, <2>3
<1>3. /\ Cardinality(Unreported') <= Cardinality(Unreported)
      /\ Cardinality(Unreported') \in Nat /\ Cardinality(Unreported) \in Nat
  <2>1. IsFiniteSet(Unreported) /\ Unreported' \in SUBSET Unreported
    BY <1>2, CountsAreNat
  <2> QED BY <2>1, FS_Subset, FS_CardinalityType
<1> DEFINE F == Cardinality(FromFiles(bus, Len(bus)))
<1>4. F \in Nat /\ Backlog(queue) \in Nat /\ PerOperation \in Nat
  BY CountsAreNat
<1>5. /\ ops \in Nat /\ F + Backlog(queue) + Cardinality(Unreported) <= PerOperation * ops
      /\ Len(bus) <= F + Cardinality(FromFiles(bus, manifestAt))
      /\ \A k \in 1..Len(queue) : Shaped(queue[k])
  BY DEF CauseInv
<1>6. /\ Cardinality(FromFiles(bus', Len(bus'))) = F
      /\ Cardinality(FromFiles(bus', manifestAt')) = Cardinality(FromFiles(bus, manifestAt))
      /\ Len(bus') = Len(bus) /\ ops' = ops /\ queue' = queue
  BY <1>1
<1> DEFINE bound == PerOperation * ops
<1>7. bound \in Nat
  BY <1>4, <1>5, OneMore
<1> HIDE DEF F, bound
<1>8. F + Backlog(queue') + Cardinality(Unreported') <= bound
  BY <1>3, <1>4, <1>5, <1>6, <1>7 DEF bound
<1> QED BY <1>5, <1>6, <1>8 DEF CauseInv, bound

(* An event sends no more paths than were reckoned for it.                 *)
LEMMA SendsItsPaths ==
  ASSUME NEW e \in Reported, Shaped(e)
  PROVE  LET kept == Sifted(e.paths, {p \in Path : IsInteresting(p)})
         IN  kept \in Seq(Path) /\ Len(kept) \in Nat /\ Len(kept) <= Backlog(<<e>>)
<1> DEFINE keep == {p \in Path : IsInteresting(p)}
           paths == e.paths
           kept == Sifted(paths, keep)
<1>1. paths \in Seq(Path) /\ Len(paths) = (IF e.kind = "Both" THEN 2 ELSE 1)
  BY DEF Reported, Shaped
<1>2. kept \in Seq(Path) /\ Len(kept) \in Nat /\ Len(kept) <= Len(paths)
  <2> HIDE DEF paths, keep
  <2> QED BY <1>1, SiftedLeaves, SiftedElements
<1>3. CASE e \notin Loud
  <2>1. \A i \in 1..Len(paths) : ~IsInteresting(paths[i])
    BY <1>3 DEF Loud
  <2>2. \A i \in 1..Len(paths) : paths[i] \notin keep
    BY <2>1
  <2>3. kept = <<>>
    <3> HIDE DEF paths, keep
    <3> QED BY <1>1, <2>2, SiftedNone
  <2>4. Backlog(<<e>>) \in Nat
    BY BacklogOfOne
  <2> HIDE DEF kept
  <2>5. kept \in Seq(Path) /\ Len(kept) = 0
    BY <1>2, <2>3
  <2> QED BY <2>4, <2>5 DEF kept
<1>4. CASE e \in Loud
  <2>1. e \in Paired <=> e.kind = "Both"
    BY <1>4 DEF Paired
  <2>2. Backlog(<<e>>) = Len(paths)
    BY <1>1, <1>4, <2>1, BacklogOfOne
  <2> QED BY <1>2, <2>2
<1> QED BY <1>3, <1>4

(* A sequence is its head and its tail.                                    *)
LEMMA HeadAndTail ==
  ASSUME NEW S, NEW s \in Seq(S), s # <<>>
  PROVE  /\ Head(s) \in S /\ Head(s) = s[1] /\ 1 \in 1..Len(s) /\ Tail(s) \in Seq(S)
         /\ Len(Tail(s)) = Len(s) - 1 /\ Len(s) \in Nat
         /\ \A i \in 1..Len(Tail(s)) : Tail(s)[i] = s[i + 1]
         /\ <<Head(s)>> \in Seq(S) /\ s = <<Head(s)>> \o Tail(s)
<1> DEFINE t == Tail(s)
           h == Head(s)
           one == <<h>>
<1>1. /\ h \in S /\ t \in Seq(S) /\ Len(t) = Len(s) - 1 /\ Len(s) \in Nat
      /\ \A i \in 1..Len(t) : t[i] = s[i + 1]
  BY HeadTailProperties
<1>2. h = s[1]
  OBVIOUS
<1>3. Len(s) # 0 /\ 1 \in 1..Len(s)
  BY <1>1, EmptySeq
<1> HIDE DEF t, h
<1>4. one \in Seq(S) /\ Len(one) = 1 /\ one[1] = h
  BY <1>1
<1> HIDE DEF one
<1> DEFINE u == one \o t
<1>5. /\ u \in Seq(S) /\ Len(u) = Len(one) + Len(t)
      /\ \A i \in 1..Len(one) : u[i] = one[i]
      /\ \A i \in 1..Len(t) : u[Len(one) + i] = t[i]
  <2>1. one \in Seq(S) /\ t \in Seq(S) /\ u = one \o t
    BY <1>1, <1>4
  <2> HIDE DEF u
  <2> QED BY ONLY <2>1, ConcatParts
<1> HIDE DEF u
<1>6. Len(u) = Len(s)
  BY <1>1, <1>4, <1>5
<1>7. ASSUME NEW i \in 1..Len(s) PROVE u[i] = s[i]
  <2>1. CASE i = 1
    BY <1>2, <1>4, <1>5, <2>1
  <2>2. CASE i # 1
    <3> DEFINE j == i - 1
    <3>1. j \in 1..Len(t) /\ j + 1 = i /\ 1 + j = i
      BY <1>1, <2>2
    <3> HIDE DEF j
    <3>2. t[j] = s[j + 1] /\ u[1 + j] = t[j]
      BY <1>1, <1>4, <1>5, <3>1
    <3> QED BY <3>1, <3>2
  <2> QED BY <2>1, <2>2
<1>8. s = u
  BY <1>5, <1>6, <1>7, SeqEqual
<1> QED BY <1>1, <1>2, <1>3, <1>4, <1>8 DEF u, t, h, one

LEMMA CausePublish ==
  ASSUME IsFiniteSet(Path), TreeInv, BusInv, CauseInv, Publish
  PROVE  CauseInv'
<1> DEFINE e == Head(queue)
           kept == Sifted(e.paths, {p \in Path : IsInteresting(p)})
           sent == [k \in DOMAIN kept |-> FileSystem(kept[k])]
           n == Len(bus)
           m == Len(kept)
           F == Cardinality(FromFiles(bus, n))
           G == Cardinality(FromFiles(bus, manifestAt))
<1>1. /\ ReadyToPublish /\ bus' = bus \o sent /\ queue' = Tail(queue)
      /\ UNCHANGED <<dirs, files, ops, mode, watched, seen, dirty, manifestAt>>
  BY DEF Publish, world, readers
<1>2. queue # <<>> /\ queue \in Seq(Reported) /\ \A k \in 1..Len(queue) : Shaped(queue[k])
  BY <1>1 DEF ReadyToPublish, TreeInv, CauseInv
<1>3. /\ e \in Reported /\ e = queue[1] /\ 1 \in 1..Len(queue) /\ queue' \in Seq(Reported)
      /\ Len(queue') = Len(queue) - 1 /\ Len(queue) \in Nat
      /\ \A i \in 1..Len(queue') : queue'[i] = queue[i + 1]
      /\ <<e>> \in Seq(Reported) /\ queue = <<e>> \o queue'
  BY <1>1, <1>2, HeadAndTail
<1>4. \A k \in 1..Len(queue') : Shaped(queue'[k])
  <2>1. \A k \in 1..Len(queue') : k + 1 \in 1..Len(queue)
    BY <1>3
  <2> QED BY <1>2, <1>3, <2>1
<1>5. kept \in Seq(Path) /\ m \in Nat /\ m <= Backlog(<<e>>)
  <2>1. Shaped(e)
    BY <1>2, <1>3
  <2> HIDE DEF e
  <2> QED BY <1>3, <2>1, SendsItsPaths DEF e
<1> HIDE DEF e
<1>6. /\ Backlog(queue) = Backlog(<<e>>) + Backlog(queue')
      /\ Backlog(<<e>>) \in Nat /\ Backlog(queue') \in Nat
  <2> DEFINE one == <<e>>
  <2> HIDE DEF one
  <2>1. one \in Seq(Reported) /\ queue' \in Seq(Reported) /\ queue = one \o queue'
    BY <1>3 DEF one
  <2>2. Backlog(one \o queue') = Backlog(one) + Backlog(queue')
        /\ Backlog(one) \in Nat /\ Backlog(queue') \in Nat
    BY <2>1, BacklogOfBoth
  <2> QED BY <2>1, <2>2 DEF one
<1> HIDE DEF kept
<1>7. sent \in Seq(Sent) /\ Len(sent) = m /\ \A k \in 1..m : sent[k].source = "fs"
  <2>1. \A k \in DOMAIN kept : FileSystem(kept[k]) \in Sent /\ FileSystem(kept[k]).source = "fs"
    BY <1>5 DEF FileSystem, Sent
  <2>2. DOMAIN kept = 1..m /\ m \in Nat
    BY <1>5
  <2>3. sent \in [1..m -> Sent]
    BY <2>1, <2>2
  <2>4. sent \in Seq(Sent) /\ Len(sent) = m
    BY <2>2, <2>3
  <2> QED BY <2>1, <2>2, <2>4
<1> HIDE DEF sent, m
<1>8. bus \in Seq(Sent) /\ n \in Nat /\ manifestAt \in 0..n /\ manifestAt \in Nat
  BY DEF BusInv
<1>9. /\ Len(bus') = n + m
      /\ \A i \in 1..n : bus'[i] = bus[i]
      /\ \A i \in 1..m : bus'[n + i] = sent[i]
  <2>1. bus \in Seq(Sent) /\ sent \in Seq(Sent) /\ bus' = bus \o sent
    BY <1>1, <1>7, <1>8
  <2>2. /\ Len(bus') = Len(bus) + Len(sent)
        /\ \A i \in 1..Len(bus) : bus'[i] = bus[i]
        /\ \A i \in 1..Len(sent) : bus'[Len(bus) + i] = sent[i]
    BY <2>1, ConcatParts
  <2> QED BY <1>7, <2>2
<1> HIDE DEF n
<1>10. Cardinality(FromFiles(bus', Len(bus'))) = F + m
  <2>1. ASSUME NEW k \in (n + 1)..(n + m) PROVE bus'[k].source = "fs"
    <3> DEFINE j == k - n
    <3>1. j \in 1..m /\ n + j = k
      BY <1>5, <1>8
    <3> HIDE DEF j
    <3>2. bus'[n + j] = sent[j] /\ sent[j].source = "fs"
      BY <1>7, <1>9, <3>1
    <3> QED BY <3>1, <3>2
  <2>2. Cardinality(FromFiles(bus', n + m)) = Cardinality(FromFiles(bus', n)) + m
    BY <1>5, <1>8, <2>1, FilesRun
  <2>3. FromFiles(bus', n) = FromFiles(bus, n)
    BY <1>8, <1>9, FilesStay
  <2> QED BY <1>9, <2>2, <2>3
<1>11. Cardinality(FromFiles(bus', manifestAt')) = G
  <2>1. \A k \in 1..manifestAt : bus'[k] = bus[k]
    BY <1>8, <1>9
  <2>2. FromFiles(bus', manifestAt) = FromFiles(bus, manifestAt)
    BY <1>8, <2>1, FilesStay
  <2> QED BY <1>1, <2>2
<1>12. Unreported' = Unreported
  <2>1. \A p : IsInteresting(p)' = IsInteresting(p)
    BY DEF IsInteresting, IsIgnoredDirectory
  <2> QED BY <1>1, <2>1 DEF Unreported, Changed, Entries
<1> DEFINE U == Cardinality(Unreported)
<1>13. F \in Nat /\ G \in Nat /\ U \in Nat /\ PerOperation \in Nat
  BY CountsAreNat DEF n
<1>14. /\ ops \in Nat /\ F + Backlog(queue) + U <= PerOperation * ops
       /\ n <= F + G
  BY DEF CauseInv, n
<1> DEFINE bound == PerOperation * ops
<1>15. bound \in Nat
  BY <1>13, <1>14, OneMore
<1>16. Cardinality(Unreported') = U /\ PerOperation * ops' = bound
  BY <1>1, <1>12
<1> HIDE DEF F, G, U, bound
<1>17. (F + m) + Backlog(queue') + U <= bound /\ n + m <= (F + m) + G
  BY <1>5, <1>6, <1>8, <1>13, <1>14, <1>15 DEF bound
<1>18. Cardinality(FromFiles(bus', Len(bus'))) + Backlog(queue') + Cardinality(Unreported')
         <= PerOperation * ops'
  BY <1>10, <1>16, <1>17
<1>19. Len(bus') <= Cardinality(FromFiles(bus', Len(bus')))
                    + Cardinality(FromFiles(bus', manifestAt'))
  BY <1>9, <1>10, <1>11, <1>17
<1>20. ops' \in Nat
  BY <1>1, <1>14
<1> QED BY <1>4, <1>18, <1>19, <1>20 DEF CauseInv

LEMMA CauseTake ==
  ASSUME IsFiniteSet(Path), TreeInv, BusInv, CauseInv, BusInv', ManifestTakes
  PROVE  CauseInv'
<1> DEFINE n == Len(bus)
           at1 == manifestAt + 1
           F == Cardinality(FromFiles(bus, n))
           G == Cardinality(FromFiles(bus, manifestAt))
<1>1. /\ UNCHANGED <<dirs, files, ops, mode, watched, queue, seen, dirty>>
      /\ manifestAt < n
      /\ \/ manifestAt' = n - BusCapacity /\ manifestAt < n - BusCapacity /\ bus' = bus
         \/ manifestAt' = at1 /\ bus' = bus
         \/ /\ manifestAt' = at1 /\ bus[at1].source = "fs"
            /\ bus' = Append(bus, Manifest(bus[at1].path))
  BY DEF ManifestTakes, world, task, IsManifestChange
<1>2. /\ bus \in Seq(Sent) /\ n \in Nat /\ manifestAt \in 0..n /\ manifestAt \in Nat
      /\ BusCapacity \in Nat
  BY WatcherAssumption DEF BusInv
<1>3. F \in Nat /\ G \in Nat
  BY CountsAreNat
<1>4. /\ ops \in Nat /\ \A k \in 1..Len(queue) : Shaped(queue[k])
      /\ F + Backlog(queue) + Cardinality(Unreported) <= PerOperation * ops
      /\ n <= F + G
  BY DEF CauseInv
<1>5. Unreported' = Unreported
  <2>1. \A p : IsInteresting(p)' = IsInteresting(p)
    BY DEF IsInteresting, IsIgnoredDirectory
  <2> QED BY <1>1, <2>1 DEF Unreported, Changed, Entries
<1>6. /\ Cardinality(FromFiles(bus', Len(bus'))) = F
      /\ Len(bus') <= F + Cardinality(FromFiles(bus', manifestAt'))
  <2>1. CASE \/ manifestAt' = n - BusCapacity /\ manifestAt < n - BusCapacity /\ bus' = bus
             \/ manifestAt' = at1 /\ bus' = bus
    <3>0. bus' = bus
      BY <2>1
    <3>1. manifestAt' \in Nat /\ manifestAt <= manifestAt'
      BY <1>1, <1>2, <2>1
    <3>2. /\ G <= Cardinality(FromFiles(bus, manifestAt'))
          /\ Cardinality(FromFiles(bus, manifestAt')) \in Nat
      BY <1>2, <3>1, FilesAreFew
    <3> HIDE DEF F, G
    <3>3. n <= F + Cardinality(FromFiles(bus, manifestAt'))
      BY <1>2, <1>3, <1>4, <3>2
    <3> QED BY <3>0, <3>3 DEF F
  <2>2. CASE /\ manifestAt' = at1 /\ bus[at1].source = "fs"
             /\ bus' = Append(bus, Manifest(bus[at1].path))
    <3>1. at1 \in 1..n /\ at1 \in Nat /\ bus[at1] \in Sent
      BY <1>1, <1>2
    <3> DEFINE x == Manifest(bus[at1].path)
    <3>2. x \in Sent /\ x.source # "fs"
      BY <3>1 DEF Manifest, Sent
    <3> HIDE DEF x
    <3>3. /\ Len(bus') = n + 1 /\ (\A k \in 1..n : bus'[k] = bus[k]) /\ bus'[n + 1] = x
      BY <1>2, <2>2, <3>2, AppendProperties DEF x
    <3>4. Cardinality(FromFiles(bus', n + 1)) = Cardinality(FromFiles(bus', n))
      BY <1>2, <3>2, <3>3, FilesNext
    <3>5. FromFiles(bus', n) = FromFiles(bus, n)
      BY <1>2, <3>3, FilesStay
    <3>6. \A k \in 1..at1 : bus'[k] = bus[k]
      BY <1>2, <3>1, <3>3
    <3>7. FromFiles(bus', at1) = FromFiles(bus, at1)
      BY <3>1, <3>6, FilesStay
    <3>8. Cardinality(FromFiles(bus, at1)) = G + 1
      BY <1>2, <2>2, FilesNext
    <3> HIDE DEF F, G
    <3>9. Cardinality(FromFiles(bus', manifestAt')) = G + 1
      BY <2>2, <3>7, <3>8
    <3>10. Cardinality(FromFiles(bus', Len(bus'))) = F
      BY <3>3, <3>4, <3>5 DEF F
    <3>11. n + 1 <= F + (G + 1)
      BY <1>2, <1>3, <1>4
    <3> QED BY <3>3, <3>9, <3>10, <3>11
  <2> HIDE DEF n, at1, F, G
  <2> QED BY <1>1, <2>1, <2>2
<1>7. ops' = ops /\ queue' = queue
  BY <1>1
<1> HIDE DEF F, G
<1> QED BY <1>4, <1>5, <1>6, <1>7 DEF CauseInv

LEMMA CauseSteps ==
  ASSUME IsFiniteSet(Path)
  PROVE  TreeInv /\ BusInv /\ CauseInv /\ [Next]_vars => CauseInv'
<1> SUFFICES ASSUME TreeInv, BusInv, CauseInv, [Next]_vars PROVE CauseInv'
  OBVIOUS
<1>1. TreeInv' /\ BusInv'
  BY TreeSteps, BusSteps
<1>2. CASE \/ \E p \in DirPath : MakeDir(p) \/ RemoveTree(p)
           \/ \E p \in FilePath : Save(p)
           \/ \E p, q \in DirPath : MoveTree(p, q)
  BY <1>1, <1>2, CauseUsers
<1>3. CASE List \/ ListNew \/ \E d \in DirPath : Attach(d) \/ WatchNew(d)
  BY <1>3, CauseWatch
<1>4. CASE Scan
  BY <1>4, CauseScan
<1>5. CASE Publish
  BY <1>5, CausePublish
<1>6. CASE ManifestTakes
  BY <1>1, <1>6, CauseTake
<1>7. CASE StoreTakes
  BY <1>7, CauseStore
<1>8. CASE UNCHANGED vars
  <2>1. \A p : IsInteresting(p)' = IsInteresting(p)
    BY DEF IsInteresting, IsIgnoredDirectory
  <2>2. UNCHANGED <<dirs, files, ops, mode, watched, queue, seen, dirty, bus, manifestAt>>
    BY <1>8 DEF vars, world, task, readers
  <2>3. Unreported' = Unreported
    BY <2>1, <2>2 DEF Unreported, Changed, Entries
  <2> QED BY <2>2, <2>3 DEF CauseInv
<1> QED BY <1>2, <1>3, <1>4, <1>5, <1>6, <1>7, <1>8 DEF Next

LEMMA CauseStarts ==
  ASSUME IsFiniteSet(Path)
  PROVE  Init => CauseInv
<1> SUFFICES ASSUME Init PROVE CauseInv
  OBVIOUS
<1>1. bus = <<>> /\ queue = <<>> /\ mode = "native" /\ ops = 0 /\ manifestAt = 0
  BY DEF Init
<1>2. Len(bus) = 0 /\ Len(queue) = 0
  BY <1>1
<1>3. Unreported = {} /\ FromFiles(bus, 0) = {}
  BY <1>1 DEF Unreported, FromFiles
<1>4. Cardinality(Unreported) = 0 /\ Cardinality(FromFiles(bus, 0)) = 0
  BY <1>3, FS_EmptySet
<1>5. Backlog(queue) = 0
  BY <1>1, BacklogOfNone
<1>6. PerOperation \in Nat
  BY FS_CardinalityType DEF PerOperation
<1>7. PerOperation * ops = 0
  BY <1>1, <1>6
<1> QED BY <1>1, <1>2, <1>4, <1>5, <1>7 DEF CauseInv

(* CausedByUsers is an invariant of the watcher, in any finite tree and    *)
(* for any limits: the part of NoFeedback that does not depend on the tree. *)
THEOREM NothingFeedsItself ==
  ASSUME IsFiniteSet(Path)
  PROVE  Spec => []CausedByUsers
<1>1. TreeInv /\ BusInv /\ CauseInv => CausedByUsers
  <2> SUFFICES ASSUME TreeInv, BusInv, CauseInv PROVE CausedByUsers
    OBVIOUS
  <2> DEFINE F == Cardinality(FromFiles(bus, Len(bus)))
             G == Cardinality(FromFiles(bus, manifestAt))
             Q == Backlog(queue)
             U == Cardinality(Unreported)
             bound == PerOperation * ops
  <2>1. F \in Nat /\ G \in Nat /\ G <= F /\ Q \in Nat /\ U \in Nat /\ Len(bus) \in Nat
        /\ PerOperation \in Nat
    BY CountsAreNat
  <2>2. F + Q + U <= bound /\ Len(bus) <= F + G /\ ops \in Nat
    BY DEF CauseInv
  <2>3. bound \in Nat
    BY <2>1, <2>2, OneMore
  <2> HIDE DEF F, G, Q, U, bound
  <2>4. Len(bus) <= 2 * bound
    BY <2>1, <2>2, <2>3
  <2> QED BY <2>4 DEF CausedByUsers, bound
<1>2. Init => CauseInv
  BY CauseStarts
<1>3. TreeInv /\ BusInv /\ CauseInv /\ [Next]_vars => CauseInv'
  BY CauseSteps
<1> QED BY <1>1, <1>2, <1>3, TreeAlways, BusStarts, BusSteps, PTL DEF Spec
-----------------------------------------------------------------------------
(* What is owed is on its way.                                             *)

Queued(p) == \E k \in 1..Len(queue) : p \in Range(queue[k].paths)

OwedInv ==
  \A p \in owed :
    /\ p \in Path /\ IsInteresting(p)
    /\ \/ Queued(p)
       \/ mode = "poll" /\ p \in dirty /\ p \in files /\ Front(p) \in watched

LEMMA OwedNotice ==
  ASSUME TreeInv, OwedInv, NEW events \in Seq(Reported), NEW touched, touched \subseteq Path,
         Notice(events, touched), UNCHANGED mode, mode = "poll" => watched' = watched,
         \A p \in touched : Front(p) \in watched =>
           \E k \in 1..Len(events) : p \in Range(events[k].paths)
  PROVE  OwedInv'
<1>1. /\ queue' \in Seq(Reported) /\ Len(queue) \in Nat /\ Len(queue') \in Nat
      /\ Len(queue) <= Len(queue')
      /\ \A k \in 1..Len(queue) : queue'[k] = queue[k]
      /\ dirty \subseteq dirty'
      /\ mode = "native" =>
           /\ Len(queue') = Len(queue) + Len(events)
           /\ \A k \in 1..Len(events) : queue'[Len(queue) + k] = events[k]
      /\ mode # "native" =>
           /\ owed' \subseteq files'
           /\ \A p \in touched : Front(p) \in watched => p \in dirty'
      /\ \A p \in owed' : \/ p \in owed
                          \/ p \in touched /\ Front(p) \in watched /\ IsInteresting(p)
  BY Noticed
<1>2. mode \in {"native", "poll"} /\ mode' = mode /\ Len(events) \in Nat
  BY DEF TreeInv
<1>3. ASSUME NEW p, Queued(p) PROVE Queued(p)'
  <2>1. PICK k \in 1..Len(queue) : p \in Range(queue[k].paths)
    BY <1>3 DEF Queued
  <2>2. k \in 1..Len(queue') /\ queue'[k] = queue[k]
    BY <1>1
  <2>3. p \in Range(queue'[k].paths)
    BY <2>1, <2>2
  <2> QED BY <2>2, <2>3 DEF Queued
<1>4. ASSUME NEW p \in owed'
      PROVE  /\ p \in Path /\ IsInteresting(p)
             /\ \/ Queued(p)'
                \/ mode' = "poll" /\ p \in dirty' /\ p \in files' /\ Front(p) \in watched'
  <2>1. CASE p \in owed
    <3>1. /\ p \in Path /\ IsInteresting(p)
          /\ \/ Queued(p)
             \/ mode = "poll" /\ p \in dirty /\ Front(p) \in watched
      BY <2>1 DEF OwedInv
    <3> QED BY <1>1, <1>2, <1>3, <3>1
  <2>2. CASE p \in touched /\ Front(p) \in watched /\ IsInteresting(p)
    <3>1. p \in Path /\ IsInteresting(p)
      BY <2>2
    <3>2. CASE mode = "native"
      <4>1. PICK k \in 1..Len(events) : p \in Range(events[k].paths)
        BY <2>2
      <4> DEFINE j == Len(queue) + k
      <4>2. j \in 1..Len(queue')
        BY <1>1, <1>2, <3>2
      <4>3. queue'[j] = events[k]
        BY <1>1, <3>2
      <4> HIDE DEF j
      <4>4. p \in Range(queue'[j].paths)
        BY <4>1, <4>3
      <4>5. Queued(p)'
        BY <4>2, <4>4 DEF Queued
      <4> QED BY <3>1, <4>5
    <3>3. CASE mode = "poll"
      BY <1>1, <1>2, <2>2, <3>1, <3>3
    <3> QED BY <1>2, <3>2, <3>3
  <2> QED BY <1>1, <2>1, <2>2
<1>5. \A p : IsInteresting(p)' = IsInteresting(p)
  BY DEF IsInteresting, IsIgnoredDirectory
<1> QED BY <1>4, <1>5 DEF OwedInv

(* An event of one path is queued for it.                                  *)
LEMMA OneIsTold ==
  ASSUME NEW kind \in Kind, NEW p \in Path
  PROVE  \A q \in {p} : Front(q) \in watched =>
           \E k \in 1..Len(Report(Event(kind, <<p>>))) :
             q \in Range(Report(Event(kind, <<p>>))[k].paths)
<1>1. SUFFICES ASSUME Front(p) \in watched
               PROVE  \E k \in 1..Len(Report(Event(kind, <<p>>))) :
                        p \in Range(Report(Event(kind, <<p>>))[k].paths)
  OBVIOUS
<1> DEFINE r == Report(Event(kind, <<p>>))
<1>2. Len(r) = 1 /\ r[1] = Event(kind, <<p>>)
  BY <1>1, ReportOfOne
<1>3. Event(kind, <<p>>).paths = <<p>>
  BY ReportOfOne
<1>4. p \in Range(<<p>>)
  BY DEF Range
<1> HIDE DEF r
<1>5. 1 \in 1..Len(r) /\ p \in Range(r[1].paths)
  BY <1>2, <1>3, <1>4
<1> QED BY <1>5 DEF r

LEMMA OwedUsers ==
  ASSUME TreeInv, OwedInv,
         \/ \E p \in DirPath : MakeDir(p) \/ RemoveTree(p)
         \/ \E p \in FilePath : Save(p)
         \/ \E p, q \in DirPath : MoveTree(p, q)
         \/ StoreTakes
  PROVE  OwedInv'
<1>1. ASSUME NEW p \in DirPath, MakeDir(p) PROVE OwedInv'
  <2>1. Notice(Report(Event("Create", <<p>>)), {p}) /\ UNCHANGED <<mode, watched>>
    BY <1>1 DEF MakeDir, task
  <2>2. p \in Path /\ Report(Event("Create", <<p>>)) \in Seq(Reported) /\ {p} \subseteq Path
        /\ "Create" \in Kind
    BY ReportOfOne, Paths DEF Kind
  <2>3. \A q \in {p} : Front(q) \in watched =>
           \E k \in 1..Len(Report(Event("Create", <<p>>))) :
             q \in Range(Report(Event("Create", <<p>>))[k].paths)
    BY <2>2, OneIsTold
  <2> QED BY <2>1, <2>2, <2>3, OwedNotice
<1>2. ASSUME NEW p \in DirPath, RemoveTree(p) PROVE OwedInv'
  <2>1. /\ Notice(Report(Event("Remove", <<p>>)), {p}) /\ UNCHANGED mode
        /\ mode = "poll" => watched' = watched
    BY <1>2 DEF RemoveTree
  <2>2. p \in Path /\ Report(Event("Remove", <<p>>)) \in Seq(Reported) /\ {p} \subseteq Path
        /\ "Remove" \in Kind
    BY ReportOfOne, Paths DEF Kind
  <2>3. \A q \in {p} : Front(q) \in watched =>
           \E k \in 1..Len(Report(Event("Remove", <<p>>))) :
             q \in Range(Report(Event("Remove", <<p>>))[k].paths)
    BY <2>2, OneIsTold
  <2> QED BY <2>1, <2>2, <2>3, OwedNotice
<1>3. ASSUME NEW p \in FilePath, Save(p) PROVE OwedInv'
  <2>1. PICK kind \in {"To", IF p \in files THEN "Modify" ELSE "Create"} :
          Notice(Report(Event(kind, <<p>>)), {p})
    BY <1>3 DEF Save
  <2>2. UNCHANGED <<mode, watched>> /\ kind \in Kind /\ p \in Path
    BY <1>3, Paths DEF Save, task, Kind
  <2>3. Report(Event(kind, <<p>>)) \in Seq(Reported) /\ {p} \subseteq Path
    BY <2>2, ReportOfOne
  <2>4. \A q \in {p} : Front(q) \in watched =>
           \E k \in 1..Len(Report(Event(kind, <<p>>))) :
             q \in Range(Report(Event(kind, <<p>>))[k].paths)
    BY <2>2, OneIsTold
  <2> QED BY <2>1, <2>2, <2>3, <2>4, OwedNotice
<1>4. ASSUME NEW from \in DirPath, NEW to \in DirPath, MoveTree(from, to) PROVE OwedInv'
  <2>1. /\ Notice(MoveEvents(from, to), {from, to}) /\ UNCHANGED mode
        /\ mode = "poll" => watched' = watched
    BY <1>4 DEF MoveTree, MoveEvents
  <2>2. from \in Path /\ to \in Path /\ {from, to} \subseteq Path
    BY Paths
  <2>3. MoveEvents(from, to) \in Seq(Reported)
    BY <2>2, MoveTells
  <2>4. /\ from \in Range(Event("From", <<from>>).paths)
        /\ to \in Range(Event("To", <<to>>).paths)
    BY DEF Event, Range
  <2>5. \A q \in {from, to} : Front(q) \in watched =>
           \E k \in 1..Len(MoveEvents(from, to)) : q \in Range(MoveEvents(from, to)[k].paths)
    BY <2>2, <2>4, MoveTells
  <2> QED BY <2>1, <2>2, <2>3, <2>5, OwedNotice
<1>5. CASE StoreTakes
  <2>1. Notice(Report(Event("Modify", <<DbPath>>)), {DbPath}) /\ UNCHANGED <<mode, watched>>
    BY <1>5 DEF StoreTakes, task
  <2>2. DbPath \in Path /\ Report(Event("Modify", <<DbPath>>)) \in Seq(Reported)
        /\ {DbPath} \subseteq Path /\ "Modify" \in Kind
    BY ReportOfOne, Paths DEF Kind
  <2>3. \A q \in {DbPath} : Front(q) \in watched =>
           \E k \in 1..Len(Report(Event("Modify", <<DbPath>>))) :
             q \in Range(Report(Event("Modify", <<DbPath>>))[k].paths)
    BY <2>2, OneIsTold
  <2> QED BY <2>1, <2>2, <2>3, OwedNotice
<1> QED BY <1>1, <1>2, <1>3, <1>4, <1>5
LEMMA OwedScan ==
  ASSUME TreeInv, OwedInv, Scan
  PROVE  OwedInv'
<1>1. UNCHANGED <<files, mode, watched, owed>>
  BY DEF Scan, world, task
<1>2. PICK kind, x : ScanOf(kind, x)
  BY ScanIs
<1>3. /\ dirty' = dirty \ {x} /\ Len(queue') = Len(queue) + 1 /\ Len(queue) \in Nat
      /\ \A k \in 1..Len(queue) : queue'[k] = queue[k]
      /\ queue'[Len(queue) + 1] = Event(kind, <<x>>)
  BY <1>2 DEF ScanOf
<1>4. ASSUME NEW p, Queued(p) PROVE Queued(p)'
  <2>1. PICK k \in 1..Len(queue) : p \in Range(queue[k].paths)
    BY <1>4 DEF Queued
  <2>2. k \in 1..Len(queue') /\ queue'[k] = queue[k]
    BY <1>3
  <2>3. p \in Range(queue'[k].paths)
    BY <2>1, <2>2
  <2> QED BY <2>2, <2>3 DEF Queued
<1>5. Queued(x)'
  <2> DEFINE j == Len(queue) + 1
  <2>1. j \in 1..Len(queue') /\ queue'[j] = Event(kind, <<x>>)
    BY <1>3
  <2>2. x \in Range(Event(kind, <<x>>).paths)
    BY DEF Event, Range
  <2> HIDE DEF j
  <2> QED BY <2>1, <2>2 DEF Queued
<1>6. \A p : IsInteresting(p)' = IsInteresting(p)
  BY DEF IsInteresting, IsIgnoredDirectory
<1>7. ASSUME NEW p \in owed'
      PROVE  /\ p \in Path /\ IsInteresting(p)
             /\ \/ Queued(p)'
                \/ mode' = "poll" /\ p \in dirty' /\ p \in files' /\ Front(p) \in watched'
  <2>1. /\ p \in Path /\ IsInteresting(p)
        /\ \/ Queued(p)
           \/ mode = "poll" /\ p \in dirty /\ p \in files /\ Front(p) \in watched
    BY <1>1 DEF OwedInv
  <2>2. CASE p = x
    BY <1>5, <2>1, <2>2
  <2>3. CASE p # x
    BY <1>1, <1>3, <1>4, <2>1, <2>3
  <2> QED BY <2>2, <2>3
<1> QED BY <1>6, <1>7 DEF OwedInv

LEMMA OwedPublish ==
  ASSUME TreeInv, OwedInv, Publish
  PROVE  OwedInv'
<1> DEFINE kept == Sifted(Head(queue).paths, {p \in Path : IsInteresting(p)})
<1>1. /\ ReadyToPublish /\ queue' = Tail(queue) /\ owed' = owed \ Range(kept)
      /\ UNCHANGED <<files, mode, watched, dirty>>
  BY DEF Publish, world
<1>2. queue \in Seq(Reported) /\ queue # <<>>
  BY <1>1 DEF ReadyToPublish, TreeInv
<1>3. /\ Len(queue) \in Nat /\ Len(queue) # 0
      /\ Head(queue) = queue[1] /\ Head(queue) \in Reported
      /\ queue' \in Seq(Reported) /\ Len(queue') = Len(queue) - 1
      /\ \A k \in 1..Len(queue') : queue'[k] = queue[k + 1]
  BY <1>1, <1>2, EmptySeq, HeadTailProperties
<1>4. Head(queue).paths \in Seq(Path)
  BY <1>3 DEF Reported
<1>5. ASSUME NEW p \in Path, IsInteresting(p), p \in Range(Head(queue).paths)
      PROVE  p \in Range(kept)
  <2> DEFINE s == Head(queue).paths
             T == {q \in Path : IsInteresting(q)}
  <2>1. PICK i \in 1..Len(s) : p = s[i]
    BY <1>4, <1>5 DEF Range
  <2>2. s[i] \in T
    BY <1>5, <2>1
  <2>5. s \in Seq(Path) /\ kept = Sifted(s, T)
    BY <1>4
  <2>4. kept \in Seq(Path)
    BY <1>4, SiftedLeaves
  <2> HIDE DEF s, T, kept
  <2>3. PICK k \in 1..Len(kept) : kept[k] = s[i]
    BY <2>2, <2>5, SiftedElements
  <2> QED BY <2>1, <2>3, <2>4 DEF Range
<1> HIDE DEF kept
<1>6. \A p : IsInteresting(p)' = IsInteresting(p)
  BY DEF IsInteresting, IsIgnoredDirectory
<1>7. ASSUME NEW p \in owed'
      PROVE  /\ p \in Path /\ IsInteresting(p)
             /\ \/ Queued(p)'
                \/ mode' = "poll" /\ p \in dirty' /\ p \in files' /\ Front(p) \in watched'
  <2>1. /\ p \in Path /\ IsInteresting(p) /\ p \notin Range(kept)
        /\ \/ Queued(p)
           \/ mode = "poll" /\ p \in dirty /\ p \in files /\ Front(p) \in watched
    BY <1>1 DEF OwedInv
  <2>2. ASSUME Queued(p) PROVE Queued(p)'
    <3>1. PICK k \in 1..Len(queue) : p \in Range(queue[k].paths)
      BY <2>2 DEF Queued
    <3>2. k # 1
      BY <1>3, <1>5, <2>1, <3>1
    <3> DEFINE j == k - 1
    <3>3. j \in 1..Len(queue') /\ j + 1 = k
      BY <1>3, <3>2
    <3> HIDE DEF j
    <3>4. queue'[j] = queue[k]
      BY <1>3, <3>3
    <3> QED BY <3>1, <3>3, <3>4 DEF Queued
  <2> QED BY <1>1, <2>1, <2>2
<1> QED BY <1>6, <1>7 DEF OwedInv

(* Nothing else that the watcher does loses a path it owes.                *)
LEMMA OwedKept ==
  ASSUME OwedInv, queue' = queue, owed' \subseteq owed, mode = "poll" => mode' = mode,
         files' = files, mode = "poll" => watched \subseteq watched',
         \A p \in owed' : p \in dirty => p \in dirty'
  PROVE  OwedInv'
<1>1. \A p : Queued(p)' = Queued(p)
  BY DEF Queued
<1>2. \A p : IsInteresting(p)' = IsInteresting(p)
  BY DEF IsInteresting, IsIgnoredDirectory
<1> QED BY <1>1, <1>2 DEF OwedInv

LEMMA OwedTask ==
  ASSUME TreeInv, OwedInv,
         \/ List \/ ListNew \/ ManifestTakes \/ UNCHANGED vars
         \/ \E d \in DirPath : Attach(d) \/ WatchNew(d)
  PROVE  OwedInv'
<1>1. CASE List \/ ListNew \/ ManifestTakes \/ UNCHANGED vars
  <2>1. UNCHANGED <<files, queue, owed, mode, watched, dirty>>
    BY <1>1 DEF List, ListNew, ManifestTakes, vars, world, task
  <2> QED BY <2>1, OwedKept
<1>2. ASSUME NEW d \in DirPath, Attach(d) PROVE OwedInv'
  <2>1. mode # "poll" /\ UNCHANGED <<files, queue, owed, dirty>>
    BY <1>2 DEF Attach, TreeInv, world
  <2> QED BY <2>1, OwedKept
<1>3. ASSUME NEW d \in DirPath, WatchNew(d) PROVE OwedInv'
  <2>1. /\ UNCHANGED <<files, queue, mode>> /\ watched \subseteq watched'
    BY <1>3 DEF WatchNew, world
  <2>2. owed' \subseteq owed /\ \A p \in owed' : p \in dirty => p \in dirty'
    BY <1>3 DEF WatchNew
  <2> QED BY <2>1, <2>2, OwedKept
<1> QED BY <1>1, <1>2, <1>3

LEMMA OwedSteps == TreeInv /\ OwedInv /\ [Next]_vars => OwedInv'
<1> SUFFICES ASSUME TreeInv, OwedInv, [Next]_vars PROVE OwedInv'
  OBVIOUS
<1>1. CASE \/ \E p \in DirPath : MakeDir(p) \/ RemoveTree(p)
           \/ \E p \in FilePath : Save(p)
           \/ \E p, q \in DirPath : MoveTree(p, q)
           \/ StoreTakes
  BY <1>1, OwedUsers
<1>2. CASE Scan
  BY <1>2, OwedScan
<1>3. CASE Publish
  BY <1>3, OwedPublish
<1>4. CASE \/ List \/ ListNew \/ ManifestTakes \/ UNCHANGED vars
           \/ \E d \in DirPath : Attach(d) \/ WatchNew(d)
  BY <1>4, OwedTask
<1> QED BY <1>1, <1>2, <1>3, <1>4 DEF Next

(* A change of a watched file that has not reached the bus is in the       *)
(* queue, or a scan has yet to find it: a watcher with nothing to do owes  *)
(* nothing.                                                                *)
THEOREM ChangesReachTheBus == Spec => []ChangesAreReported
<1>1. ASSUME TreeInv, OwedInv PROVE ChangesAreReported
  <2>1. SUFFICES ASSUME Quiet, NEW p \in owed PROVE FALSE
    BY DEF ChangesAreReported
  <2>2. queue = <<>> /\ (mode = "poll" => Differences = {})
    BY <2>1 DEF Quiet
  <2>3. ~Queued(p)
    <3>1. Len(queue) = 0
      BY <2>2
    <3> QED BY <3>1 DEF Queued
  <2>4. mode = "poll" /\ p \in dirty /\ p \in files /\ Front(p) \in watched
    BY <1>1, <2>1, <2>3 DEF OwedInv
  <2>5. p # Root
    BY <1>1, <2>4, WatcherAssumption DEF TreeInv
  <2>6. p \in Entries(watched)
    BY <2>4, <2>5 DEF Entries
  <2>7. Event("Create", <<p>>) \in Differences \/ Event("Modify", <<p>>) \in Differences
    BY <2>4, <2>6, DifferencesAre
  <2> QED BY <2>2, <2>4, <2>7
<1>2. Init => OwedInv
  BY DEF Init, OwedInv
<1> QED BY <1>1, <1>2, TreeAlways, OwedSteps, PTL DEF Spec
-----------------------------------------------------------------------------
(* How the watcher will come to know of a directory.                       *)

Known == watched \cup pending

(* Above it, something appeared unseen ...                                 *)
Missed(d) == \E m \in missed : IsPrefix(m, d)

(* ... or an event that is still to be handled introduces something ...    *)
Handled == IF at \in {"watch", "publish"} THEN 1 ELSE 0

Introduces(event, d) ==
  /\ IntroducesDirectory(event.kind)
  /\ \E q \in Range(event.paths) : q # Root /\ IsPrefix(q, d)

Told(d) == \E k \in 1..Len(queue) : k > Handled /\ Introduces(queue[k], d)

(* ... or the next scan finds something, in a directory that is polled,    *)
(* with nothing polled from there down.                                    *)
Finds(q, d) ==
  /\ q # Root /\ IsPrefix(q, d) /\ q \notin seen /\ Front(q) \in Known
  /\ \A c \in DirPath : IsPrefix(q, c) /\ IsPrefix(c, d) => c \notin Known

ToScan(d) == mode = "poll" /\ \E q \in dirs : Finds(q, d)

Reached(d) == d \in Known \/ Missed(d) \/ Told(d) \/ ToScan(d)

ReachInv == at \notin {"list", "dead"} => \A d \in InterestingWatchDirs(Root) : Reached(d)

(* A directory that is listed is listed from any directory above it, which *)
(* is interesting itself.                                                  *)
LEMMA ListedBelow ==
  ASSUME NEW top \in Path, NEW x \in Path, NEW d \in DirPath, d \in InterestingWatchDirs(top),
         IsPrefix(top, x), IsPrefix(x, d)
  PROVE  /\ x # top => IsInterestingDirectory(x)
         /\ d \in InterestingWatchDirs(x)
<1>1. top \in Seq(STRING) /\ x \in Seq(STRING) /\ d \in Seq(STRING)
  BY Paths
<1>2. /\ d \in dirs
      /\ \A k \in (Len(top) + 1)..Len(d) : IsInterestingDirectory(SubSeq(d, 1, k))
  BY DEF InterestingWatchDirs
<1>3. /\ Len(top) \in Nat /\ Len(x) \in Nat /\ Len(d) \in Nat
      /\ Len(top) <= Len(x) /\ Len(x) <= Len(d)
  BY <1>1, PrefixIs
<1>4. ASSUME x # top PROVE IsInterestingDirectory(x)
  <2>1. ~(Len(x) <= Len(top))
    BY <1>1, <1>4, PrefixSame
  <2>2. Len(x) \in (Len(top) + 1)..Len(d)
    BY <1>3, <2>1
  <2>3. SubSeq(x, 1, Len(x)) = x
    BY <1>1, SubSeqFull
  <2>4. SubSeq(d, 1, Len(x)) = x
    BY <2>3 DEF IsPrefix
  <2> QED BY <1>2, <2>2, <2>4
<1>5. \A k \in (Len(x) + 1)..Len(d) : k \in (Len(top) + 1)..Len(d)
  BY <1>3
<1>6. d \in InterestingWatchDirs(x)
  BY <1>2, <1>5 DEF InterestingWatchDirs
<1> QED BY <1>4, <1>6

(* An event that introduces something above a directory makes the watcher  *)
(* list it.                                                                *)
LEMMA IntroducedIs ==
  ASSUME TreeInv, NEW d \in InterestingWatchDirs(Root), NEW event \in Reported
  PROVE  /\ Introduces(event, d) => d \in Introduced(event)
         /\ \A c \in Introduced(event) : IsPrefix(c, d) => d \in Introduced(event)
<1>1. d \in DirPath /\ Root \in Path
  BY ListedExist, Paths
<1>2. event.paths \in Seq(Path)
  BY DEF Reported
<1>3. \A q \in Range(event.paths) : q \in Path
  BY <1>2 DEF Range
<1>4. ASSUME NEW q \in Path, IsPrefix(q, d)
      PROVE  d \in InterestingWatchDirs(q) /\ (q # Root => IsInterestingDirectory(q))
  <2>1. IsPrefix(Root, q)
    BY AllUnderRoot
  <2> QED BY <1>1, <1>4, <2>1, ListedBelow
<1>5. ASSUME Introduces(event, d) PROVE d \in Introduced(event)
  <2>1. IntroducesDirectory(event.kind)
    BY <1>5 DEF Introduces
  <2>2. PICK q \in Range(event.paths) : q # Root /\ IsPrefix(q, d)
    BY <1>5 DEF Introduces
  <2>3. d \in InterestingWatchDirs(q) /\ IsInterestingDirectory(q)
    BY <1>3, <1>4, <2>2
  <2> QED BY <2>1, <2>2, <2>3 DEF Introduced
<1>6. ASSUME NEW c \in Introduced(event), IsPrefix(c, d) PROVE d \in Introduced(event)
  <2>1. IntroducesDirectory(event.kind)
    BY <1>6 DEF Introduced
  <2>2. PICK q \in Range(event.paths) : IsInterestingDirectory(q) /\ c \in InterestingWatchDirs(q)
    BY <1>6 DEF Introduced
  <2>3. IsPrefix(q, c) /\ q \in Path /\ c \in DirPath
    BY <1>3, <2>2, ListedExist DEF InterestingWatchDirs
  <2>4. q \in Seq(STRING) /\ c \in Seq(STRING) /\ d \in Seq(STRING)
    BY <1>1, <2>3, Paths
  <2>5. IsPrefix(q, d)
    BY <1>6, <2>3, <2>4, PrefixTransitive
  <2>6. d \in InterestingWatchDirs(q)
    BY <1>4, <2>3, <2>5
  <2> QED BY <2>1, <2>2, <2>6 DEF Introduced
<1> QED BY <1>5, <1>6

LEMMA StillWanted ==
  \A d \in InterestingWatchDirs(Root)' :
    d \in dirs' /\ (d \in dirs => d \in InterestingWatchDirs(Root))
BY DEF InterestingWatchDirs, IsInterestingDirectory, IsIgnoredDirectory

LEMMA HandledIs ==
  ASSUME TreeInv
  PROVE  Handled \in {0, 1} /\ Len(queue) \in Nat /\ Handled <= Len(queue)
<1>1. queue \in Seq(Reported) /\ (at \in {"watch", "publish"} => queue # <<>>)
  BY DEF TreeInv
<1>2. Len(queue) \in Nat /\ (queue # <<>> => Len(queue) # 0)
  BY <1>1, EmptySeq
<1> QED BY <1>1, <1>2 DEF Handled

(* Events that arrive leave those that wait.                               *)
LEMMA ToldStays ==
  ASSUME Len(queue) \in Nat, Len(queue') \in Nat, Len(queue) <= Len(queue'),
         \A k \in 1..Len(queue) : queue'[k] = queue[k], Handled' = Handled,
         NEW d, Told(d)
  PROVE  Told(d)'
<1>1. PICK k \in 1..Len(queue) : k > Handled /\ Introduces(queue[k], d)
  BY DEF Told
<1>2. k \in 1..Len(queue') /\ queue'[k] = queue[k]
  OBVIOUS
<1>3. Introduces(queue'[k], d)
  BY <1>1, <1>2
<1> QED BY <1>1, <1>2, <1>3 DEF Told
(* What a change of the tree and of the queue leaves as it was.            *)
LEMMA ReachedStays ==
  ASSUME TreeInv, UNCHANGED <<mode, at, pending, seen>>,
         Len(queue') \in Nat, Len(queue) <= Len(queue'),
         \A k \in 1..Len(queue) : queue'[k] = queue[k],
         NEW d \in dirs, Reached(d),
         d \in watched => d \in watched',
         \A m \in missed : IsPrefix(m, d) => m \in missed',
         mode = "poll" => /\ watched' = watched
                          /\ \A q \in dirs : IsPrefix(q, d) => q \in dirs'
  PROVE  Reached(d)'
<1>1. CASE d \in Known
  BY <1>1 DEF Known, Reached
<1>2. CASE Missed(d)
  BY <1>2 DEF Missed, Reached
<1>3. CASE Told(d)
  <2>1. Handled' = Handled /\ Len(queue) \in Nat
    BY HandledIs DEF Handled
  <2>2. Told(d)'
    BY <1>3, <2>1, ToldStays
  <2> QED BY <2>2 DEF Reached
<1>4. CASE ToScan(d)
  <2>1. mode = "poll"
    BY <1>4 DEF ToScan
  <2>2. PICK q \in dirs : Finds(q, d)
    BY <1>4 DEF ToScan
  <2>3. Known' = Known /\ seen' = seen /\ mode' = "poll"
    BY <2>1 DEF Known
  <2>4. q \in dirs'
    BY <2>1, <2>2 DEF Finds
  <2>5. Finds(q, d)'
    BY <2>2, <2>3 DEF Finds
  <2>6. ToScan(d)'
    BY <2>3, <2>4, <2>5 DEF ToScan
  <2> QED BY <2>6 DEF Reached
<1> QED BY <1>1, <1>2, <1>3, <1>4 DEF Reached

(* A native watch tells of what is made or moved where it looks.           *)
LEMMA NoticeTells ==
  ASSUME TreeInv, NEW events \in Seq(Reported), NEW touched, touched \subseteq Path,
         Notice(events, touched), UNCHANGED at, mode = "native",
         NEW i \in 1..Len(events), NEW d, Introduces(events[i], d)
  PROVE  Told(d)'
<1>1. /\ Len(queue) \in Nat /\ Len(queue') = Len(queue) + Len(events)
      /\ \A k \in 1..Len(events) : queue'[Len(queue) + k] = events[k]
  BY Noticed
<1>2. Handled' = Handled /\ Handled \in {0, 1} /\ Handled <= Len(queue)
  BY HandledIs DEF Handled
<1> DEFINE j == Len(queue) + i
<1>3. Len(events) \in Nat
  OBVIOUS
<1>4. j \in 1..Len(queue') /\ j > Handled
  BY <1>1, <1>2, <1>3
<1>5. queue'[j] = events[i]
  BY <1>1
<1> HIDE DEF j
<1>6. j > Handled' /\ Introduces(queue'[j], d)
  BY <1>2, <1>4, <1>5
<1> QED BY <1>4, <1>6 DEF Told

LEMMA ReachMakeDir ==
  ASSUME TreeInv, ReachInv, NEW p \in DirPath, MakeDir(p)
  PROVE  ReachInv'
<1>1. /\ p \notin dirs /\ Front(p) \in dirs /\ dirs' = dirs \cup {p}
      /\ Notice(Report(Event("Create", <<p>>)), {p})
      /\ missed' = missed \cup Unseen({p}, p)
      /\ UNCHANGED <<mode, watched, at, pending, seen>>
  BY DEF MakeDir, task
<1>2. /\ Report(Event("Create", <<p>>)) \in Seq(Reported) /\ {p} \subseteq Path
      /\ p \in Path /\ p \in Seq(STRING) /\ "Create" \in Kind
  BY ReportOfOne, Paths DEF Kind
<1>3. /\ Len(queue') \in Nat /\ Len(queue) <= Len(queue')
      /\ \A k \in 1..Len(queue) : queue'[k] = queue[k]
  BY <1>1, <1>2, Noticed
<1>4. SUFFICES ASSUME at \notin {"list", "dead"}, NEW d \in InterestingWatchDirs(Root)'
               PROVE  Reached(d)'
  BY <1>1 DEF ReachInv
<1>5. CASE d \in dirs
  <2>1. Reached(d)
    BY <1>4, <1>5, StillWanted DEF ReachInv
  <2> QED BY <1>1, <1>3, <1>5, <2>1, ReachedStays
<1>6. CASE d = p
  <2>1. p # Root /\ IsPrefix(p, p)
    BY <1>1, <1>2, PrefixSelf DEF TreeInv, Rooted
  <2>2. CASE Front(p) \notin watched
    BY <1>1, <1>6, <2>1, <2>2 DEF Unseen, Reached, Missed
  <2>3. CASE Front(p) \in watched /\ mode = "native"
    <3> DEFINE r == Report(Event("Create", <<p>>))
    <3>1. Len(r) = 1 /\ r[1] = Event("Create", <<p>>)
      BY <1>2, <2>3, ReportOfOne
    <3>2. Introduces(Event("Create", <<p>>), p)
      <4>1. /\ Event("Create", <<p>>).kind = "Create" /\ p \in Range(Event("Create", <<p>>).paths)
        BY DEF Event, Range
      <4> QED BY <2>1, <4>1 DEF Introduces, IntroducesDirectory
    <3> HIDE DEF r
    <3>3. 1 \in 1..Len(r) /\ Introduces(r[1], p)
      BY <3>1, <3>2
    <3>4. Told(p)'
      BY <1>1, <1>2, <2>3, <3>3, NoticeTells DEF r
    <3> QED BY <1>6, <3>4 DEF Reached
  <2>4. CASE Front(p) \in watched /\ mode = "poll"
    <3>1. CASE p \in watched \cup pending
      BY <1>1, <1>6, <3>1 DEF Known, Reached
    <3>2. CASE p \in seen /\ p \notin watched \cup pending
      BY <1>1, <1>6, <2>1, <2>4, <3>2 DEF Unseen, Reached, Missed
    <3>3. CASE p \notin seen /\ p \notin watched \cup pending
      <4>1. ASSUME NEW c \in DirPath, IsPrefix(p, c), IsPrefix(c, p) PROVE c = p
        <5>1. c \in Seq(STRING)
          BY Paths
        <5> QED BY <1>2, <4>1, <5>1, PrefixIs, PrefixSame
      <4>2. Finds(p, p)'
        BY <1>1, <2>1, <2>4, <3>3, <4>1 DEF Finds, Known
      <4>3. ToScan(p)'
        BY <1>1, <2>4, <4>2 DEF ToScan
      <4> QED BY <1>6, <4>3 DEF Reached
    <3> QED BY <3>1, <3>2, <3>3
  <2> QED BY <2>2, <2>3, <2>4 DEF TreeInv
<1> QED BY <1>1, <1>5, <1>6, StillWanted

LEMMA ReachRemove ==
  ASSUME TreeInv, ReachInv, NEW top \in DirPath, RemoveTree(top)
  PROVE  ReachInv'
<1>1. /\ top # Root /\ dirs' = dirs \ Under(top)
      /\ watched' = IF mode = "native" THEN watched \ Under(top) ELSE watched
      /\ Notice(Report(Event("Remove", <<top>>)), {top})
      /\ missed' = missed \ Under(top)
      /\ UNCHANGED <<mode, at, pending, seen>>
  BY DEF RemoveTree
<1>2. /\ Report(Event("Remove", <<top>>)) \in Seq(Reported) /\ {top} \subseteq Path
      /\ top \in Path
  BY ReportOfOne, Paths DEF Kind
<1>3. /\ Len(queue') \in Nat /\ Len(queue) <= Len(queue')
      /\ \A k \in 1..Len(queue) : queue'[k] = queue[k]
  BY <1>1, <1>2, Noticed
<1>4. SUFFICES ASSUME at \notin {"list", "dead"}, NEW d \in InterestingWatchDirs(Root)'
               PROVE  Reached(d)'
  BY <1>1 DEF ReachInv
<1>5. d \in dirs \ Under(top) /\ Reached(d)
  BY <1>1, <1>4, StillWanted DEF ReachInv
<1>6. \A x \in Path : IsPrefix(x, d) => x \notin Under(top)
  <2>1. d \in Path
    BY <1>5, Paths DEF TreeInv, Rooted
  <2> QED BY <1>2, <1>5, <2>1, StaysAbove
<1>7. \A x \in dirs \cup missed : x \in Path
  BY Paths DEF TreeInv, Rooted
<1>8. mode = "poll" => watched' = watched
  BY <1>1
<1>9. /\ d \in dirs /\ (d \in watched => d \in watched')
      /\ \A m \in missed : IsPrefix(m, d) => m \in missed'
      /\ \A q \in dirs : IsPrefix(q, d) => q \in dirs'
  BY <1>1, <1>5, <1>6, <1>7
<1> QED BY <1>1, <1>3, <1>5, <1>8, <1>9, ReachedStays
(* Below what moved in: the topmost directory from which nothing is known  *)
(* is the one that a scan will find.                                       *)
LEMMA ScanWillFind ==
  ASSUME Rooted(dirs'), NEW to \in DirPath, to # Root, NEW d \in dirs', IsPrefix(to, d),
         d \notin Known', Front(to) \in Known'
  PROVE  \E q \in dirs' :
           /\ q # Root /\ IsPrefix(to, q) /\ IsPrefix(q, d) /\ Front(q) \in Known'
           /\ \A c \in DirPath : IsPrefix(q, c) /\ IsPrefix(c, d) => c \notin Known'
<1> DEFINE Unknown(x) == \A c \in DirPath : IsPrefix(x, c) /\ IsPrefix(c, d) => c \notin Known'
           S == {x \in DirPath : IsPrefix(to, x) /\ IsPrefix(x, d) /\ Unknown(x)}
<1>1. /\ d \in DirPath /\ d \in Seq(STRING) /\ to \in Seq(STRING) /\ to \in Path
      /\ \A x \in DirPath : x \in Path /\ x \in Seq(STRING)
  BY Paths DEF Rooted
<1>2. d \in S
  <2>1. IsPrefix(d, d)
    BY <1>1, PrefixSelf
  <2>2. ASSUME NEW c \in DirPath, IsPrefix(d, c), IsPrefix(c, d) PROVE c \notin Known'
    <3>1. c = d
      BY <1>1, <2>2, PrefixIs, PrefixSame
    <3> QED BY <3>1
  <2> QED BY <1>1, <2>1, <2>2
<1>3. S \subseteq Seq(STRING) /\ S # {}
  BY <1>1, <1>2
<1>4. PICK q \in S : \A y \in S : Len(q) <= Len(y)
  BY <1>3, Shortest
<1>5. q \in DirPath /\ IsPrefix(to, q) /\ IsPrefix(q, d) /\ Unknown(q)
  OBVIOUS
<1>6. q \in dirs'
  BY <1>1, <1>5, RootedIsClosed
<1>7. q # Root
  <2>1. SUFFICES ASSUME q = Root PROVE FALSE
    OBVIOUS
  <2>2. IsPrefix(Root, to) /\ Root \in Seq(STRING)
    BY <1>1, AllUnderRoot, Paths
  <2>3. Len(to) <= Len(Root)
    BY <1>1, <1>5, <2>1, <2>2, PrefixIs
  <2> QED BY <1>1, <1>5, <2>1, <2>2, <2>3, PrefixSame
<1>8. Front(q) \in Known'
  <2>1. CASE q = to
    BY <2>1
  <2>2. CASE q # to
    <3>1. q \in Seq(STRING)
      BY <1>1, <1>5
    <3>2. q # <<>> /\ IsPrefix(to, Front(q))
      BY <1>1, <1>5, <2>2, <3>1, PrefixOfFront
    <3>3. /\ Front(q) \in DirPath /\ Front(q) \in Seq(STRING)
          /\ Len(Front(q)) = Len(q) - 1 /\ IsPrefix(Front(q), q) /\ Len(q) \in Nat
      BY <1>1, <1>5, <1>7, <3>1, <3>2, FrontIs, Paths
    <3>4. IsPrefix(Front(q), d)
      BY <1>1, <1>5, <3>1, <3>3, PrefixTransitive
    <3>5. Front(q) \notin S
      BY <1>4, <3>3
    <3>6. PICK c \in DirPath : IsPrefix(Front(q), c) /\ IsPrefix(c, d) /\ c \in Known'
      BY <3>2, <3>3, <3>4, <3>5
    <3>7. c \in Seq(STRING) /\ Len(c) \in Nat /\ Len(Front(q)) <= Len(c)
      BY <1>1, <3>3, <3>6, PrefixIs
    <3>8. CASE Len(q) <= Len(c)
      <4>1. IsPrefix(q, c)
        BY <1>1, <1>5, <3>1, <3>6, <3>7, <3>8, PrefixesNest
      <4> QED BY <1>5, <3>6, <4>1
    <3>9. CASE ~(Len(q) <= Len(c))
      <4>1. Len(c) <= Len(Front(q))
        BY <3>3, <3>7, <3>9
      <4>2. c = Front(q)
        BY <3>3, <3>6, <3>7, <4>1, PrefixSame
      <4> QED BY <3>6, <4>2
    <3> QED BY <3>8, <3>9
  <2> QED BY <2>1, <2>2
<1> QED BY <1>5, <1>6, <1>7, <1>8

LEMMA ReachMove ==
  ASSUME TreeInv, ReachInv, NEW from \in DirPath, NEW to \in DirPath, MoveTree(from, to)
  PROVE  ReachInv'
<1>1. /\ watched' = IF mode = "native" THEN watched \ Under(from) ELSE watched
      /\ Notice(MoveEvents(from, to), {from, to})
      /\ UNCHANGED <<mode, at, pending, seen>>
  BY DEF MoveTree, MoveEvents
<1>2. /\ MoveEvents(from, to) \in Seq(Reported) /\ {from, to} \subseteq Path
      /\ from \in Path /\ to \in Path /\ to \in Seq(STRING)
  BY MoveTells, Paths
<1>3. /\ Len(queue') \in Nat /\ Len(queue) <= Len(queue')
      /\ \A k \in 1..Len(queue) : queue'[k] = queue[k]
  BY <1>1, <1>2, Noticed
<1>4. SUFFICES ASSUME at \notin {"list", "dead"}, NEW d \in InterestingWatchDirs(Root)'
               PROVE  Reached(d)'
  BY <1>1 DEF ReachInv
<1>5. /\ Rooted(dirs') /\ to # Root /\ to \notin dirs /\ Front(to) \in dirs \ Under(from)
  BY MoveIs
<1>6. PICK new \in SUBSET DirPath :
             /\ dirs' = (dirs \ Under(from)) \cup new
             /\ \A x \in new : IsPrefix(to, x)
             /\ missed' = (missed \ Under(from)) \cup Unseen(new, to)
  BY MoveIs
<1>7. d \in dirs' /\ (d \in dirs => d \in InterestingWatchDirs(Root)) /\ d \in DirPath
  BY <1>4, <1>5, StillWanted DEF Rooted
<1>8. CASE d \in dirs \ Under(from)
  <2>1. \A x \in Path : IsPrefix(x, d) => x \notin Under(from)
    <3>1. d \in Path
      BY <1>7, Paths
    <3> QED BY <1>2, <1>8, <3>1, StaysAbove
  <2>2. \A x \in dirs \cup missed : x \in Path
    BY Paths DEF TreeInv, Rooted
  <2>3. Reached(d)
    BY <1>4, <1>7, <1>8 DEF ReachInv
  <2>4. mode = "poll" => watched' = watched
    BY <1>1
  <2>5. /\ d \in dirs /\ (d \in watched => d \in watched')
        /\ \A m \in missed : IsPrefix(m, d) => m \in missed'
        /\ \A q \in dirs : IsPrefix(q, d) => q \in dirs'
    BY <1>1, <1>6, <1>8, <2>1, <2>2
  <2> QED BY <1>1, <1>3, <2>3, <2>4, <2>5, ReachedStays
<1>9. CASE d \in new
  <2>1. IsPrefix(to, d) /\ d \in Seq(STRING) /\ IsPrefix(d, d)
    BY <1>6, <1>7, <1>9, Paths, PrefixSelf
  <2>2. CASE Front(to) \notin watched
    <3>1. d \in missed'
      BY <1>6, <1>9, <2>2 DEF Unseen
    <3> QED BY <2>1, <3>1 DEF Reached, Missed
  <2>3. CASE Front(to) \in watched /\ mode = "native"
    <3>1. PICK i \in 1..Len(MoveEvents(from, to)) : MoveEvents(from, to)[i] = Event("To", <<to>>)
      BY <1>2, <2>3, MoveTells
    <3>2. Introduces(Event("To", <<to>>), d)
      <4>1. Event("To", <<to>>).kind = "To" /\ to \in Range(Event("To", <<to>>).paths)
        BY DEF Event, Range
      <4> QED BY <1>5, <2>1, <4>1 DEF Introduces, IntroducesDirectory
    <3>3. Introduces(MoveEvents(from, to)[i], d)
      BY <3>1, <3>2
    <3>4. Told(d)'
      BY <1>1, <1>2, <2>3, <3>3, NoticeTells
    <3> QED BY <3>4 DEF Reached
  <2>4. CASE Front(to) \in watched /\ mode = "poll" /\ d \notin Known'
    <3>1. watched' = watched /\ Known' = Known /\ Front(to) \in Known' /\ mode' = "poll"
      BY <1>1, <2>4 DEF Known
    <3>2. PICK q \in dirs' :
             /\ q # Root /\ IsPrefix(to, q) /\ IsPrefix(q, d) /\ Front(q) \in Known'
             /\ \A c \in DirPath : IsPrefix(q, c) /\ IsPrefix(c, d) => c \notin Known'
      BY <1>5, <1>7, <2>1, <2>4, <3>1, ScanWillFind
    <3>3. q \in new
      <4>1. q \notin dirs
        <5>1. Rooted(dirs)
          BY DEF TreeInv
        <5> QED BY <1>2, <1>5, <3>2, <5>1, RootedIsClosed
      <4> QED BY <1>6, <4>1
    <3>4. CASE q \in seen
      <4>1. q \in DirPath /\ q \in Seq(STRING) /\ IsPrefix(q, q)
        BY <3>3, Paths, PrefixSelf
      <4>2. q \notin watched
        BY <3>1, <3>2, <4>1 DEF Known
      <4>3. q \in missed'
        BY <1>6, <2>4, <3>3, <3>4, <4>2 DEF Unseen
      <4> QED BY <3>2, <4>3 DEF Reached, Missed
    <3>5. CASE q \notin seen
      <4>1. Finds(q, d)'
        BY <1>1, <3>2, <3>5 DEF Finds
      <4>2. ToScan(d)'
        BY <3>1, <4>1 DEF ToScan
      <4> QED BY <4>2 DEF Reached
    <3> QED BY <3>4, <3>5
  <2>5. CASE d \in Known'
    BY <2>5 DEF Reached
  <2> QED BY <2>2, <2>3, <2>4, <2>5 DEF TreeInv
<1> QED BY <1>6, <1>7, <1>8, <1>9
LEMMA ReachFiles ==
  ASSUME TreeInv, ReachInv, (\E p \in FilePath : Save(p)) \/ StoreTakes
  PROVE  ReachInv'
<1>1. UNCHANGED <<dirs, mode, watched, at, pending, seen, missed>>
  BY DEF Save, StoreTakes, task
<1>2. \E events \in Seq(Reported), touched \in SUBSET Path : Notice(events, touched)
  <2>1. ASSUME NEW p \in FilePath, Save(p)
        PROVE  \E events \in Seq(Reported), touched \in SUBSET Path : Notice(events, touched)
    <3>1. PICK kind \in {"To", IF p \in files THEN "Modify" ELSE "Create"} :
            Notice(Report(Event(kind, <<p>>)), {p})
      BY <2>1 DEF Save
    <3>2. p \in Path /\ kind \in Kind
      BY Paths DEF Kind
    <3>3. Report(Event(kind, <<p>>)) \in Seq(Reported) /\ {p} \in SUBSET Path
      BY <3>2, ReportOfOne
    <3> QED BY <3>1, <3>3
  <2>2. ASSUME StoreTakes
        PROVE  \E events \in Seq(Reported), touched \in SUBSET Path : Notice(events, touched)
    <3>1. Notice(Report(Event("Modify", <<DbPath>>)), {DbPath})
      BY <2>2 DEF StoreTakes
    <3>2. Report(Event("Modify", <<DbPath>>)) \in Seq(Reported) /\ {DbPath} \in SUBSET Path
      BY ReportOfOne, Paths DEF Kind
    <3> QED BY <3>1, <3>2
  <2> QED BY <2>1, <2>2
<1>3. /\ Len(queue') \in Nat /\ Len(queue) <= Len(queue')
      /\ \A k \in 1..Len(queue) : queue'[k] = queue[k]
  BY <1>2, Noticed
<1>4. SUFFICES ASSUME at \notin {"list", "dead"}, NEW d \in InterestingWatchDirs(Root)'
               PROVE  Reached(d)'
  BY <1>1 DEF ReachInv
<1>5. d \in dirs /\ Reached(d)
  BY <1>1, <1>4, StillWanted DEF ReachInv
<1> QED BY <1>1, <1>3, <1>5, ReachedStays

LEMMA ReachScan ==
  ASSUME TreeInv, ReachInv, Scan
  PROVE  ReachInv'
<1>1. mode = "poll" /\ UNCHANGED <<dirs, files, mode, watched, at, pending, missed>>
  BY DEF Scan, world, task
<1>2. PICK kind, x : ScanOf(kind, x)
  BY ScanIs
<1>3. /\ Len(queue') = Len(queue) + 1 /\ Len(queue) \in Nat
      /\ \A k \in 1..Len(queue) : queue'[k] = queue[k]
      /\ queue'[Len(queue) + 1] = Event(kind, <<x>>)
      /\ \/ kind = "Create" /\ seen' = seen \cup {x}
         \/ seen' \subseteq seen
  BY <1>2 DEF ScanOf
<1>4. SUFFICES ASSUME at \notin {"list", "dead"}, NEW d \in InterestingWatchDirs(Root)'
               PROVE  Reached(d)'
  BY <1>1 DEF ReachInv
<1>5. Reached(d)
  BY <1>1, <1>4, StillWanted DEF ReachInv
<1>6. Known' = Known /\ Handled' = Handled
  BY <1>1 DEF Known, Handled
<1>7. CASE d \in Known \/ Missed(d)
  BY <1>1, <1>6, <1>7 DEF Reached, Missed
<1>8. CASE Told(d)
  <2>1. Len(queue') \in Nat /\ Len(queue) <= Len(queue')
    BY <1>3
  <2>2. Told(d)'
    BY <1>3, <1>6, <1>8, <2>1, ToldStays
  <2> QED BY <2>2 DEF Reached
<1>9. CASE ToScan(d)
  <2>1. PICK q \in dirs : Finds(q, d)
    BY <1>9 DEF ToScan
  <2>2. CASE q \notin seen'
    <3>1. Finds(q, d)'
      BY <1>6, <2>1, <2>2 DEF Finds
    <3>2. ToScan(d)'
      BY <1>1, <3>1 DEF ToScan
    <3> QED BY <3>2 DEF Reached
  <2>3. CASE q \in seen'
    <3>1. q = x /\ kind = "Create" /\ q # Root /\ IsPrefix(q, d)
      BY <1>3, <2>1, <2>3 DEF Finds
    <3> DEFINE j == Len(queue) + 1
    <3>2. Introduces(Event(kind, <<x>>), d)
      <4>1. Event(kind, <<x>>).kind = kind /\ x \in Range(Event(kind, <<x>>).paths)
        BY DEF Event, Range
      <4> QED BY <3>1, <4>1 DEF Introduces, IntroducesDirectory
    <3>3. j \in 1..Len(queue') /\ queue'[j] = Event(kind, <<x>>)
      BY <1>3
    <3>4. j > Handled'
      BY <1>3, <1>6, HandledIs
    <3> HIDE DEF j
    <3>5. Introduces(queue'[j], d)
      BY <3>2, <3>3
    <3>6. Told(d)'
      BY <3>3, <3>4, <3>5 DEF Told
    <3> QED BY <3>6 DEF Reached
  <2> QED BY <2>2, <2>3
<1> QED BY <1>5, <1>7, <1>8, <1>9 DEF Reached

LEMMA ReachAttach ==
  ASSUME TreeInv, ReachInv, NEW e \in DirPath, Attach(e)
  PROVE  ReachInv'
<1>1. /\ at = "attach" /\ mode = "native" /\ e \in pending
      /\ UNCHANGED <<dirs, queue, missed>>
  BY DEF Attach, NextToAttach, TreeInv, world
<1>2. CASE e \notin dirs
  BY <1>2 DEF Attach, ReachInv
<1>3. CASE e \in dirs
  <2>1. at' \in {"attach", "run"}
    BY <1>1, <1>3 DEF Attach
  <2>2. Handled' = Handled
    BY <1>1, <2>1 DEF Handled
  <2>3. \A d \in dirs : d \in Known => d \in Known'
    BY <1>3 DEF Attach, Known
  <2>4. SUFFICES ASSUME NEW d \in InterestingWatchDirs(Root)' PROVE Reached(d)'
    BY DEF ReachInv
  <2>5. d \in dirs /\ Reached(d) /\ ~ToScan(d)
    BY <1>1, <2>4, StillWanted DEF ReachInv, ToScan
  <2>6. Missed(d)' = Missed(d)
    BY <1>1 DEF Missed
  <2>7. Told(d) => Told(d)'
    <3>1. Len(queue) \in Nat
      BY HandledIs
    <3> QED BY <1>1, <2>2, <3>1, ToldStays
  <2> QED BY <2>3, <2>5, <2>6, <2>7 DEF Reached
<1> QED BY <1>2, <1>3

LEMMA ReachListNew ==
  ASSUME TreeInv, ReachInv, ListNew
  PROVE  ReachInv'
<1>1. /\ at = "run" /\ pending = {} /\ queue # <<>>
      /\ pending' = Introduced(Head(queue)) /\ at' = "watch" /\ missed' = missed \ pending'
      /\ UNCHANGED <<dirs, mode, watched, queue, seen>>
  BY DEF ListNew, world
<1>2. queue \in Seq(Reported)
  BY DEF TreeInv
<1>3. /\ Len(queue) \in Nat /\ Len(queue) # 0
      /\ Head(queue) = queue[1] /\ Head(queue) \in Reported
  BY <1>1, <1>2, EmptySeq, HeadTailProperties
<1>4. SUFFICES ASSUME NEW d \in InterestingWatchDirs(Root)' PROVE Reached(d)'
  BY DEF ReachInv
<1>5. d \in InterestingWatchDirs(Root) /\ Reached(d)
  BY <1>1, <1>4, StillWanted DEF ReachInv
<1>6. /\ Introduces(Head(queue), d) => d \in pending'
      /\ \A c \in pending' : IsPrefix(c, d) => d \in pending'
  BY <1>1, <1>3, <1>5, IntroducedIs
<1>7. SUFFICES ASSUME d \notin pending' PROVE Reached(d)'
  BY DEF Reached, Known
<1>8. CASE d \in Known
  BY <1>1, <1>8 DEF Known, Reached
<1>9. CASE Missed(d)
  <2>1. PICK m \in missed : IsPrefix(m, d)
    BY <1>9 DEF Missed
  <2>2. m \in missed'
    BY <1>1, <1>6, <1>7, <2>1
  <2> QED BY <2>1, <2>2 DEF Reached, Missed
<1>10. CASE Told(d)
  <2>1. PICK k \in 1..Len(queue) : k > Handled /\ Introduces(queue[k], d)
    BY <1>10 DEF Told
  <2>2. k # 1
    BY <1>3, <1>6, <1>7, <2>1
  <2>3. k > Handled' /\ k \in 1..Len(queue')
    BY <1>1, <1>3, <2>2 DEF Handled
  <2>4. Introduces(queue'[k], d)
    BY <1>1, <2>1
  <2>5. Told(d)'
    BY <2>3, <2>4 DEF Told
  <2> QED BY <2>5 DEF Reached
<1>11. CASE ToScan(d)
  <2>1. mode = "poll"
    BY <1>11 DEF ToScan
  <2>2. PICK q \in dirs : Finds(q, d)
    BY <1>11 DEF ToScan
  <2>3. Finds(q, d)'
    BY <1>1, <1>6, <1>7, <2>2 DEF Finds, Known
  <2>4. ToScan(d)'
    BY <1>1, <2>1, <2>3 DEF ToScan
  <2> QED BY <2>4 DEF Reached
<1> QED BY <1>5, <1>8, <1>9, <1>10, <1>11 DEF Reached
LEMMA ReachWatchNew ==
  ASSUME TreeInv, ReachInv, NEW e \in DirPath, WatchNew(e)
  PROVE  ReachInv'
<1> DEFINE full == mode = "native" /\ Cardinality(watched) = WatchLimit /\ e \notin watched
<1>1. /\ at = "watch" /\ e \in pending /\ pending' = pending \ {e}
      /\ at' = IF pending = {e} THEN "publish" ELSE "watch"
      /\ watched' = IF e \in dirs /\ ~full THEN watched \cup {e} ELSE watched
      /\ UNCHANGED <<dirs, mode, queue>>
  BY DEF WatchNew, NextToAttach, world
<1>2. IF mode = "poll" /\ e \in dirs
      THEN /\ seen'  = {p \in seen : Front(p) # e} \cup Entries({e})
           /\ missed' = missed \cup ((Entries({e}) \cap dirs) \ (seen \cup pending \cup watched))
      ELSE seen' = seen /\ missed' = IF full THEN missed \cup {e} ELSE missed
  BY DEF WatchNew
<1> HIDE DEF full
<1>3. full => mode = "native"
  BY DEF full
<1>4. SUFFICES ASSUME NEW d \in InterestingWatchDirs(Root)' PROVE Reached(d)'
  BY DEF ReachInv
<1>5. d \in dirs /\ Reached(d) /\ d \in Seq(STRING)
  BY <1>1, <1>4, StillWanted, Paths DEF ReachInv, TreeInv, Rooted
<1>6. missed \subseteq missed' /\ Handled' = Handled
  BY <1>1, <1>2 DEF Handled
<1>7. CASE d \in Known
  <2>1. CASE d = e /\ full
    <3>1. d \in missed' /\ IsPrefix(d, d)
      BY <1>2, <1>3, <1>5, <2>1, PrefixSelf
    <3> QED BY <3>1 DEF Reached, Missed
  <2>2. CASE ~(d = e /\ full)
    <3>1. d \in Known'
      BY <1>1, <1>5, <1>7, <2>2 DEF Known
    <3> QED BY <3>1 DEF Reached
  <2> QED BY <2>1, <2>2
<1>8. CASE Missed(d)
  BY <1>6, <1>8 DEF Reached, Missed
<1>9. CASE Told(d)
  <2>1. Len(queue) \in Nat
    BY HandledIs
  <2>2. Told(d)'
    BY <1>1, <1>6, <1>9, <2>1, ToldStays
  <2> QED BY <2>2 DEF Reached
<1>10. CASE ToScan(d)
  <2>1. mode = "poll" /\ ~full
    BY <1>3, <1>10 DEF ToScan, TreeInv
  <2>2. PICK q \in dirs : Finds(q, d)
    BY <1>10 DEF ToScan
  <2>3. q # Root /\ q \in DirPath /\ q \in Seq(STRING) /\ IsPrefix(q, q) /\ Front(q) \in dirs
    BY <2>2, Paths, PrefixSelf DEF Finds, TreeInv, Rooted
  <2>4. Known' \subseteq Known /\ (Front(q) \in Known => Front(q) \in Known')
    BY <1>1, <2>1, <2>3 DEF Known
  <2>5. CASE q \notin seen'
    <3>1. Finds(q, d)'
      BY <2>2, <2>4, <2>5 DEF Finds
    <3>2. ToScan(d)'
      BY <1>1, <2>1, <3>1 DEF ToScan
    <3> QED BY <3>2 DEF Reached
  <2>6. CASE q \in seen'
    <3>1. q \notin seen /\ q \notin Known /\ IsPrefix(q, d)
      BY <2>2, <2>3 DEF Finds
    <3>2. e \in dirs /\ q \in Entries({e})
      BY <1>2, <2>6, <3>1
    <3>3. q \in missed'
      BY <1>2, <2>1, <3>1, <3>2 DEF Known
    <3> QED BY <3>1, <3>3 DEF Reached, Missed
  <2> QED BY <2>5, <2>6
<1> QED BY <1>5, <1>7, <1>8, <1>9, <1>10 DEF Reached

LEMMA ReachPublish ==
  ASSUME TreeInv, ReachInv, Publish
  PROVE  ReachInv'
<1>1. /\ ReadyToPublish /\ queue' = Tail(queue) /\ at' = "run"
      /\ UNCHANGED <<dirs, mode, watched, pending, seen, missed>>
  BY DEF Publish, world
<1>2. /\ queue \in Seq(Reported) /\ queue # <<>>
      /\ \/ at = "publish"
         \/ at = "run" /\ Introduced(Head(queue)) = {}
  BY <1>1 DEF ReadyToPublish, TreeInv
<1>3. /\ Len(queue) \in Nat /\ Len(queue) # 0
      /\ Head(queue) = queue[1] /\ Head(queue) \in Reported
      /\ queue' \in Seq(Reported) /\ Len(queue') = Len(queue) - 1
      /\ \A k \in 1..Len(queue') : queue'[k] = queue[k + 1]
  BY <1>1, <1>2, EmptySeq, HeadTailProperties
<1>4. SUFFICES ASSUME NEW d \in InterestingWatchDirs(Root)' PROVE Reached(d)'
  BY DEF ReachInv
<1>5. d \in InterestingWatchDirs(Root) /\ Reached(d)
  BY <1>1, <1>2, <1>4, StillWanted DEF ReachInv
<1>6. CASE ~Told(d)
  <2>1. Known' = Known /\ Missed(d)' = Missed(d)
    BY <1>1 DEF Known, Missed
  <2>2. ToScan(d)' = ToScan(d)
    BY <1>1, <2>1 DEF ToScan, Finds
  <2> QED BY <1>5, <1>6, <2>1, <2>2 DEF Reached
<1>7. CASE Told(d)
  <2>1. PICK k \in 1..Len(queue) : k > Handled /\ Introduces(queue[k], d)
    BY <1>7 DEF Told
  <2>2. k # 1
    <3>1. CASE at = "publish"
      BY <2>1, <3>1 DEF Handled
    <3>2. CASE Introduced(Head(queue)) = {}
      BY <1>3, <1>5, <2>1, <3>2, IntroducedIs
    <3> QED BY <1>2, <3>1, <3>2
  <2> DEFINE j == k - 1
  <2>3. j \in 1..Len(queue') /\ j + 1 = k /\ j > 0
    BY <1>3, <2>2
  <2> HIDE DEF j
  <2>4. queue'[j] = queue[k] /\ Handled' = 0
    BY <1>1, <1>3, <2>3 DEF Handled
  <2>5. Introduces(queue'[j], d)
    BY <2>1, <2>4
  <2>6. Told(d)'
    BY <2>3, <2>4, <2>5 DEF Told
  <2> QED BY <2>6 DEF Reached
<1> QED BY <1>6, <1>7

LEMMA ReachSteps == TreeInv /\ ReachInv /\ [Next]_vars => ReachInv'
<1> SUFFICES ASSUME TreeInv, ReachInv, [Next]_vars PROVE ReachInv'
  OBVIOUS
<1>1. CASE \E p \in DirPath : MakeDir(p) \/ RemoveTree(p)
  BY <1>1, ReachMakeDir, ReachRemove
<1>2. CASE \E p, q \in DirPath : MoveTree(p, q)
  BY <1>2, ReachMove
<1>3. CASE (\E p \in FilePath : Save(p)) \/ StoreTakes
  BY <1>3, ReachFiles
<1>4. CASE Scan
  BY <1>4, ReachScan
<1>5. CASE List
  <2>1. pending' = InterestingWatchDirs(Root) /\ dirs' = dirs
    BY <1>5 DEF List, world
  <2>2. \A d \in InterestingWatchDirs(Root)' : d \in pending'
    BY <2>1, StillWanted
  <2> QED BY <2>2 DEF ReachInv, Reached, Known
<1>6. CASE ListNew
  BY <1>6, ReachListNew
<1>7. CASE Publish
  BY <1>7, ReachPublish
<1>8. CASE \E d \in DirPath : Attach(d) \/ WatchNew(d)
  BY <1>8, ReachAttach, ReachWatchNew
<1>9. CASE ManifestTakes \/ UNCHANGED vars
  <2>1. UNCHANGED <<dirs, mode, watched, at, pending, queue, seen, missed>>
    BY <1>9 DEF ManifestTakes, vars, world, task
  <2>2. SUFFICES ASSUME at \notin {"list", "dead"}, NEW d \in InterestingWatchDirs(Root)'
                 PROVE  Reached(d)'
    BY <2>1 DEF ReachInv
  <2>3. d \in dirs /\ Reached(d) /\ Len(queue) \in Nat
    BY <2>1, <2>2, StillWanted, HandledIs DEF ReachInv
  <2>4. /\ Len(queue') \in Nat /\ Len(queue) <= Len(queue')
        /\ \A k \in 1..Len(queue) : queue'[k] = queue[k]
    BY <2>1, <2>3
  <2> QED BY <2>1, <2>3, <2>4, ReachedStays
<1> QED BY <1>1, <1>2, <1>3, <1>4, <1>5, <1>6, <1>7, <1>8, <1>9 DEF Next

(* A watcher with nothing to do watches every directory of the project     *)
(* that its filter lets through, whatever was made, moved and removed      *)
(* while it listed and attached: the exceptions are the directories that   *)
(* nobody could tell it of.                                                *)
THEOREM DirectoriesAreWatched == Spec => []SettledIsWatched
<1>1. ASSUME TreeInv, ReachInv PROVE SettledIsWatched
  <2>1. SUFFICES ASSUME Quiet, NEW d \in InterestingWatchDirs(Root)
                 PROVE  d \in watched \/ Missed(d)
    BY DEF SettledIsWatched, Missed
  <2>2. at = "run" /\ queue = <<>> /\ (mode = "poll" => Differences = {}) /\ pending = {}
    BY <1>1, <2>1 DEF Quiet, TreeInv
  <2>3. Reached(d) /\ Known = watched
    BY <1>1, <2>1, <2>2 DEF ReachInv, Known
  <2>4. ~Told(d)
    <3>1. Len(queue) = 0
      BY <2>2
    <3> QED BY <3>1 DEF Told
  <2>5. ~ToScan(d)
    <3>1. SUFFICES ASSUME mode = "poll", NEW q \in dirs, Finds(q, d) PROVE FALSE
      BY DEF ToScan
    <3>2. q \in Entries(watched) \ seen
      BY <2>3, <3>1 DEF Finds, Entries
    <3>3. Event("Create", <<q>>) \in Differences
      BY <3>2, DifferencesAre
    <3> QED BY <2>2, <3>1, <3>3
  <2> QED BY <2>3, <2>4, <2>5 DEF Reached
<1>2. Init => ReachInv
  BY DEF Init, ReachInv
<1> QED BY <1>1, <1>2, TreeAlways, ReachSteps, PTL DEF Spec

=============================================================================
