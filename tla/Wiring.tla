-------------------------------- MODULE Wiring --------------------------------
(***************************************************************************)
(* What `contextd install` and `uninstall` (bin/contextd/src/cli.rs) do to *)
(* files the daemon does not own: the block in a shell profile and the     *)
(* systemd unit (crates/sources/src/install.rs), and the git hooks         *)
(* (git.rs), which the daemon installs too when it starts; and what git    *)
(* then runs.  People and other tools change the same files in between,    *)
(* and an installer may die between any two calls it makes.                *)
(***************************************************************************)
EXTENDS Naturals, Sequences, FiniteSets, Sieve

CONSTANTS Installer,   \* processes that install hooks: a `contextd install`, a daemon
          Tree,        \* git working trees
          Common,      \* Tree -> the repository it belongs to
          HooksPath,   \* Common -> core.hooksPath: NONE, or [absolute, path]
          Override,    \* Tree -> the same from its config.worktree
          Inherited,   \* Tree -> the same from the configuration of user or system
          Version,     \* socket paths a hook or a block is rendered for
          Foreign,     \* hooks of other people
          UserLine,    \* lines of the user's profile
          NotUtf8,     \* those that are not UTF-8
          MaxEdits,    \* bound on what users and other tools do
          MaxDeaths,   \* bound on installers that die
          NONE

Place == [absolute : BOOLEAN, path : {"p"}]

(* A hook is ours, of this or of the old format, or other people's, and    *)
(* may be executable.                                                      *)
File == [kind : {"ours", "legacy", "foreign"}, of : Version \cup Foreign, exec : BOOLEAN]

ASSUME WiringAssumption ==
  /\ Common \in [Tree -> STRING] /\ DOMAIN HooksPath = {Common[t] : t \in Tree}
  /\ \A c \in DOMAIN HooksPath : HooksPath[c] \in Place \cup {NONE}
  /\ {Override, Inherited} \subseteq [Tree -> Place \cup {NONE}]
  /\ NotUtf8 \subseteq UserLine
  /\ {MaxEdits, MaxDeaths} \subseteq Nat
  /\ Foreign \cap Version = {} /\ NONE \notin Foreign \cup Version \cup UserLine \cup File

-----------------------------------------------------------------------------
(* Where git keeps hooks.                                                  *)

In(t, set) ==
  IF set = NONE THEN <<"repository", Common[t]>>
  ELSE IF set.absolute THEN <<"absolute", set.path>>
  ELSE <<"tree", t>>

(* read_core_hooks_path: the worktree's own file wins, if it sets the key; *)
(* no other configuration is read.                                         *)
ReadCoreHooksPath(t) == IF Override[t] = NONE THEN HooksPath[Common[t]] ELSE Override[t]

(* Where git looks (git-config, core.hooksPath): what the user or the      *)
(* system sets holds where worktree and repository set nothing, and a      *)
(* relative path is taken from the directory hooks run in, the top of the  *)
(* working tree.                                                           *)
GitLooksIn(t) ==
  In(t, IF Override[t] # NONE THEN Override[t]
        ELSE IF HooksPath[Common[t]] # NONE THEN HooksPath[Common[t]]
        ELSE Inherited[t])

(* Mutant: a relative path is taken from the git directory.                *)
HooksDirInCommon(t) ==
  LET set == ReadCoreHooksPath(t)
  IN  IF set # NONE /\ ~set.absolute THEN <<"repository", Common[t]>> ELSE In(t, set)

(* git_hooks_dir.                                                          *)
HooksDir(t) == In(t, ReadCoreHooksPath(t))

Dir == {HooksDir(t) : t \in Tree} \cup {GitLooksIn(t) : t \in Tree}

VARIABLES
  hook, backup,   \* Dir -> a hook file and the file it may have been moved to
  pc,             \* Installer -> what it does next
  profile,        \* lines of the shell profile
  unit,           \* the systemd unit: rendered for a Version, the user's, or NONE
  edits, deaths,
  theirs,         \* history: Dir -> hooks other people put there and left
  raced,          \* history: Dir -> two of them were at work at once
  whole,          \* history: Dir -> no install is half done
  wrote,          \* history: lines the user has in the profile
  spoiled         \* history: the user has deleted one of the block's markers

wireVars == <<hook, backup, pc, profile, unit, edits, deaths, theirs, raced, whole,
          wrote, spoiled>>

gitVars  == <<hook, backup, pc, theirs, raced, whole, deaths>>
homeVars == <<profile, unit, wrote, spoiled>>

-----------------------------------------------------------------------------
(* Hooks.                                                                  *)

Ours(v)   == [kind |-> "ours", of |-> v, exec |-> TRUE]
Legacy(v) == [kind |-> "legacy", of |-> v, exec |-> TRUE]
Theirs(f) == [kind |-> "foreign", of |-> f, exec |-> TRUE]

IsContextdHook(file) == file.kind \in {"ours", "legacy"}

Idle == [at |-> "idle", dir |-> NONE, version |-> NONE]

WireInit ==
  /\ hook \in [Dir -> {NONE} \cup {Legacy(v) : v \in Version} \cup {Theirs(f) : f \in Foreign}]
  /\ backup = [d \in Dir |-> NONE]
  /\ theirs = [d \in Dir |-> IF hook[d] = NONE \/ hook[d].kind # "foreign" THEN {} ELSE {hook[d].of}]
  /\ raced = [d \in Dir |-> FALSE]
  /\ pc = [p \in Installer |-> Idle]
  /\ whole = [d \in Dir |-> FALSE]
  /\ profile = <<>> /\ unit = NONE /\ wrote = {} /\ spoiled = FALSE
  /\ edits = 0 /\ deaths = 0

AtWork(d) == {p \in Installer : pc[p].dir = d}

Goto(p, at) == pc' = [pc EXCEPT ![p].at = at]

(* Mutant: a second hook is moved over the first.                          *)
LookCareless(p, t, v) ==
  LET d == HooksDir(t)
      move == hook[d] # NONE /\ ~IsContextdHook(hook[d])
  IN  /\ pc[p].at = "idle"
      /\ pc' = [pc EXCEPT ![p] = [at |-> IF move THEN "move" ELSE "write", dir |-> d,
                                  version |-> v]]
      /\ raced' = [raced EXCEPT ![d] = @ \/ AtWork(d) # {}]
      /\ UNCHANGED <<hook, backup, theirs, whole, edits, deaths>> /\ UNCHANGED homeVars

(* install_one looks at the hook.  A hook that is not ours is moved aside, *)
(* unless there is a backup, which is left alone, and so is the hook.      *)
Look(p, t, v) ==
  LET d == HooksDir(t)
      foreign == hook[d] # NONE /\ ~IsContextdHook(hook[d])
      next == IF foreign THEN "move" ELSE "write"
  IN  /\ pc[p].at = "idle"
      /\ IF foreign /\ backup[d] # NONE THEN UNCHANGED <<pc, raced>>
         ELSE /\ pc' = [pc EXCEPT ![p] = [at |-> next, dir |-> d, version |-> v]]
              /\ raced' = [raced EXCEPT ![d] = @ \/ AtWork(d) # {}]
      /\ UNCHANGED <<hook, backup, theirs, whole, edits, deaths>> /\ UNCHANGED homeVars

(* rename fails when the hook is gone, and replaces a backup.              *)
Move(p) ==
  LET d == pc[p].dir
  IN  /\ pc[p].at = "move"
      /\ IF hook[d] = NONE
         THEN pc' = [pc EXCEPT ![p] = Idle] /\ UNCHANGED <<hook, backup, whole>>
         ELSE /\ backup' = [backup EXCEPT ![d] = hook[d]]
              /\ hook' = [hook EXCEPT ![d] = NONE]
              /\ whole' = [whole EXCEPT ![d] = FALSE]
              /\ Goto(p, "write")
      /\ UNCHANGED <<theirs, raced, edits, deaths>> /\ UNCHANGED homeVars

(* A new file is not executable; one that is overwritten keeps its mode.   *)
Write(p) ==
  LET d == pc[p].dir
  IN  /\ pc[p].at = "write"
      /\ hook' = [hook EXCEPT ![d] = [Ours(pc[p].version) EXCEPT
                                        !.exec = hook[d] # NONE /\ hook[d].exec]]
      /\ whole' = [whole EXCEPT ![d] = FALSE]
      /\ Goto(p, "chmod")
      /\ UNCHANGED <<backup, theirs, raced, edits, deaths>> /\ UNCHANGED homeVars

SetPermissions(p) ==
  LET d == pc[p].dir
  IN  /\ pc[p].at = "chmod"
      /\ IF hook[d] = NONE THEN UNCHANGED <<hook, whole>>
         ELSE /\ hook' = [hook EXCEPT ![d].exec = TRUE]
              /\ whole' = [whole EXCEPT ![d] = TRUE]
      /\ pc' = [pc EXCEPT ![p] = Idle]
      /\ UNCHANGED <<backup, theirs, raced, edits, deaths>> /\ UNCHANGED homeVars

Die(p) ==
  /\ pc[p].at # "idle" /\ deaths < MaxDeaths
  /\ pc' = [pc EXCEPT ![p] = Idle]
  /\ deaths' = deaths + 1
  /\ UNCHANGED <<hook, backup, theirs, raced, whole, edits>> /\ UNCHANGED homeVars

(* Another tool writes its hook over whatever is there, or removes it.     *)
ToolTouches(d, file) ==
  /\ edits < MaxEdits /\ edits' = edits + 1
  /\ hook' = [hook EXCEPT ![d] = file]
  /\ theirs' = [theirs EXCEPT ![d] =
       (@ \ (IF hook[d] # NONE /\ hook[d].kind = "foreign" THEN {hook[d].of} ELSE {}))
       \cup (IF file = NONE THEN {} ELSE {file.of})]
  /\ raced' = [raced EXCEPT ![d] = @ \/ AtWork(d) # {}]
  /\ whole' = [whole EXCEPT ![d] = FALSE]
  /\ UNCHANGED <<backup, pc, deaths>> /\ UNCHANGED homeVars

(* What git does that runs a hook: `restore` is a checkout of files.       *)
GitOp == {"commit", "checkout", "restore", "push"}

Silent == [runs |-> {}, sends |-> 0, fails |-> FALSE]

(* The file that ours calls first, executable or not.  Only a race leaves  *)
(* one of ours there: the old format sends, the new calls itself until it  *)
(* fails.                                                                  *)
RanPrior(prior, failing) ==
  IF prior = NONE THEN Silent
  ELSE IF prior.kind = "foreign"
       THEN [runs |-> {prior.of}, sends |-> 0, fails |-> prior.of \in failing]
  ELSE [runs  |-> {}, sends |-> IF prior.kind = "legacy" THEN 1 ELSE 0,
        fails |-> prior.kind = "ours"]

(* What a hook file runs, other people's hooks and sends counted, and      *)
(* whether git sees it fail, when the hooks in `failing` do.  Ours ends    *)
(* with the status of the file it calls first if that fails, and sends     *)
(* nothing for a checkout of files.                                        *)
Ran(file, prior, op, failing) ==
  IF file = NONE \/ ~file.exec THEN Silent
  ELSE IF file.kind = "foreign" THEN RanPrior(file, failing)
  ELSE LET first == RanPrior(prior, failing)
       IN  IF first.fails \/ op = "restore" THEN first
           ELSE [runs |-> first.runs, sends |-> first.sends + 1, fails |-> FALSE]

GitRuns(t, op, failing) ==
  Ran(hook[GitLooksIn(t)], backup[GitLooksIn(t)], op, failing)

-----------------------------------------------------------------------------
(* The profile and the unit.                                               *)

BEGIN_MARKER == "begin"
END_MARKER   == "end"
Block(v) == <<BEGIN_MARKER, v, END_MARKER>>

(* The markers and what stands between them are not lines of the user's.   *)
ASSUME MarkersAssumption ==
  /\ {BEGIN_MARKER, END_MARKER} \cap (UserLine \cup Version) = {}
  /\ UserLine \cap Version = {} /\ NONE \notin Nat \X Nat

FirstOf(lines, mark, from) ==
  LET at == {k \in from..Len(lines) : lines[k] = mark}
  IN  IF at = {} THEN 0 ELSE CHOOSE k \in at : \A j \in at : k <= j

(* read_to_string fails on a profile that is not UTF-8, and unwrap_or_default *)
(* makes that an empty one.                                                *)
IsUtf8(lines) == \A k \in DOMAIN lines : lines[k] \notin NotUtf8
Existing == IF IsUtf8(profile) THEN profile ELSE <<>>

(* find_block: from the first begin marker to the next end marker.         *)
FindBlock(lines) ==
  LET start == FirstOf(lines, BEGIN_MARKER, 1)
      end   == IF start = 0 THEN 0 ELSE FirstOf(lines, END_MARKER, start)
  IN  IF end = 0 THEN NONE ELSE <<start, end>>

Ahead(lines, block) == SubSeq(lines, 1, block[1] - 1)
After(lines, block) == SubSeq(lines, block[2] + 1, Len(lines))

InstallShellHook(v) ==
  LET block == FindBlock(Existing)
  IN  /\ profile' = IF block = NONE THEN Existing \o Block(v)
                    ELSE Ahead(Existing, block) \o Block(v) \o After(Existing, block)
      /\ UNCHANGED <<unit, wrote, spoiled, edits>> /\ UNCHANGED gitVars

(* Mutant: what follows the block goes with it.                            *)
CutTail(lines, block) == Ahead(lines, block)

WithoutBlock(lines, block) == Ahead(lines, block) \o After(lines, block)

InstallSystemdUnit(v) ==
  /\ unit' = v
  /\ UNCHANGED <<profile, wrote, spoiled, edits>> /\ UNCHANGED gitVars

(* run_uninstall: the profile and the unit, not the git hooks.             *)
Uninstall ==
  LET block == FindBlock(Existing)
  IN  /\ profile' = IF block = NONE THEN profile ELSE WithoutBlock(Existing, block)
      /\ unit' = NONE
      /\ UNCHANGED <<wrote, spoiled, edits>> /\ UNCHANGED gitVars

UserAdds(line) ==
  /\ edits < MaxEdits /\ edits' = edits + 1
  /\ line \notin wrote
  /\ profile' \in {Append(profile, line), <<line>> \o profile}
  /\ wrote' = wrote \cup {line}
  /\ UNCHANGED <<unit, spoiled>> /\ UNCHANGED gitVars

UserRemoves(k) ==
  /\ edits < MaxEdits /\ edits' = edits + 1
  /\ k \in DOMAIN profile
  /\ profile' = SubSeq(profile, 1, k - 1) \o SubSeq(profile, k + 1, Len(profile))
  /\ wrote' = wrote \ {profile[k]}
  /\ spoiled' = (spoiled \/ profile[k] \in {BEGIN_MARKER, END_MARKER})
  /\ UNCHANGED unit /\ UNCHANGED gitVars

NextGit ==
  \/ \E p \in Installer :
       \/ \E t \in Tree, v \in Version : Look(p, t, v)
       \/ Move(p) \/ Write(p) \/ SetPermissions(p) \/ Die(p)
  \/ \E d \in Dir, file \in {Theirs(f) : f \in Foreign} \cup {NONE} : ToolTouches(d, file)

NextHome ==
  \/ \E v \in Version : InstallShellHook(v) \/ InstallSystemdUnit(v)
  \/ Uninstall
  \/ \E line \in UserLine : UserAdds(line)
  \/ \E k \in DOMAIN profile : UserRemoves(k)

WireNext == NextGit \/ NextHome

WireSpec == WireInit /\ [][WireNext]_wireVars

-----------------------------------------------------------------------------
(* Properties.                                                             *)

(* Whenever an installer died and however often it was run again, every    *)
(* hook other people left there is where git finds it or where ours calls  *)
(* it, unless two of them were at it at the same time.                     *)
TheirsIsKept ==
  \A d \in Dir : ~raced[d] =>
    theirs[d] \subseteq {file.of : file \in {hook[d], backup[d]} \ {NONE}}

(* Once an install has run to its end, every git operation in a tree that  *)
(* shares the hooks runs the hook that was there before, and fails exactly *)
(* if that does: contextd never fails it.  Then it sends nothing; nor does *)
(* a checkout of files; every other operation sends one event.  So it is   *)
(* wherever the repository or the worktree says that its hooks are, and    *)
(* where no other configuration says it.                                   *)
SetsHooksPath(t) == ReadCoreHooksPath(t) # NONE \/ Inherited[t] = NONE
Heard(t, op, failing) ==
  LET ran == GitRuns(t, op, failing)
  IN  /\ theirs[HooksDir(t)] \subseteq ran.runs
      /\ ran.fails <=> ran.runs \cap failing # {}
      /\ ran.sends = IF ran.fails \/ op = "restore" THEN 0 ELSE 1
InstalledHookWorks ==
  \A t \in Tree :
    whole[HooksDir(t)] /\ ~raced[HooksDir(t)] /\ SetsHooksPath(t) =>
      \A op \in GitOp, failing \in SUBSET Foreign : Heard(t, op, failing)

(* Installs for changing sockets, uninstalls and edits around the block    *)
(* leave at most one block, and every line of the user's where it was, as  *)
(* long as the markers are left alone and the profile is UTF-8.            *)
UserLinesOf(lines) == Sifted(lines, UserLine)
LeavesUserLines ==
  (\E v \in Version : InstallShellHook(v) \/ Uninstall)
    => UserLinesOf(profile') = UserLinesOf(profile)
AtMostOneBlock ==
  Cardinality({k \in DOMAIN profile : profile[k] = BEGIN_MARKER}) <= 1
ProfileIsTheUsers ==
  [][~spoiled' /\ IsUtf8(profile) => LeavesUserLines /\ AtMostOneBlock']_wireVars

===============================================================================
