------------------------------- MODULE Watcher -------------------------------
(***************************************************************************)
(* The filesystem watcher (crates/sources/src/filesystem.rs) with its      *)
(* noise filter (noise.rs), the manifest watcher that listens to it on the *)
(* daemon's own bus (manifest.rs), and the store that writes a database    *)
(* the watcher must not report.  inotify and the polling watcher of the    *)
(* notify crate are external.                                              *)
(*                                                                         *)
(* A path is the sequence of its components.                               *)
(***************************************************************************)
EXTENDS Naturals, Sequences, FiniteSets, SequencesExt, Sieve

CONSTANTS Root,          \* watch_root
          DirPath,       \* paths that may be directories, Root among them
          FilePath,      \* paths that may be files
          IGNORED_DIRECTORIES, IGNORED_FILENAMES,
          ManifestName, NodeModules,
          OwnPaths,      \* database and socket with their directories
          DbPath,
          WatchLimit,    \* max_user_watches
          BusCapacity,   \* events a receiver may be behind
          MaxOps         \* bound on what users do to files

Path == DirPath \cup FilePath

ASSUME WatcherAssumption ==
  /\ Path \subseteq Seq(STRING) /\ DirPath \cap FilePath = {}
  /\ Root \in DirPath /\ DbPath \in FilePath \cap OwnPaths /\ Front(DbPath) \in OwnPaths
  /\ \A p \in Path \ {Root} : p # <<>> /\ Front(p) \in DirPath
  /\ {WatchLimit, BusCapacity, MaxOps} \subseteq Nat

VARIABLES
  dirs, files,   \* what exists
  ops,           \* what users did
  mode,          \* "native" or "poll"
  watched,       \* directories with a watch
  at,            \* the task: "list", "attach", "run", or "dead"
  pending,       \* directories listed and not yet watched
  queue,         \* events of the watcher, [kind, paths]
  seen, dirty,   \* the polling watcher's last scan, and what changed since
  bus,           \* events broadcast, [source, path]
  manifestAt,    \* events the manifest watcher has taken
  storedAt,      \* events the main loop has stored
  owed,          \* history: paths changed under a watch and not yet broadcast
  missed,        \* history: directories that appeared unseen
  lagged         \* history: the manifest watcher lost events

world   == <<dirs, files, ops>>
task    == <<mode, watched, at, pending>>
readers == <<manifestAt, storedAt, lagged>>
vars == <<world, task, queue, seen, dirty, bus, readers, owed, missed>>

-----------------------------------------------------------------------------
(* NoiseFilter.                                                            *)

(* Mutant: the filter of a test, NoiseFilter::new, knows no paths of ours. *)
IsIgnoredName(p) == \E k \in DOMAIN p : p[k] \in IGNORED_DIRECTORIES

IsIgnoredDirectory(p) ==
  \/ \E own \in OwnPaths : IsPrefix(own, p)
  \/ \E k \in DOMAIN p : p[k] \in IGNORED_DIRECTORIES

IsInterestingDirectory(p) == ~IsIgnoredDirectory(p)

IsInteresting(p) ==
  ~IsIgnoredDirectory(p) /\ (p = <<>> \/ Last(p) \notin IGNORED_FILENAMES)

(* collect_interesting_dirs: from a directory down through the interesting *)
(* ones; the first is not asked about.                                     *)
InterestingWatchDirs(top) ==
  {d \in dirs : /\ IsPrefix(top, d)
                /\ \A k \in (Len(top) + 1)..Len(d) : IsInterestingDirectory(SubSeq(d, 1, k))}

-----------------------------------------------------------------------------
(* What the kernel reports.                                                *)

Event(kind, paths) == [kind |-> kind, paths |-> paths]

(* A native watch reports an entry of a watched directory; a poll is left  *)
(* a change to find, if it is still there.                                 *)
Notice(events, touched) ==
  LET heard == {p \in touched : Front(p) \in watched}
      owes  == owed \cup {p \in heard : IsInteresting(p)}
  IN  /\ owed' = IF mode = "native" THEN owes ELSE owes \cap files'
      /\ IF mode = "native"
         THEN queue' = queue \o events /\ UNCHANGED dirty
         ELSE UNCHANGED queue /\ dirty' = dirty \cup heard

Report(event) == IF Front(event.paths[1]) \in watched THEN <<event>> ELSE <<>>

(* The directories that appear at top without an event: nothing watches    *)
(* where they appear; or a poll knows them from its last scan, and takes   *)
(* them for changed.                                                       *)
Unseen(new, top) ==
  IF Front(top) \notin watched THEN new
  ELSE IF mode = "poll" THEN (new \cap seen) \ watched
  ELSE {}

MakeDir(p) ==
  /\ ops < MaxOps /\ ops' = ops + 1
  /\ p \in DirPath \ dirs /\ Front(p) \in dirs
  /\ dirs' = dirs \cup {p} /\ UNCHANGED files
  /\ Notice(Report(Event("Create", <<p>>)), {p})
  /\ missed' = missed \cup Unseen({p}, p)
  /\ UNCHANGED <<task, seen, bus, readers>>

(* A save creates or modifies; an editor may also rename a file into place. *)
Save(p) ==
  /\ ops < MaxOps /\ ops' = ops + 1
  /\ p \in FilePath \ OwnPaths /\ Front(p) \in dirs
  /\ files' = files \cup {p} /\ UNCHANGED dirs
  /\ \E kind \in {"To", IF p \in files THEN "Modify" ELSE "Create"} :
       Notice(Report(Event(kind, <<p>>)), {p})
  /\ UNCHANGED <<task, seen, bus, readers, missed>>

Under(top) == {p \in dirs \cup files : IsPrefix(top, p)}

RemoveTree(top) ==
  /\ ops < MaxOps /\ ops' = ops + 1
  /\ top \in dirs \ {Root} /\ ~\E own \in OwnPaths : IsPrefix(top, own)
  /\ dirs' = dirs \ Under(top) /\ files' = files \ Under(top)
  /\ watched' = IF mode = "native" THEN watched \ Under(top) ELSE watched
  /\ Notice(Report(Event("Remove", <<top>>)), {top})
  /\ missed' = missed \ Under(top)
  /\ UNCHANGED <<mode, at, pending, seen, bus, readers>>

(* The watches of a tree that moves are dropped.                           *)
MoveTree(from, to) ==
  LET moved(p) == to \o SubSeq(p, Len(from) + 1, Len(p))
      gone == Under(from)
      out == Front(from) \in watched
      in  == Front(to) \in watched
  IN  /\ ops < MaxOps /\ ops' = ops + 1
      /\ from \in dirs \ {Root} /\ ~\E own \in OwnPaths : IsPrefix(from, own)
      /\ to \in DirPath \ dirs /\ Front(to) \in dirs \ gone
      /\ \A p \in gone : moved(p) \in (IF p \in dirs THEN DirPath ELSE FilePath)
      /\ dirs' = (dirs \ gone) \cup {moved(p) : p \in gone \cap dirs}
      /\ files' = (files \ gone) \cup {moved(p) : p \in gone \cap files}
      /\ watched' = IF mode = "native" THEN watched \ gone ELSE watched
      /\ Notice(Report(Event("From", <<from>>)) \o Report(Event("To", <<to>>))
                  \o (IF out /\ in THEN <<Event("Both", <<from, to>>)>> ELSE <<>>),
                {from, to})
      /\ missed' = (missed \ gone) \cup Unseen({moved(p) : p \in gone \cap dirs}, to)
      /\ UNCHANGED <<mode, at, pending, seen, bus, readers>>

Entries(ds) == {p \in dirs \cup files : p # Root /\ Front(p) \in ds}

(* What the polling watcher finds different from its last scan.            *)
Differences ==
  LET now == Entries(watched)
  IN  [kind : {"Create"}, paths : {<<p>> : p \in now \ seen}]
      \cup [kind : {"Remove"}, paths : {<<p>> : p \in seen \ now}]
      \cup [kind : {"Modify"}, paths : {<<p>> : p \in seen \cap now \cap dirty}]

(* It reports one difference after the other, in the order it walks.       *)
Scan ==
  /\ mode = "poll" /\ Differences # {}
  /\ LET event == CHOOSE e \in Differences : TRUE
         p == event.paths[1]
     IN  /\ queue' = Append(queue, event)
         /\ seen' = IF event.kind = "Remove" THEN seen \ {p} ELSE seen \cup {p}
         /\ dirty' = dirty \ {p}
  /\ UNCHANGED <<world, task, bus, readers, owed, missed>>

-----------------------------------------------------------------------------
(* The watcher.                                                            *)

(* watch_or_poll lists the directories, then attaches.                     *)
List ==
  /\ at = "list"
  /\ pending' = InterestingWatchDirs(Root)
  /\ at' = "attach"
  /\ missed' = {}
  /\ UNCHANGED <<world, mode, watched, queue, seen, dirty, bus, readers, owed>>

NextToAttach(d) == d \in pending /\ ~\E e \in pending \ {d} : IsPrefix(e, d)

(* attach_watches at start-up.  At the limit of the kernel everything is   *)
(* polled instead; any other failure, a directory that is gone, ends the   *)
(* task.  A poll accepts any path, and passes over those that are gone.    *)
Attach(d) ==
  /\ at = "attach" /\ NextToAttach(d)
  /\ IF d \notin dirs
     THEN /\ at' = "dead" /\ watched' = {} /\ pending' = {}
          /\ UNCHANGED <<mode, seen>>
     ELSE IF Cardinality(watched) = WatchLimit
     THEN /\ mode' = "poll" /\ at' = "run"
          /\ watched' = watched \cup (pending \cap dirs) /\ pending' = {}
          /\ seen' = Entries(watched')
     ELSE /\ watched' = watched \cup {d} /\ pending' = pending \ {d}
          /\ at' = IF pending = {d} THEN "run" ELSE "attach"
          /\ UNCHANGED <<mode, seen>>
  /\ UNCHANGED <<world, queue, dirty, bus, readers, owed, missed>>

(* Mutant: only Create introduces a directory.                             *)
IntroducesOnCreate(kind) == kind = "Create"

IntroducesDirectory(kind) == kind \in {"Create", "To", "Both"}

(* watch_new_directories: the trees an event introduces, listed.           *)
Introduced(event) ==
  IF ~IntroducesDirectory(event.kind) THEN {}
  ELSE UNION {InterestingWatchDirs(p) : p \in {q \in Range(event.paths) : IsInterestingDirectory(q)}}

ListNew ==
  /\ at = "run" /\ pending = {} /\ queue # <<>>
  /\ pending' = Introduced(Head(queue))
  /\ pending' # {}
  /\ at' = "watch"
  /\ missed' = missed \ pending'
  /\ UNCHANGED <<world, mode, watched, queue, seen, dirty, bus, readers, owed>>

(* Failures are logged: the directory stays without a watch.  A poll takes *)
(* stock of a directory it is given, again if it has it: what is new there *)
(* since the last scan is known from then on, and was never reported.      *)
WatchNew(d) ==
  LET full  == mode = "native" /\ Cardinality(watched) = WatchLimit /\ d \notin watched
      found == Entries({d})
  IN  /\ at = "watch" /\ NextToAttach(d)
      /\ pending' = pending \ {d}
      /\ at' = IF pending = {d} THEN "publish" ELSE "watch"
      /\ watched' = IF d \in dirs /\ ~full THEN watched \cup {d} ELSE watched
      /\ IF mode = "poll" /\ d \in dirs
         THEN /\ seen'  = {p \in seen : Front(p) # d} \cup found
              /\ dirty' = {p \in dirty : Front(p) # d}
              /\ owed'  = owed \ (dirty \ dirty')
              /\ missed' = missed \cup ((found \cap dirs) \ (seen \cup pending \cup watched))
         ELSE /\ UNCHANGED <<seen, dirty, owed>>
              /\ missed' = IF full THEN missed \cup {d} ELSE missed
      /\ UNCHANGED <<world, mode, queue, bus, readers>>

FileSystem(p) == [source |-> "fs", path |-> p]
Manifest(p)   == [source |-> "manifest", path |-> p]

ReadyToPublish ==
  \/ at = "publish"
  \/ at = "run" /\ queue # <<>> /\ Introduced(Head(queue)) = {}

(* Mutant: an event that introduced a directory is not published.          *)
PublishOrWatch ==
  /\ ReadyToPublish
  /\ LET kept == Sifted(Head(queue).paths, {p \in Path : IsInteresting(p)})
     IN  IF at = "publish" THEN UNCHANGED <<bus, owed>>
         ELSE /\ bus' = bus \o [k \in DOMAIN kept |-> FileSystem(kept[k])]
              /\ owed' = owed \ Range(kept)
  /\ queue' = Tail(queue) /\ at' = "run"
  /\ UNCHANGED <<world, mode, watched, pending, seen, dirty, readers, missed>>

(* publish_event, after the directories.                                   *)
Publish ==
  /\ ReadyToPublish
  /\ LET kept == Sifted(Head(queue).paths, {p \in Path : IsInteresting(p)})
     IN  /\ bus' = bus \o [k \in DOMAIN kept |-> FileSystem(kept[k])]
         /\ owed' = owed \ Range(kept)
  /\ queue' = Tail(queue) /\ at' = "run"
  /\ UNCHANGED <<world, mode, watched, pending, seen, dirty, readers, missed>>

-----------------------------------------------------------------------------
(* The readers of the bus.                                                 *)

IsProjectManifestPath(p) ==
  p # <<>> /\ Last(p) \in ManifestName /\ \A k \in DOMAIN p : p[k] # NodeModules

(* Mutant: an event of any source is taken for a change of the file.       *)
IsAnyManifest(event) == IsProjectManifestPath(event.path)

IsManifestChange(event) == event.source = "fs" /\ IsProjectManifestPath(event.path)

(* start_manifest_watcher.  A receiver that is BusCapacity behind loses    *)
(* the oldest events.                                                      *)
ManifestTakes ==
  LET oldest == Len(bus) - BusCapacity
      event == bus[manifestAt + 1]
  IN  /\ manifestAt < Len(bus)
      /\ IF manifestAt < oldest
         THEN manifestAt' = oldest /\ lagged' = TRUE /\ UNCHANGED bus
         ELSE /\ manifestAt' = manifestAt + 1
              /\ bus' = IF IsManifestChange(event) THEN Append(bus, Manifest(event.path)) ELSE bus
              /\ UNCHANGED lagged
      /\ UNCHANGED <<world, task, queue, seen, dirty, storedAt, owed, missed>>

(* The main loop stores an event, which changes the database file.         *)
StoreTakes ==
  /\ storedAt < Len(bus) /\ storedAt' = storedAt + 1
  /\ UNCHANGED <<dirs, ops, files>>
  /\ Notice(Report(Event("Modify", <<DbPath>>)), {DbPath})
  /\ UNCHANGED <<task, seen, bus, manifestAt, lagged, missed>>

Init ==
  /\ dirs \in SUBSET DirPath
  /\ Root \in dirs /\ Front(DbPath) \in dirs /\ \A p \in dirs \ {Root} : Front(p) \in dirs
  /\ files = {DbPath}
  /\ ops = 0 /\ mode = "native" /\ watched = {} /\ at = "list" /\ pending = {}
  /\ queue = <<>> /\ seen = {} /\ dirty = {} /\ bus = <<>>
  /\ manifestAt = 0 /\ storedAt = 0 /\ lagged = FALSE
  /\ owed = {} /\ missed = {}

Next ==
  \/ \E p \in DirPath : MakeDir(p) \/ RemoveTree(p)
  \/ \E p \in FilePath : Save(p)
  \/ \E p, q \in DirPath : MoveTree(p, q)
  \/ Scan \/ List \/ ListNew \/ Publish \/ ManifestTakes \/ StoreTakes
  \/ \E d \in DirPath : Attach(d) \/ WatchNew(d)

Spec == Init /\ [][Next]_vars

-----------------------------------------------------------------------------
(* Properties.                                                             *)

(* The daemon does not observe itself: what it stores, and what it derives *)
(* from its own events, never adds to what users did.  One rename is       *)
(* reported as four paths; a manifest change is reported twice.            *)
NoFeedback == Len(bus) <= 4 * ops

(* When the watcher has caught up, every directory of the project that     *)
(* exists has a watch, whatever was moved where, except those that         *)
(* appeared between a listing and the watch of their parent, at the limit  *)
(* of the kernel, or a second time between two scans.                      *)
Quiet == at = "run" /\ queue = <<>> /\ (mode = "poll" => Differences = {})
SettledIsWatched ==
  Quiet => \A d \in InterestingWatchDirs(Root) :
             d \in watched \/ \E m \in missed : IsPrefix(m, d)

(* A change under a watch reaches the bus, through directories that come   *)
(* and go and a fall-back to polling, unless the directory is given to the *)
(* poll again before the next scan.                                        *)
ChangesAreReported == Quiet => owed = {}

(* A manifest watcher that never lagged has derived one event from each    *)
(* change of a manifest, and none from its own.                            *)
CountOf(source, upto) ==
  Cardinality({k \in 1..upto : /\ bus[k].source = source /\ IsProjectManifestPath(bus[k].path)})
ManifestFollows == ~lagged => CountOf("manifest", Len(bus)) = CountOf("fs", manifestAt)

===============================================================================
