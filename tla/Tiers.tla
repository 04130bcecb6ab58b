-------------------------------- MODULE Tiers --------------------------------
(***************************************************************************)
(* Tier 0 and Tier 2 of the daemon's memory: the working set of recent     *)
(* events (crates/memory/src/working.rs), and the graph of what goes with  *)
(* what (graph.rs), mirrored to disk by a flush worker (tier2.rs,          *)
(* graph_store.rs).  store_ingested feeds both, after the row is in        *)
(* Tier 1 and the writer lock is released, from the main loop and from any *)
(* number of observe requests; the enrichment worker takes noise out again. *)
(***************************************************************************)
EXTENDS Integers, Sequences, FiniteSets, SequencesExt, Sieve

CONSTANTS Event,       \* events that get past the ingest filter
          Observed,    \* those an observe request reports; the rest come by the bus
          Noise,       \* those the enrichment worker drops
          Source, Stamp, Thing, Error,   \* what an event says, by event
          CAPACITY,                \* of the working set
          HORIZON,                 \* of recent
          CO_OCCURRENCE_WINDOW,    \* oldest entity an event is linked to
          RECENT_ENTITY_WINDOW,    \* most entities an event is linked to
          MaxCrashes, MaxUnreadable,   \* bounds on crashes and failed loads
          NONE

EntityKind == {"file", "command", "repo", "error", "intent"}
Entity == [kind : EntityKind, name : Nat]

ASSUME TiersAssumption ==
  /\ Observed \subseteq Event /\ Noise \subseteq Event
  /\ Source \in [Event -> {"shell", "proc", "filesystem", "editor", "manifest", "git", "note"}]
  /\ Stamp \in [Event -> Nat]
  /\ Thing \in [Event -> Nat \cup {NONE}] /\ Error \in [Event -> Nat \cup {NONE}]
  /\ {CAPACITY, HORIZON, CO_OCCURRENCE_WINDOW, RECENT_ENTITY_WINDOW,
      MaxCrashes, MaxUnreadable} \subseteq Nat
  /\ CAPACITY > 0
  /\ NONE \notin Nat \cup Event

VARIABLES
  rows,        \* Tier 1: ids of the stored events
  step,        \* where store_ingested is with each event
  working,     \* Tier 0
  graph,       \* Tier 2: its nodes, and the weight of each edge
  recent,      \* <<entity, time>> of recent events, newest last
  disk,        \* the graph tables
  copied,      \* the snapshot a flush is about to write, or NONE
  dropping,    \* the event the enrichment worker is taking out, or NONE
  up,
  crashes, unreadable,
  recorded,    \* history: events put in the working set in this session
  forgotten,   \* history: events taken out of it
  sighted      \* history: every <<entity, time>> the graph has seen

vars == <<rows, step, working, graph, recent, disk, copied, dropping, up,
          crashes, unreadable, recorded, forgotten, sighted>>

-----------------------------------------------------------------------------
(* The working set.                                                        *)

LastOf(s, k) == SubSeq(s, IF Len(s) > k THEN Len(s) - k + 1 ELSE 1, Len(s))
FirstOf(s, k) == SubSeq(s, 1, IF k < Len(s) THEN k ELSE Len(s))

(* Mutant: a full set gives up the event it has just taken.                *)
RecordUnlessFull(set, e) == IF Len(set) >= CAPACITY THEN set ELSE Append(set, e)

Record(set, e) == LastOf(Append(set, e), CAPACITY)

Forget(set, e) == Sifted(set, Event \ {e})

(* Newest first, up to limit; u64 subtraction saturates at 0.              *)
Recent(set, now, limit) ==
  FirstOf(Sifted(Reverse(set), {e \in Event : Stamp[e] >= now - HORIZON}), limit)

-----------------------------------------------------------------------------
(* The graph.  An edge is the set of its two ends.                         *)

NoGraph == [nodes |-> {}, weight |-> [edge \in {} |-> 0]]

KindOf(source) == CASE source \in {"shell", "proc"} -> "command"
                    [] source \in {"filesystem", "editor", "manifest"} -> "file"
                    [] source = "git" -> "repo"

(* entities_of: what the event is about, unless it is blank, and the error *)
(* it reports.  A command is cut down to its program.                      *)
EntitiesOf(e) ==
  (IF Source[e] = "note" \/ Thing[e] = NONE THEN <<>>
   ELSE <<[kind |-> KindOf(Source[e]), name |-> Thing[e]]>>)
  \o (IF Error[e] = NONE THEN <<>> ELSE <<[kind |-> "error", name |-> Error[e]]>>)

(* The entities still in the window; a stamp before theirs keeps them all. *)
Kept(seen, ts) ==
  Sifted(seen, {s \in ToSet(seen) : ts - s[2] <= CO_OCCURRENCE_WINDOW})
Edge(a, b) == {a, b}
WeightOf(g, edge) == IF edge \in DOMAIN g.weight THEN g.weight[edge] ELSE 0

(* An event is linked to what came just before it, once for each time that *)
(* is listed, and not to itself.                                           *)
Link(g, new, near) ==
  LET met == {p \in (DOMAIN new) \X (DOMAIN near) : new[p[1]] # near[p[2]][1]}
      edge(p) == Edge(new[p[1]], near[p[2]][1])
  IN  [nodes  |-> g.nodes \cup ToSet(new) \cup UNION {edge(p) : p \in met},
       weight |-> [x \in DOMAIN g.weight \cup {edge(p) : p \in met} |->
                     WeightOf(g, x) + Cardinality({p \in met : edge(p) = x})]]

(* Mutant: nothing ages out of the window.                                 *)
ObserveForever(g, seen, e) == Link(g, EntitiesOf(e), LastOf(seen, RECENT_ENTITY_WINDOW))

(* KnowledgeGraph::observe.                                                *)
Observe(g, seen, e) ==
  Link(g, EntitiesOf(e), LastOf(Kept(seen, Stamp[e]), RECENT_ENTITY_WINDOW))

Remember(seen, e) ==
  LET new == EntitiesOf(e)
  IN  IF new = <<>> THEN seen
      ELSE Kept(seen, Stamp[e]) \o [i \in DOMAIN new |-> <<new[i], Stamp[e]>>]

KindRank(kind) == CASE kind = "command" -> 1 [] kind = "error" -> 2 [] kind = "file" -> 3
                    [] kind = "intent" -> 4 [] kind = "repo" -> 5

(* Strongest first; neighbours breaks ties by name, collapse_related by    *)
(* key, which starts with the kind.  Neighbours of one weight and name are *)
(* left in the order of their edges, for which the kind stands here.       *)
ByName(r, s) ==
  \/ r.weight > s.weight
  \/ /\ r.weight = s.weight
     /\ \/ r.entity.name < s.entity.name
        \/ /\ r.entity.name = s.entity.name
           /\ KindRank(r.entity.kind) < KindRank(s.entity.kind)
ByKey(r, s) ==
  \/ r.weight > s.weight
  \/ /\ r.weight = s.weight
     /\ \/ KindRank(r.entity.kind) < KindRank(s.entity.kind)
        \/ r.entity.kind = s.entity.kind /\ r.entity.name < s.entity.name

(* sort_by and truncate.  What is related is a set: in which order it is   *)
(* told is of no account.                                                  *)
Foremost(related, order, limit) ==
  {r \in related : Cardinality({s \in related : <<s, r>> \in order}) < limit}
InOrderOf(related, Before(_, _)) == {p \in related \X related : Before(p[1], p[2])}

RelatedTo(g, entity) ==
  {[entity |-> CHOOSE b \in x : b # entity, weight |-> g.weight[x]] :
     x \in {x \in DOMAIN g.weight : entity \in x}}

Neighbours(g, entity, limit) ==
  LET related == RelatedTo(g, entity)
  IN  Foremost(related, InOrderOf(related, ByName), limit)

(* Mutant: the first weight that is met stands, not the strongest.         *)
CollapseWeakest(listed, limit) ==
  LET best == {r \in listed : \A s \in listed : s.entity = r.entity => r.weight <= s.weight}
  IN  Foremost(best, InOrderOf(best, ByKey), limit)

CollapseRelated(listed, limit) ==
  LET best == {r \in listed : \A s \in listed : s.entity = r.entity => s.weight <= r.weight}
  IN  Foremost(best, InOrderOf(best, ByKey), limit)

RelatedToEvent(g, e, limit) ==
  CollapseRelated(UNION {Neighbours(g, a, limit) : a \in ToSet(EntitiesOf(e))}, limit)

-----------------------------------------------------------------------------
(* The daemon.                                                             *)

Init ==
  /\ rows = {} /\ step = [e \in Event |-> "new"]
  /\ working = <<>> /\ graph = NoGraph /\ recent = <<>>
  /\ disk = NoGraph /\ copied = NONE /\ dropping = NONE
  /\ up = TRUE /\ crashes = 0 /\ unreadable = 0
  /\ recorded = <<>> /\ forgotten = {} /\ sighted = <<>>

(* store_ingested in three steps; the main loop takes one event at a time. *)
MainLoopBusy == \E e \in Event \ Observed : step[e] \in {"stored", "recorded"}

Insert(e) ==
  /\ up /\ step[e] = "new"
  /\ e \in Observed \/ ~MainLoopBusy
  /\ rows' = rows \cup {e}
  /\ step' = [step EXCEPT ![e] = "stored"]
  /\ UNCHANGED <<working, graph, recent, disk, copied, dropping, up, crashes,
                 unreadable, recorded, forgotten, sighted>>

RecordEvent(e) ==
  /\ up /\ step[e] = "stored"
  /\ working' = Record(working, e)
  /\ recorded' = Append(recorded, e)
  /\ step' = [step EXCEPT ![e] = "recorded"]
  /\ UNCHANGED <<rows, graph, recent, disk, copied, dropping, up, crashes,
                 unreadable, forgotten, sighted>>

ObserveEvent(e) ==
  /\ up /\ step[e] = "recorded"
  /\ graph' = Observe(graph, recent, e)
  /\ recent' = Remember(recent, e)
  /\ sighted' = sighted \o [i \in DOMAIN EntitiesOf(e) |-> <<EntitiesOf(e)[i], Stamp[e], e>>]
  /\ step' = [step EXCEPT ![e] = "done"]
  /\ UNCHANGED <<rows, working, disk, copied, dropping, up, crashes, unreadable,
                 recorded, forgotten>>

(* The worker has a stored row from the queue, or from the sweeper, which  *)
(* may find it before store_ingested goes on.  The delete may fail.        *)
DropRow(e) ==
  /\ up /\ dropping = NONE
  /\ e \in rows \cap Noise
  /\ rows' \in {rows, rows \ {e}}
  /\ dropping' = e
  /\ UNCHANGED <<step, working, graph, recent, disk, copied, up, crashes,
                 unreadable, recorded, forgotten, sighted>>

ForgetDropped ==
  /\ up /\ dropping # NONE
  /\ working' = Forget(working, dropping)
  /\ forgotten' = forgotten \cup {dropping}
  /\ dropping' = NONE
  /\ UNCHANGED <<rows, step, graph, recent, disk, copied, up, crashes, unreadable,
                 recorded, sighted>>

(* flush copies the graph, lets go of it, and writes the copy later, in a  *)
(* transaction, which may fail.  An empty graph is not written.            *)
CopyGraph ==
  /\ up /\ copied = NONE
  /\ graph.nodes # {}
  /\ copied' = graph
  /\ UNCHANGED <<rows, step, working, graph, recent, disk, dropping, up, crashes,
                 unreadable, recorded, forgotten, sighted>>

SaveGraph ==
  /\ up /\ copied # NONE
  /\ disk' \in {copied, disk}
  /\ copied' = NONE
  /\ UNCHANGED <<rows, step, working, graph, recent, dropping, up, crashes,
                 unreadable, recorded, forgotten, sighted>>

Crash ==
  /\ up /\ crashes < MaxCrashes
  /\ up' = FALSE /\ crashes' = crashes + 1
  /\ working' = <<>> /\ recorded' = <<>> /\ forgotten' = {}
  /\ graph' = NoGraph /\ recent' = <<>> /\ copied' = NONE /\ dropping' = NONE
  /\ step' = [e \in Event |-> IF step[e] = "new" THEN "new" ELSE "done"]
  /\ UNCHANGED <<rows, disk, unreadable, sighted>>

(* Mutant: edges are left behind.                                          *)
LoadNodes(d) == [d EXCEPT !.weight = NoGraph.weight]

(* An edge without its nodes is skipped.                                   *)
Load(d) == [d EXCEPT !.weight = [x \in {y \in DOMAIN @ : y \subseteq d.nodes} |-> @[x]]]

(* SharedGraph::load.  Tables that cannot be read make an empty graph.     *)
Restart ==
  /\ ~up
  /\ up' = TRUE
  /\ \/ graph' = Load(disk) /\ UNCHANGED unreadable
     \/ /\ unreadable < MaxUnreadable
        /\ graph' = NoGraph /\ unreadable' = unreadable + 1
  /\ UNCHANGED <<rows, step, working, recent, disk, copied, dropping, crashes,
                 recorded, forgotten, sighted>>

Next ==
  \/ \E e \in Event : Insert(e) \/ RecordEvent(e) \/ ObserveEvent(e) \/ DropRow(e)
  \/ ForgetDropped \/ CopyGraph \/ SaveGraph \/ Crash \/ Restart

Spec == Init /\ [][Next]_vars

-----------------------------------------------------------------------------
(* Properties.                                                             *)

(* "What am I doing right now" misses nothing: an event recorded in this   *)
(* session, fresh and not taken out as noise is among the most recent ones *)
(* unless CAPACITY events came after it, whatever was forgotten meanwhile. *)
RecentIsComplete ==
  \A k \in DOMAIN recorded, now \in {Stamp[e] : e \in Event} :
    /\ recorded[k] \notin forgotten
    /\ Len(recorded) - k < CAPACITY
    /\ Stamp[recorded[k]] >= now - HORIZON
    => recorded[k] \in ToSet(Recent(working, now, CAPACITY))

(* Weight means that two things keep appearing together: across flushes,   *)
(* crashes and reloads, an edge weighs no more than the number of times    *)
(* its ends were seen within CO_OCCURRENCE_WINDOW of each other, as long   *)
(* as events are observed in the order of their timestamps.                *)
Ordered == \A k \in 1..(Len(sighted) - 1) : sighted[k][2] <= sighted[k + 1][2]
Together(x) ==
  {p \in (DOMAIN sighted) \X (DOMAIN sighted) :
     /\ p[1] < p[2] /\ sighted[p[1]][3] # sighted[p[2]][3]
     /\ {sighted[p[1]][1], sighted[p[2]][1]} = x
     /\ sighted[p[2]][2] - sighted[p[1]][2] <= CO_OCCURRENCE_WINDOW}
WeightIsEarned ==
  Ordered => \A x \in DOMAIN graph.weight : graph.weight[x] <= Cardinality(Together(x))

(* What usually surrounds an event is its strongest relations: cutting     *)
(* each entity's list, merging and cutting again loses no stronger one.    *)
Limits == 1..2
Surrounds(e, entity) ==
  {graph.weight[x] : x \in {x \in DOMAIN graph.weight :
                              \E a \in ToSet(EntitiesOf(e)) : a # entity /\ x = {a, entity}}}
RelatedIsStrongest ==
  \A e \in Event, limit \in Limits :
    LET found == RelatedToEvent(graph, e, limit)
        missed == graph.nodes \ {r.entity : r \in found}
    IN  /\ \A r \in found : \A w \in Surrounds(e, r.entity) : w <= r.weight
        /\ \A entity \in missed : \A w \in Surrounds(e, entity) :
             Cardinality(found) = limit /\ \A r \in found : w <= r.weight

(* A crash costs what was learnt since the last flush, and no more: while  *)
(* the tables can be read at start-up, no flush takes anything off disk.   *)
Below(g, h) == /\ g.nodes \subseteq h.nodes
               /\ \A x \in DOMAIN g.weight : g.weight[x] <= WeightOf(h, x)
DiskGrows == [][unreadable' = 0 => Below(disk, disk')]_vars

=============================================================================
