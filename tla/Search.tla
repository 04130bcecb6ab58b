------------------------------- MODULE Search -------------------------------
(***************************************************************************)
(* Looking back (crates/broker/src/search.rs): search_context merges the   *)
(* nearest vectors with the rows that contain the query literally, and     *)
(* recall_similar uses either.  A search reads by several statements, with *)
(* no transaction around them, while the enrichment worker adds vectors    *)
(* and rewrites payloads and the pruner deletes rows and their vectors.    *)
(***************************************************************************)
EXTENDS Naturals, Sequences, FiniteSets, SequencesExt, Sieve

CONSTANTS Event,
          Matching,    \* events whose payload contains the query
          Distance,    \* Event -> distance of its embedding from the query
          Stamp,       \* Event -> timestamp_ms
          Limit,       \* what resolve_limit makes of the limits callers name
          MaxChanges   \* bound on changes to the tables

ASSUME SearchAssumption ==
  /\ IsFiniteSet(Event) /\ Matching \subseteq Event
  /\ Distance \in [Event -> Nat] /\ Stamp \in [Event -> Nat]
  /\ \A e, f \in Event : e # f => Distance[e] # Distance[f] /\ Stamp[e] # Stamp[f]
  /\ Limit \subseteq Nat \ {0} /\ MaxChanges \in Nat

VARIABLES
  stored, literal, \* rows, and those that contain the query as they are now
  vectors,         \* vec_events
  ever,            \* ids given out
  changes,
  asking,          \* "idle", "embed", "near", "fetch", "text", "found"
  mixed, limit,    \* search or recall, and the limit
  semantic,        \* the query was embedded
  near,            \* neighbours to be looked up by id
  hits,            \* the answer: [id, by]
  stable,          \* history: rows that contained the query all along
  complete         \* history: no statement of this search failed

searchVars == <<stored, literal, vectors, ever, changes, asking, mixed, limit,
                semantic, near, hits, stable, complete>>

FirstOf(s, k) == SubSeq(s, 1, IF k < Len(s) THEN k ELSE Len(s))

(* The rows of a table, in every order.                                    *)
Orders(rows) == Bijection(1..Cardinality(rows), rows)

NearestFirst(s) == \A j, k \in DOMAIN s : j < k => Distance[s[j]] < Distance[s[k]]
NewestFirst(s)  == \A j, k \in DOMAIN s : j < k => Stamp[s[j]] > Stamp[s[k]]

-----------------------------------------------------------------------------
(* The tables change.                                                      *)

Change ==
  /\ changes < MaxChanges /\ changes' = changes + 1
  /\ stable' = IF asking \in {"idle", "found"} THEN stable ELSE stable \cap literal'
  /\ UNCHANGED <<asking, mixed, limit, semantic, near, hits, complete>>

InsertRow(e) ==
  /\ e \notin ever /\ ever' = ever \cup {e}
  /\ stored' = stored \cup {e}
  /\ literal' = IF e \in Matching THEN literal \cup {e} ELSE literal
  /\ UNCHANGED vectors
  /\ Change

InsertEmbedding(e) ==
  /\ e \in stored \ vectors
  /\ vectors' = vectors \cup {e} /\ UNCHANGED <<stored, literal, ever>>
  /\ Change

(* The worker compacts a payload: the words are gone.                      *)
RewritePayload(e) ==
  /\ e \in literal
  /\ literal' = literal \ {e} /\ UNCHANGED <<stored, vectors, ever>>
  /\ Change

DeleteEvent(e) ==
  /\ e \in stored
  /\ stored' = stored \ {e} /\ literal' = literal \ {e} /\ UNCHANGED <<vectors, ever>>
  /\ Change

DeleteEmbedding(e) ==
  /\ e \in vectors \ stored
  /\ vectors' = vectors \ {e} /\ UNCHANGED <<stored, literal, ever>>
  /\ Change

-----------------------------------------------------------------------------
(* A search.                                                               *)

Query(isSearch, l) ==
  /\ asking = "idle" /\ asking' = "embed"
  /\ mixed' = isSearch /\ limit' = l /\ stable' = literal /\ complete' = TRUE
  /\ UNCHANGED <<stored, literal, vectors, ever, changes, semantic, near, hits>>

(* embed_query: no model, or one that fails, means no vectors.             *)
EmbedQuery ==
  /\ asking = "embed"
  /\ semantic' \in BOOLEAN
  /\ asking' = IF semantic' THEN "near" ELSE "text"
  /\ UNCHANGED <<stored, literal, vectors, ever, changes, mixed, limit, near, hits, stable, complete>>

(* search_similar_events.  A failure leaves a recall without an answer.    *)
SearchSimilar ==
  /\ asking = "near" /\ asking' = "fetch"
  /\ \/ \E ranked \in Orders(vectors) :
          NearestFirst(ranked) /\ near' = FirstOf(ranked, limit) /\ UNCHANGED complete
     \/ near' = <<>> /\ complete' = FALSE
  /\ UNCHANGED <<stored, literal, vectors, ever, changes, mixed, limit, semantic, hits, stable>>

(* collect_semantic looks its neighbours up one by one; a row that has     *)
(* gone is left out.                                                       *)
GetEventById ==
  /\ asking = "fetch" /\ near # <<>>
  /\ near' = Tail(near)
  /\ hits' = IF Head(near) \in stored THEN Append(hits, [id |-> Head(near), by |-> "semantic"])
                                      ELSE hits
  /\ UNCHANGED <<stored, literal, vectors, ever, changes, asking, mixed, limit, semantic, stable, complete>>

Fetched ==
  /\ asking = "fetch" /\ near = <<>>
  /\ asking' = IF mixed THEN "text" ELSE "found"
  /\ UNCHANGED <<stored, literal, vectors, ever, changes, mixed, limit, semantic, near, hits, stable, complete>>

(* Mutant: what both halves found is listed by both.                       *)
MergeBeside(nearest, textual) ==
  FirstOf(nearest \o [k \in DOMAIN textual |-> [id |-> textual[k], by |-> "text"]], limit)

(* merge: what both halves found stays where it is, and is marked.         *)
Merge(nearest, textual) ==
  LET found == {nearest[k].id : k \in DOMAIN nearest}
      new   == Sifted(textual, Event \ found)
  IN  FirstOf([k \in DOMAIN nearest |->
                 [nearest[k] EXCEPT !.by = IF nearest[k].id \in ToSet(textual)
                                            THEN "both" ELSE @]]
              \o [k \in DOMAIN new |-> [id |-> new[k], by |-> "text"]], limit)

(* search_events_by_text: the newest rows first.                           *)
SearchText ==
  /\ asking = "text" /\ asking' = "found"
  /\ \/ \E newest \in Orders(literal) :
          NewestFirst(newest) /\ hits' = Merge(hits, FirstOf(newest, limit)) /\ UNCHANGED complete
     \/ UNCHANGED hits /\ complete' = FALSE
  /\ UNCHANGED <<stored, literal, vectors, ever, changes, mixed, limit, semantic, near, stable>>

SearchInit ==
  /\ stored \in SUBSET Event
  /\ literal = stored \cap Matching
  /\ vectors \in SUBSET stored
  /\ ever = stored /\ changes = 0 /\ semantic = FALSE /\ asking = "idle" /\ mixed = FALSE /\ limit = 1
  /\ near = <<>> /\ hits = <<>> /\ stable = {} /\ complete = TRUE

SearchNext ==
  \/ \E e \in Event : \/ InsertRow(e) \/ InsertEmbedding(e) \/ RewritePayload(e)
                      \/ DeleteEvent(e) \/ DeleteEmbedding(e)
  \/ \E isSearch \in BOOLEAN, l \in Limit : Query(isSearch, l)
  \/ EmbedQuery \/ SearchSimilar \/ GetEventById \/ Fetched \/ SearchText

SearchSpec == SearchInit /\ [][SearchNext]_searchVars

-----------------------------------------------------------------------------
(* Properties.                                                             *)

(* An answer shorter than its limit has missed nothing: every row that     *)
(* contained the query from beginning to end is in it, whatever was        *)
(* embedded, rewritten or pruned between the statements; and no answer     *)
(* lists an event twice.  Without a model that is all a recall can do; of  *)
(* a recall with one, and when a statement failed, nothing is promised.    *)
SearchIsHonest ==
  asking = "found" =>
    /\ Len(hits) <= limit
    /\ \A j, k \in DOMAIN hits : hits[j].id = hits[k].id => j = k
    /\ Len(hits) < limit /\ complete /\ (mixed \/ ~semantic) =>
         stable \subseteq {hits[k].id : k \in DOMAIN hits}

=============================================================================
