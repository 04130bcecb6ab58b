------------------------------- MODULE Clients -------------------------------
(***************************************************************************)
(* One request, one reply: the commands of bin/contextd/src/cli.rs and the *)
(* tools of the MCP child (crates/mcp) on one side of the socket, the      *)
(* connection handler, the query tasks and the main loop of the daemon on  *)
(* the other.  Either side may die at any step, and what the daemon does   *)
(* for a request goes on when its client has gone.                         *)
(*                                                                         *)
(* What a handler writes is in WorkingState and Handoff; here it is that a *)
(* row was committed.                                                      *)
(***************************************************************************)
EXTENDS Naturals, FiniteSets

CONSTANTS Call,          \* runs of a command, calls of a tool
          ChannelSize,   \* requests a channel holds, 32
          MaxDeaths      \* bound on the times the daemon dies

ASSUME ClientsAssumption == ChannelSize \in Nat \ {0} /\ MaxDeaths \in Nat

(* The commands that write, and those that only ask.                       *)
Writes    == {"intent", "claim", "note", "observe"}
CallKind  == Writes \cup {"status", "handoff", "tool"}
NeedsText == Writes          \* `claim done` apart

VARIABLES
  kind,      \* kind of each call
  client,    \* "idle", "usage", "waiting", "noted", "printed", "failed", "gone"
  wire,      \* its line: "none", "sent", "queued", "taken", "written", "answered", "cut"
  reply,     \* the reply: "none", "ok", "error", or "part" of one
  committed, \* calls whose row is in the log
  serving,   \* the daemon is up
  deaths

callVars == <<kind, client, wire, reply, committed, serving, deaths>>

-----------------------------------------------------------------------------
(* Clients.                                                                *)

(* parse: a command without its text is refused on the spot.               *)
Parses(k, blank) == ~(blank /\ k \in NeedsText)

(* ask and run_note: connect, write a line, close that half.               *)
StartCall(c, k, blank) ==
  /\ client[c] = "idle"
  /\ kind' = [kind EXCEPT ![c] = k]
  /\ IF ~Parses(k, blank)
     THEN client' = [client EXCEPT ![c] = "usage"] /\ UNCHANGED wire
     ELSE IF serving
     THEN client' = [client EXCEPT ![c] = "waiting"] /\ wire' = [wire EXCEPT ![c] = "sent"]
     ELSE client' = [client EXCEPT ![c] = "failed"] /\ UNCHANGED wire
  /\ UNCHANGED <<reply, committed, serving, deaths>>

(* Mutant: any reply to a note is good news.                               *)
SaysUnread(k, r) ==
  CASE k \in {"intent", "note"} -> "noted"
    [] k = "claim" -> IF r = "error" THEN "failed" ELSE "noted"
    [] OTHER -> "printed"

(* What a command makes of a reply: run_claim looks for an error, run_note *)
(* for "stored", run_intent at nothing.  The others print what they got.   *)
Says(k, r) ==
  CASE k = "intent" -> "noted"
    [] k = "claim"  -> IF r = "error" THEN "failed" ELSE "noted"
    [] k = "note"   -> IF r = "ok" THEN "noted" ELSE "failed"
    [] OTHER        -> "printed"

(* An empty reply is an error.                                             *)
ReadReply(c) ==
  /\ client[c] = "waiting" /\ wire[c] \in {"answered", "cut"}
  /\ client' = [client EXCEPT ![c] = IF reply[c] = "none" THEN "failed"
                                     ELSE Says(kind[c], reply[c])]
  /\ UNCHANGED <<kind, wire, reply, committed, serving, deaths>>

(* ^C, or an editor that ends its MCP child.                               *)
Interrupt(c) ==
  /\ client[c] = "waiting"
  /\ client' = [client EXCEPT ![c] = "gone"]
  /\ UNCHANGED <<kind, wire, reply, committed, serving, deaths>>

-----------------------------------------------------------------------------
(* The daemon.                                                             *)

IsNote(c) == kind[c] = "note"
Channel(c) == {d \in Call : wire[d] = "queued" /\ IsNote(d) = IsNote(c)}

(* handle_client waits while the channel is full.                          *)
Dispatch(c) ==
  /\ serving /\ wire[c] = "sent"
  /\ Cardinality(Channel(c)) < ChannelSize
  /\ wire' = [wire EXCEPT ![c] = "queued"]
  /\ UNCHANGED <<kind, client, reply, committed, serving, deaths>>

(* A query is served by a task of its own; notes are stored by the main    *)
(* loop, one at a time.                                                    *)
Take(c) ==
  /\ serving /\ wire[c] = "queued"
  /\ IsNote(c) => ~\E d \in Call : IsNote(d) /\ wire[d] \in {"taken", "stored"}
  /\ wire' = [wire EXCEPT ![c] = "taken"]
  /\ UNCHANGED <<kind, client, reply, committed, serving, deaths>>

Answer(c, r) == wire' = [wire EXCEPT ![c] = "written"] /\ reply' = [reply EXCEPT ![c] = r]

(* The row is committed, or refused by a check or the filter.              *)
WriteRow(c) ==
  /\ serving /\ wire[c] = "taken" /\ kind[c] \in Writes
  /\ \/ /\ committed' = committed \cup {c}
        /\ wire' = [wire EXCEPT ![c] = "stored"] /\ UNCHANGED reply
     \/ Answer(c, "error") /\ UNCHANGED committed
  /\ UNCHANGED <<kind, client, serving, deaths>>

(* What follows the row may fail: append_and_rebuild then answers with an  *)
(* error, and the main loop, after the handoff, does not.                  *)
Serve(c) ==
  /\ serving
  /\ \/ wire[c] = "stored" /\ \E r \in {"ok", "error"} : (IsNote(c) => r = "ok") /\ Answer(c, r)
     \/ wire[c] = "taken" /\ kind[c] \notin Writes /\ \E r \in {"ok", "error"} : Answer(c, r)
  /\ UNCHANGED <<kind, client, committed, serving, deaths>>

(* The handler writes the reply and its newline.                           *)
WriteReply(c) ==
  /\ serving /\ wire[c] = "written"
  /\ wire' = [wire EXCEPT ![c] = "answered"]
  /\ UNCHANGED <<kind, client, reply, committed, serving, deaths>>

(* Mutant: lines that wait in a channel are not cut.                       *)
DieQuietly ==
  /\ serving /\ deaths < MaxDeaths
  /\ serving' = FALSE /\ deaths' = deaths + 1
  /\ wire' = [c \in Call |-> IF wire[c] \in {"none", "answered", "queued"} THEN wire[c] ELSE "cut"]
  /\ reply' = [c \in Call |-> IF wire'[c] = "cut" THEN "none" ELSE reply[c]]
  /\ UNCHANGED <<kind, client, committed>>

(* All connections are cut, and of a long reply, a part may be through.    *)
Die ==
  /\ serving /\ deaths < MaxDeaths
  /\ serving' = FALSE /\ deaths' = deaths + 1
  /\ wire' = [c \in Call |-> IF wire[c] \in {"none", "answered"} THEN wire[c] ELSE "cut"]
  /\ \E through \in SUBSET {c \in Call : wire[c] = "written" /\ kind[c] \notin Writes} :
       reply' = [c \in Call |-> IF c \in through THEN "part"
                                ELSE IF wire'[c] = "cut" THEN "none" ELSE reply[c]]
  /\ UNCHANGED <<kind, client, committed>>

Restarted ==
  /\ ~serving /\ serving' = TRUE
  /\ UNCHANGED <<kind, client, wire, reply, committed, deaths>>

CallInit ==
  /\ kind = [c \in Call |-> "status"] /\ client = [c \in Call |-> "idle"]
  /\ wire = [c \in Call |-> "none"] /\ reply = [c \in Call |-> "none"]
  /\ committed = {} /\ serving = TRUE /\ deaths = 0

DaemonStep(c) == Dispatch(c) \/ Take(c) \/ WriteRow(c) \/ Serve(c) \/ WriteReply(c)

CallNext ==
  \/ \E c \in Call, k \in CallKind, blank \in BOOLEAN : StartCall(c, k, blank)
  \/ \E c \in Call : DaemonStep(c) \/ ReadReply(c) \/ Interrupt(c)
  \/ Die \/ Restarted

(* The daemon goes on while one of its tasks can, and clients read what    *)
(* has arrived.  Nobody has to restart the daemon.                         *)
CallFairness == /\ WF_callVars(\E c \in Call : DaemonStep(c))
                /\ WF_callVars(\E c \in Call : ReadReply(c))

CallSpec == CallInit /\ [][CallNext]_callVars /\ CallFairness

-----------------------------------------------------------------------------
(* Properties.                                                             *)

(* "Noted" is said of a claim or a note only if its row was committed,     *)
(* whenever the daemon or the client died; it stays committed.             *)
NotedMeansStored ==
  \A c \in Call : kind[c] \in {"claim", "note"} /\ client[c] = "noted" => c \in committed

(* Nobody waits for ever: there is no timeout in `ask` or run_note, and    *)
(* none is needed, for a daemon that lives answers and one that dies cuts  *)
(* the wire.                                                               *)
CallsEnd == \A c \in Call : client[c] = "waiting" ~> client[c] # "waiting"

=============================================================================
