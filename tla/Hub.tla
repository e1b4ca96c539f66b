-------------------------------- MODULE Hub --------------------------------
(***************************************************************************)
(* The server side of the live feed: Hub (ui/hub.go), the goroutine of     *)
(* each connection (HandleWebSocket) and the callers of IngestMetadata     *)
(* (ui/crawler.go).                                                        *)
(*                                                                         *)
(* The three channels of the hub are unbuffered, so a caller stays where   *)
(* it is until Run comes back to its select. Run alone touches the map of  *)
(* clients, so its mutex is never waited for. A broadcast is written to    *)
(* one client after the other, and there is no write deadline: the module  *)
(* that composes Hub with the browser says when a write goes through.      *)
(***************************************************************************)
EXTENDS Naturals, FiniteSets

CONSTANTS
    MaxConns,      \* bound of the model: connections that are made
    Producers,     \* goroutines that ingest: crawl loop, puller, flush handler
    MaxIngested    \* bound of the model: torrents that are new to the database

ASSUME HubAssumption ==
    MaxConns \in Nat /\ Producers \in Nat \ {0} /\ MaxIngested \in Nat

Conns == 1 .. MaxConns

VARIABLES
    clients,       \* h.clients
    closed,        \* connections on which Close was called
    handler,       \* where HandleWebSocket is for each connection
    hub,           \* where Run is: [pc, msg, todo]
    pending,       \* the torrents that producers are about to broadcast
    ingested       \* torrents inserted so far; they are numbered from 1

hubVars == <<clients, closed, handler, hub, pending, ingested>>

Select == [pc |-> "select", msg |-> 0, todo |-> {}]
Writing(m, S) == [pc |-> "writing", msg |-> m, todo |-> S]

HubInit ==
    /\ clients = {} /\ closed = {}
    /\ handler = [c \in Conns |-> "none"]
    /\ hub = Select
    /\ pending = {}
    /\ ingested = 0

At(c, from, to) ==
    /\ handler[c] = from
    /\ handler' = [handler EXCEPT ![c] = to]

-----------------------------------------------------------------------------
(***************************************************************************)
(* HandleWebSocket                                                         *)
(***************************************************************************)

\* The connection, the next one, is upgraded and about to be registered.
Upgrade(c) ==
    /\ \A d \in Conns : handler[d] = "none" <=> d >= c
    /\ At(c, "none", "registering")
    /\ UNCHANGED <<clients, closed, hub, pending, ingested>>

\* A bug: the handler returns without telling the hub.
LeaveSilently(c) == At(c, "reading", "done")

\* ReadMessage fails: the deferred function unregisters the connection.
LeaveLoop(c) == At(c, "reading", "unregistering")

ReadFails(c) ==
    /\ LeaveLoop(c)
    /\ UNCHANGED <<clients, closed, hub, pending, ingested>>

-----------------------------------------------------------------------------
(***************************************************************************)
(* IngestMetadata                                                          *)
(***************************************************************************)

\* The database did not know the torrent; CheckWatches has run and Broadcast
\* waits at `h.broadcast <- data`.
Ingest ==
    /\ Cardinality(pending) < Producers
    /\ ingested < MaxIngested
    /\ ingested' = ingested + 1
    /\ pending' = pending \cup {ingested + 1}
    /\ UNCHANGED <<clients, closed, handler, hub>>

-----------------------------------------------------------------------------
(***************************************************************************)
(* Run                                                                     *)
(***************************************************************************)
Register(c) ==
    /\ hub = Select
    /\ At(c, "registering", "reading")
    /\ clients' = clients \cup {c}
    /\ UNCHANGED <<closed, hub, pending, ingested>>

\* A connection that a failed write has removed already is not closed again.
Unregister(c) ==
    /\ hub = Select
    /\ At(c, "unregistering", "done")
    /\ clients' = clients \ {c}
    /\ closed' = closed \cup ({c} \cap clients)
    /\ UNCHANGED <<hub, pending, ingested>>

\* Where Run goes when the clients of S have still to be written to.
Remaining(m, S) == IF S = {} THEN Select ELSE Writing(m, S)

\* Run receives a torrent, and its producer returns from IngestMetadata.
Receive(m) ==
    /\ hub = Select
    /\ m \in pending
    /\ hub' = Remaining(m, clients)
    /\ pending' = pending \ {m}
    /\ UNCHANGED <<clients, closed, handler, ingested>>

\* WriteMessage returned nil.
Written(c) ==
    /\ c \in hub.todo
    /\ hub' = Remaining(hub.msg, hub.todo \ {c})
    /\ UNCHANGED <<clients, closed, handler, pending, ingested>>

\* A bug: a client whose write failed is tried again.
AfterFailureRetry(c) == hub

AfterFailure(c) == Remaining(hub.msg, hub.todo \ {c})

\* WriteMessage returned an error.
WriteFailed(c) ==
    /\ c \in hub.todo
    /\ hub' = AfterFailure(c)
    /\ clients' = clients \ {c}
    /\ closed' = closed \cup {c}
    /\ UNCHANGED <<handler, pending, ingested>>
=============================================================================
