------------------------------ MODULE LiveFeed ------------------------------
(***************************************************************************)
(* The live feed from end to end: Hub and one TrawlPage, joined by a       *)
(* WebSocket. The user may close the page and open it again, on a new      *)
(* connection, while the hub still knows the old one; the page may fall    *)
(* asleep, with its machine or its network, and wake up again.             *)
(*                                                                         *)
(* The socket takes SockCap messages that the page has not read, and a     *)
(* write waits for room. A write to a page that has gone may also fail, as *)
(* may one to a page that sleeps: but a client that stays connected and    *)
(* does not read may also hold it for ever, since no deadline is set.      *)
(***************************************************************************)
EXTENDS Hub, TrawlPage, SequencesExt

CONSTANT SockCap       \* messages that fit in the buffers of a connection

ASSUME FeedAssumption == SockCap \in Nat \ {0}

NoConn == 0

VARIABLES
    page,          \* the connection of the open page, NoConn if none is
    browser,       \* for each connection: none, awake, asleep or left
    inbox,         \* messages written to a connection and not yet read
    feed,          \* what was broadcast since the open page was registered
    got            \* messages the open page has handled

socketVars == <<page, browser, inbox, feed, got>>
vars == <<hubVars, pageVars, socketVars>>

Init ==
    /\ HubInit /\ PageInit
    /\ page = NoConn
    /\ browser = [c \in Conns |-> "none"]
    /\ inbox = [c \in Conns |-> <<>>]
    /\ feed = <<>> /\ got = 0

Awake == page # NoConn /\ browser[page] = "awake"

-----------------------------------------------------------------------------
(***************************************************************************)
(* The page                                                                *)
(***************************************************************************)

\* The user opens the page, whose script connects to /ws/trawl.
Load(c) ==
    /\ page = NoConn
    /\ Upgrade(c)
    /\ page' = c
    /\ browser' = [browser EXCEPT ![c] = "awake"]
    /\ UNCHANGED <<pageVars, inbox, feed, got>>

\* The user leaves it.
Leave ==
    /\ page # NoConn
    /\ Unload
    /\ page' = NoConn
    /\ browser' = [browser EXCEPT ![page] = "left"]
    /\ inbox' = [inbox EXCEPT ![page] = <<>>]
    /\ feed' = <<>> /\ got' = 0
    /\ UNCHANGED hubVars

Sleep ==
    /\ Awake
    /\ browser' = [browser EXCEPT ![page] = "asleep"]
    /\ UNCHANGED <<hubVars, pageVars, page, inbox, feed, got>>

WakeUp ==
    /\ page # NoConn /\ browser[page] = "asleep"
    /\ browser' = [browser EXCEPT ![page] = "awake"]
    /\ UNCHANGED <<hubVars, pageVars, page, inbox, feed, got>>

HandleMessage ==
    /\ Awake
    /\ inbox[page] # <<>>
    /\ OnMessage(Head(inbox[page]))
    /\ inbox' = [inbox EXCEPT ![page] = Tail(@)]
    /\ got' = got + 1
    /\ UNCHANGED <<hubVars, page, browser, feed>>

UserActs ==
    /\ Awake
    /\ \/ ToggleNotifications
       \/ SortTable
       \/ \E n \in Limits : ChangeMaxItems(n)
    /\ UNCHANGED <<hubVars, socketVars>>

\* The request for the device is answered, one way or another.
GatewayAnswers ==
    /\ Awake
    /\ \/ \E kind \in {"ready", "plain"} : DeviceResolves(kind)
       \/ DeviceRejects
       \/ DeviceHangs
    /\ UNCHANGED <<hubVars, socketVars>>

NotifyAnswered ==
    /\ Awake
    /\ NotifyReturns
    /\ UNCHANGED <<hubVars, socketVars>>

TimePasses ==
    /\ Awake
    /\ CoolDown
    /\ UNCHANGED <<hubVars, socketVars>>

-----------------------------------------------------------------------------
(***************************************************************************)
(* The server                                                              *)
(***************************************************************************)

\* A write to an open connection goes through; what is written to a page that
\* has left is lost.
WriteOK(c) ==
    /\ c \notin closed
    /\ Written(c)
    /\ IF browser[c] = "left" THEN UNCHANGED inbox
       ELSE /\ Len(inbox[c]) < SockCap
            /\ inbox' = [inbox EXCEPT ![c] = Append(@, hub.msg)]
    /\ UNCHANGED <<pageVars, page, browser, feed, got>>

\* The network gives the connection up, or Close was called on it.
WriteError(c) ==
    /\ browser[c] \in {"left", "asleep"} \/ c \in closed
    /\ WriteFailed(c)
    /\ UNCHANGED <<pageVars, socketVars>>

\* The reader of a connection notices that the page has left or that the hub
\* has closed it.
ReadError(c) ==
    /\ browser[c] = "left" \/ c \in closed
    /\ ReadFails(c)
    /\ UNCHANGED <<pageVars, socketVars>>

HubRegisters(c) == Register(c) /\ UNCHANGED <<pageVars, socketVars>>
HubUnregisters(c) == Unregister(c) /\ UNCHANGED <<pageVars, socketVars>>

HubReceives(m) ==
    /\ Receive(m)
    /\ feed' = IF page # NoConn /\ handler[page] # "registering"
               THEN Append(feed, m) ELSE feed
    /\ UNCHANGED <<pageVars, page, browser, inbox, got>>

IngestMetadata == Ingest /\ UNCHANGED <<pageVars, socketVars>>

Next ==
    \/ \E c \in Conns :
          \/ Load(c)
          \/ HubRegisters(c)
          \/ HubUnregisters(c)
          \/ WriteOK(c)
          \/ WriteError(c)
          \/ ReadError(c)
    \/ IngestMetadata
    \/ \E m \in pending : HubReceives(m)
    \/ Leave
    \/ Sleep
    \/ WakeUp
    \/ HandleMessage
    \/ UserActs
    \/ GatewayAnswers
    \/ NotifyAnswered
    \/ TimePasses

Spec == Init /\ [][Next]_vars

\* The client of c stays connected, does not read, and its buffers are full.
Stalled(c) == browser[c] = "asleep" /\ Len(inbox[c]) = SockCap

\* Run goes on when a case of its select is ready, and a handler when its read
\* has failed. A page that is awake handles its messages. A write ends, one way
\* or the other, if there is room for it or the page has left; nothing is
\* assumed of a write to a client that is stalled.
Selects ==
    \/ \E c \in Conns : HubRegisters(c) \/ HubUnregisters(c)
    \/ \E m \in pending : HubReceives(m)

WriteEnds == \E c \in Conns : ~Stalled(c) /\ (WriteOK(c) \/ WriteError(c))

Fairness ==
    /\ WF_vars(Selects)
    /\ WF_vars(HandleMessage)
    /\ WF_vars(WriteEnds)
    /\ WF_vars(\E c \in Conns : ReadError(c))

FairSpec == Spec /\ Fairness

-----------------------------------------------------------------------------
(***************************************************************************)
(* Properties                                                              *)
(***************************************************************************)

\* The live view is a true picture of the feed until the user sorts it: its
\* rows are the torrents broadcast since the page was registered, the newest
\* first, none left out, twice or out of order, whatever the old connection
\* and the other producer do; they are as many as the limit allows, and at
\* least as many as its smallest value asks for.
LiveViewExact ==
    page # NoConn /\ attached =>
        /\ got <= Len(feed)
        /\ IsPrefix(rows, Reverse(SubSeq(feed, 1, got)))
        /\ Len(rows) <= maxItems
        /\ \/ Len(rows) = got
           \/ \E n \in Limits : Len(rows) >= n

\* However many notifications are attempted while the gateway is slow, a page
\* asks it for the device once: getCurrentDevice shares the promise from the
\* moment it has it, not from the moment it is settled.
OneDeviceRequest == requests <= 1

\* Run has still to write to a stalled client.
Blocked == \E c \in hub.todo : Stalled(c)

\* Run comes back to its select again and again, and with it IngestMetadata, the
\* crawl loop, the puller and the flush handler go on, unless a client that
\* stays connected does not read: no page that is slow, sleeps with room in its
\* buffers, wakes up, or has gone in the middle of a broadcast can hold it. A
\* stalled client can, for as long as it likes: WriteMessage has no deadline.
RunReturns == []<>(hub = Select) \/ []<>Blocked

\* The connection of a page that was left is closed, forgotten by the hub, and
\* its handler returns, also when a failed write has closed it before, unless a
\* stalled client holds Run.
ConnReleased ==
    \A c \in Conns :
        \/ browser[c] = "left"
               ~> c \in closed /\ c \notin clients /\ handler[c] = "done"
        \/ []<>Blocked
=============================================================================
