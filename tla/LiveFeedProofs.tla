--------------------------- MODULE LiveFeedProofs ---------------------------
(***************************************************************************)
(* Proofs about LiveFeed, for every number of connections, producers and   *)
(* torrents, every size of the socket's buffers and every set of limits.   *)
(***************************************************************************)
EXTENDS LiveFeed, TLAPS

-----------------------------------------------------------------------------
(***************************************************************************)
(* One request for the device                                              *)
(***************************************************************************)

\* The promise is shared as soon as the gateway has been asked.
DeviceInv ==
    /\ requests \in {0, 1}
    /\ device = "none" => requests = 0

\* A page asks the gateway for its device at most once, however many torrents
\* arrive before the gateway answers.
THEOREM OneDeviceCorrect == Spec => []OneDeviceRequest
<1>1. Init => DeviceInv
  BY DEF Init, PageInit, DeviceInv
<1>2. ASSUME DeviceInv, [Next]_vars PROVE DeviceInv'
  <2>1. CASE HandleMessage
    BY <1>2, <2>1 DEF HandleMessage, OnMessage, NotifyNewTorrent,
       DhtcNotifySystem, AsksGateway, noticeVars, DeviceInv
  <2>2. CASE GatewayAnswers
    BY <1>2, <2>2 DEF GatewayAnswers, DeviceResolves, DeviceRejects,
       DeviceHangs, DeviceInv
  <2>3. CASE Leave
    BY <1>2, <2>3 DEF Leave, Unload, DeviceInv
  <2>4. CASE UNCHANGED <<device, requests>>
    BY <1>2, <2>4 DEF DeviceInv
  <2>5. ASSUME UserActs \/ NotifyAnswered \/ TimePasses
        PROVE  UNCHANGED <<device, requests>>
    BY <2>5 DEF UserActs, NotifyAnswered, TimePasses, ToggleNotifications,
       SortTable, ChangeMaxItems, NotifyReturns, CoolDown, noticeVars
  <2>6. ASSUME \/ \E c \in Conns : Load(c) \/ HubRegisters(c)
                     \/ HubUnregisters(c) \/ WriteOK(c) \/ WriteError(c)
                     \/ ReadError(c)
               \/ IngestMetadata \/ Sleep \/ WakeUp
               \/ \E m \in pending : HubReceives(m)
               \/ UNCHANGED vars
        PROVE  UNCHANGED <<device, requests>>
    BY <2>6 DEF Load, HubRegisters, HubUnregisters, WriteOK, WriteError,
       ReadError, IngestMetadata, Sleep, WakeUp, HubReceives, pageVars,
       noticeVars, vars
  <2> QED BY <1>2, <2>1, <2>2, <2>3, <2>4, <2>5, <2>6 DEF Next
<1>3. DeviceInv => OneDeviceRequest
  BY DEF DeviceInv, OneDeviceRequest
<1> QED BY <1>1, <1>2, <1>3, PTL DEF Spec

-----------------------------------------------------------------------------
(***************************************************************************)
(* The live view                                                           *)
(***************************************************************************)
FeedTypes ==
    /\ clients \subseteq Conns
    /\ handler \in [Conns -> {"none", "registering", "reading",
                              "unregistering", "done"}]
    /\ browser \in [Conns -> {"none", "awake", "asleep", "left"}]
    /\ inbox \in [Conns -> Seq(Nat)]
    /\ hub.todo \subseteq clients /\ hub.msg \in Nat
    /\ pending \subseteq Nat /\ ingested \in Nat
    /\ rows \in Seq(Nat) /\ feed \in Seq(Nat) /\ got \in Nat
    /\ maxItems \in Limits /\ attached \in BOOLEAN
    /\ page \in Conns \cup {NoConn}

\* A client of the hub is a connection whose handler has registered it, and
\* nothing was written to a connection that does not exist yet.
ConnInv ==
    \A c \in Conns :
        /\ c \in clients => handler[c] \in {"reading", "unregistering"}
        /\ handler[c] = "none" => inbox[c] = <<>>

\* What was broadcast is what the page has handled, then what waits in its
\* socket, then, while the hub knows the page, the message being written.
LinkInv ==
    /\ page = NoConn => feed = <<>> /\ got = 0
    /\ page # NoConn =>
          /\ browser[page] \in {"awake", "asleep"}
          /\ handler[page] # "none"
          /\ handler[page] = "registering" => feed = <<>>
          /\ got + Len(inbox[page]) <= Len(feed)
          /\ \A i \in 1 .. Len(inbox[page]) : inbox[page][i] = feed[got + i]
          /\ page \in clients =>
                Len(feed) = got + Len(inbox[page])
                              + (IF page \in hub.todo THEN 1 ELSE 0)
          /\ page \in hub.todo => hub.msg = feed[Len(feed)]

\* The rows are the messages handled last, the newest first.
TableInv ==
    /\ page = NoConn => rows = <<>> /\ attached
    /\ page # NoConn /\ attached =>
          /\ Len(rows) <= got /\ Len(rows) <= maxItems
          /\ \A i \in 1 .. Len(rows) : rows[i] = feed[got + 1 - i]
          /\ Len(rows) = got \/ \E n \in Limits : Len(rows) >= n

FeedInv == FeedTypes /\ ConnInv /\ LinkInv /\ TableInv

\* No connection is numbered NoConn.
LEMMA ConnsFacts == NoConn \notin Conns
BY HubAssumption DEF Conns, NoConn, HubAssumption

\* trimTable leaves the rows alone or cuts them to the limit.
LEMMA TrimmedFacts ==
    ASSUME NEW s \in Seq(Nat), NEW n \in Limits
    PROVE  /\ Trimmed(s, n) \in Seq(Nat)
           /\ Len(Trimmed(s, n)) = IF Len(s) > n THEN n ELSE Len(s)
           /\ \A i \in 1 .. Len(Trimmed(s, n)) : Trimmed(s, n)[i] = s[i]
<1>1. n \in Nat \ {0}
  BY PageAssumption DEF PageAssumption
<1>2. CASE Len(s) > n
  <2>1. Trimmed(s, n) = SubSeq(s, 1, n)
    BY <1>2 DEF Trimmed
  <2> QED BY <1>1, <1>2, <2>1
<1>3. CASE ~(Len(s) > n)
  BY <1>3 DEF Trimmed
<1> QED BY <1>2, <1>3

\* insertBefore puts a row in front of the others.
LEMMA PrependFacts ==
    ASSUME NEW s \in Seq(Nat), NEW m \in Nat
    PROVE  /\ <<m>> \o s \in Seq(Nat)
           /\ Len(<<m>> \o s) = Len(s) + 1 /\ Len(s) \in Nat
           /\ (<<m>> \o s)[1] = m
           /\ \A i \in 2 .. Len(<<m>> \o s) : (<<m>> \o s)[i] = s[i - 1]
OBVIOUS

\* A step that leaves the feed, the socket and the table alone.
LEMMA SameFeed ==
    ASSUME FeedInv, UNCHANGED <<hubVars, socketVars, maxItems, tableVars>>
    PROVE  FeedInv'
BY DEF FeedInv, FeedTypes, ConnInv, LinkInv, TableInv, hubVars, socketVars,
       tableVars

\* The user lowers or raises the limit, or sorts the table.
LEMMA UserOK ==
    ASSUME FeedInv, UserActs
    PROVE  FeedInv'
<1> USE DEF FeedInv
<1>1. CASE ToggleNotifications
  BY <1>1, SameFeed DEF UserActs, ToggleNotifications
<1>2. UNCHANGED <<hubVars, socketVars>> /\ page # NoConn
  BY DEF UserActs, Awake
<1>3. LinkInv' /\ ConnInv'
  BY <1>2 DEF LinkInv, ConnInv, hubVars, socketVars
<1>4. CASE SortTable
  <2>1. /\ attached' = FALSE /\ rows' \in Seq(Nat) /\ maxItems' = maxItems
        /\ page' # NoConn
    BY <1>2, <1>4 DEF SortTable, settings, FeedTypes, socketVars
  <2>2. FeedTypes'
    BY <1>2, <2>1 DEF FeedTypes, hubVars, socketVars
  <2> QED BY <1>3, <2>1, <2>2 DEF TableInv
<1>5. CASE \E n \in Limits : ChangeMaxItems(n)
  <2>1. PICK n \in Limits : ChangeMaxItems(n)
    BY <1>5
  <2>2. /\ maxItems' = n /\ rows' = Trimmed(rows, n) /\ attached' = attached
        /\ rows \in Seq(Nat) /\ n \in Nat
    BY <2>1, PageAssumption DEF ChangeMaxItems, FeedTypes, PageAssumption
  <2>3. /\ rows' \in Seq(Nat)
        /\ Len(rows') = IF Len(rows) > n THEN n ELSE Len(rows)
        /\ \A i \in 1 .. Len(rows') : rows'[i] = rows[i]
    BY <2>2, TrimmedFacts
  <2>4. FeedTypes'
    BY <1>2, <2>2, <2>3 DEF FeedTypes, hubVars, socketVars
  <2>5. TableInv'
    <3> SUFFICES ASSUME attached
                 PROVE  /\ Len(rows') <= got /\ Len(rows') <= n
                        /\ \A i \in 1 .. Len(rows') : rows'[i] = feed[got + 1 - i]
                        /\ Len(rows') = got \/ \E k \in Limits : Len(rows') >= k
      BY <1>2, <2>2 DEF TableInv, socketVars
    <3>1. /\ Len(rows) <= got
          /\ \A i \in 1 .. Len(rows) : rows[i] = feed[got + 1 - i]
          /\ Len(rows) = got \/ \E k \in Limits : Len(rows) >= k
          /\ got \in Nat /\ Len(rows) \in Nat
      BY <1>2, <2>2 DEF TableInv, FeedTypes
    <3> QED BY <2>2, <2>3, <3>1
  <2> QED BY <1>3, <2>4, <2>5
<1> QED BY <1>1, <1>4, <1>5 DEF UserActs

\* The page is opened on a new connection.
LEMMA LoadOK ==
    ASSUME FeedInv, NEW c \in Conns, Load(c)
    PROVE  FeedInv'
<1> USE DEF FeedInv
<1>1. /\ page = NoConn /\ page' = c /\ c # NoConn /\ handler[c] = "none"
      /\ handler' = [handler EXCEPT ![c] = "registering"]
      /\ browser' = [browser EXCEPT ![c] = "awake"]
      /\ UNCHANGED <<clients, closed, hub, pending, ingested, pageVars, inbox,
                     feed, got>>
  BY ConnsFacts DEF Load, Upgrade, At
<1>2. c \notin clients /\ inbox[c] = <<>>
  BY <1>1 DEF ConnInv
<1>3. FeedTypes' /\ ConnInv'
  BY <1>1, <1>2 DEF FeedTypes, ConnInv, pageVars, settings, tableVars
<1>4. LinkInv'
  BY <1>1, <1>2 DEF FeedTypes, LinkInv
<1>5. TableInv'
  <2>1. /\ rows' = <<>> /\ got' = 0 /\ maxItems' \in Nat /\ page' # NoConn
        /\ Len(<<>>) = 0
    BY <1>1, PageAssumption DEF TableInv, LinkInv, FeedTypes, PageAssumption,
       pageVars, settings, tableVars
  <2> QED BY <2>1 DEF TableInv
<1> QED BY <1>3, <1>4, <1>5

\* The page is left.
LEMMA LeaveOK ==
    ASSUME FeedInv, Leave
    PROVE  FeedInv'
<1> USE DEF FeedInv
<1>1. /\ page # NoConn /\ page' = NoConn /\ feed' = <<>> /\ got' = 0
      /\ rows' = <<>> /\ attached' = TRUE /\ maxItems' = maxItems
      /\ browser' = [browser EXCEPT ![page] = "left"]
      /\ inbox' = [inbox EXCEPT ![page] = <<>>]
      /\ UNCHANGED hubVars
  BY DEF Leave, Unload, settings
<1>2. FeedTypes' /\ ConnInv'
  BY <1>1 DEF FeedTypes, ConnInv, hubVars
<1>3. LinkInv' /\ TableInv'
  BY <1>1 DEF LinkInv, TableInv
<1> QED BY <1>2, <1>3

\* The page falls asleep or wakes up.
LEMMA SleepOK ==
    ASSUME FeedInv, Sleep \/ WakeUp
    PROVE  FeedInv'
<1> USE DEF FeedInv
<1>1. /\ page # NoConn
      /\ \E b \in {"awake", "asleep"} : browser' = [browser EXCEPT ![page] = b]
      /\ UNCHANGED <<hubVars, pageVars, page, inbox, feed, got>>
  BY DEF Sleep, WakeUp, Awake
<1>2. FeedTypes' /\ ConnInv' /\ TableInv'
  BY <1>1 DEF FeedTypes, ConnInv, TableInv, hubVars, pageVars, settings,
     tableVars
<1>3. browser'[page] \in {"awake", "asleep"}
  BY <1>1 DEF FeedTypes
<1>4. LinkInv'
  BY <1>1, <1>3 DEF LinkInv, hubVars
<1> QED BY <1>2, <1>4

\* The page handles the oldest message of its socket.
LEMMA HandleOK ==
    ASSUME FeedInv, HandleMessage
    PROVE  FeedInv'
<1> USE DEF FeedInv
<1>1. /\ page # NoConn /\ page \in Conns /\ inbox[page] # <<>>
      /\ inbox' = [inbox EXCEPT ![page] = Tail(@)]
      /\ got' = got + 1
      /\ UNCHANGED <<hubVars, page, browser, feed, maxItems, attached>>
      /\ rows' = Trimmed(<<Head(inbox[page])>> \o rows, maxItems)
  BY DEF HandleMessage, OnMessage, Awake, settings, FeedTypes
<1>2. PICK s \in Seq(Nat) : s = inbox[page] /\ s # <<>>
  BY <1>1 DEF FeedTypes
<1>3. /\ inbox'[page] = Tail(s) /\ Len(s) \in Nat \ {0}
      /\ Len(Tail(s)) = Len(s) - 1 /\ Tail(s) \in Seq(Nat)
      /\ \A i \in 1 .. Len(Tail(s)) : Tail(s)[i] = s[i + 1]
      /\ Head(s) = s[1] /\ s[1] \in Nat
  BY <1>1, <1>2 DEF FeedTypes
<1>4. rows \in Seq(Nat) /\ maxItems \in Limits /\ maxItems \in Nat \ {0}
  BY PageAssumption DEF FeedTypes, PageAssumption
<1>5. PICK u \in Seq(Nat) :
        /\ u = <<s[1]>> \o rows
        /\ Len(u) = Len(rows) + 1 /\ u[1] = s[1]
        /\ \A i \in 2 .. Len(u) : u[i] = rows[i - 1]
        /\ Len(rows) \in Nat
  BY <1>3, <1>4, PrependFacts
<1>6. /\ rows' \in Seq(Nat)
      /\ Len(rows') = IF Len(u) > maxItems THEN maxItems ELSE Len(u)
      /\ \A i \in 1 .. Len(rows') : rows'[i] = u[i]
  <2>1. rows' = Trimmed(u, maxItems)
    BY <1>1, <1>2, <1>3, <1>5
  <2> QED BY <1>4, <1>5, <2>1, TrimmedFacts
<1>7. FeedTypes'
  BY <1>1, <1>2, <1>3, <1>6 DEF FeedTypes, hubVars
<1>8. ConnInv'
  BY <1>1 DEF ConnInv, LinkInv, FeedTypes, hubVars
<1>9. /\ got + Len(s) <= Len(feed) /\ got \in Nat /\ Len(feed) \in Nat
      /\ \A i \in 1 .. Len(s) : s[i] = feed[got + i]
  BY <1>1, <1>2 DEF LinkInv, FeedTypes
<1>10. LinkInv'
  <2>1. \A i \in 1 .. Len(Tail(s)) : Tail(s)[i] = feed[got + 1 + i]
    BY <1>3, <1>9
  <2>2. handler[page] # "registering"
    BY <1>1, <1>3, <1>9 DEF LinkInv
  <2>3. page \in clients => Len(feed) = got + 1 + Len(Tail(s))
                                + (IF page \in hub.todo THEN 1 ELSE 0)
    <3>1. page \in clients => Len(feed) = got + Len(s)
                                + (IF page \in hub.todo THEN 1 ELSE 0)
      BY <1>1, <1>2 DEF LinkInv
    <3>2. got + Len(s) = got + 1 + Len(Tail(s))
      BY <1>3, <1>9
    <3> QED BY <3>1, <3>2
  <2>4. got + 1 + Len(Tail(s)) <= Len(feed)
    BY <1>3, <1>9
  <2>5. /\ page' = page /\ page # NoConn /\ feed' = feed /\ hub' = hub
        /\ clients' = clients /\ browser' = browser /\ handler' = handler
        /\ got' = got + 1 /\ inbox'[page] = Tail(s)
    BY <1>1, <1>3 DEF hubVars
  <2>6. /\ browser[page] \in {"awake", "asleep"} /\ handler[page] # "none"
        /\ page \in hub.todo => hub.msg = feed[Len(feed)]
    BY <1>1 DEF LinkInv
  <2> QED BY <2>1, <2>2, <2>3, <2>4, <2>5, <2>6 DEF LinkInv
<1>11. TableInv'
  <2> SUFFICES ASSUME attached
               PROVE  /\ Len(rows') <= got + 1 /\ Len(rows') <= maxItems
                      /\ \A i \in 1 .. Len(rows') :
                            rows'[i] = feed[got + 1 + 1 - i]
                      /\ \/ Len(rows') = got + 1
                         \/ \E n \in Limits : Len(rows') >= n
    BY <1>1 DEF TableInv
  <2>1. /\ Len(rows) <= got
        /\ \A i \in 1 .. Len(rows) : rows[i] = feed[got + 1 - i]
        /\ Len(rows) = got \/ \E n \in Limits : Len(rows) >= n
    BY <1>1 DEF TableInv
  <2>2. s[1] = feed[got + 1]
    BY <1>3, <1>9
  <2>3. ASSUME NEW i \in 1 .. Len(rows') PROVE rows'[i] = feed[got + 1 + 1 - i]
    <3>1. CASE i = 1
      BY <1>4, <1>5, <1>6, <1>9, <2>2, <3>1
    <3>2. CASE i # 1
      <4>0. /\ i \in Nat /\ 1 <= i /\ i <= Len(rows') /\ Len(rows') <= Len(u)
            /\ Len(u) = Len(rows) + 1 /\ Len(rows) \in Nat
        BY <1>4, <1>5, <1>6
      <4>1. i \in 2 .. Len(u) /\ i - 1 \in 1 .. Len(rows)
        BY <3>2, <4>0
      <4>2. rows[i - 1] = feed[got + 1 - (i - 1)]
        BY <2>1, <4>1
      <4>3. got + 1 - (i - 1) = got + 1 + 1 - i
        BY <1>9, <4>1
      <4> QED BY <1>5, <1>6, <4>1, <4>2, <4>3
    <3> QED BY <3>1, <3>2
  <2>4. Len(rows') <= got + 1 /\ Len(rows') <= maxItems
    BY <1>4, <1>5, <1>6, <1>9, <2>1
  <2>5. CASE Len(u) > maxItems
    BY <1>4, <1>6, <2>3, <2>4, <2>5
  <2>6. CASE ~(Len(u) > maxItems)
    <3>1. Len(rows') = Len(rows) + 1
      BY <1>5, <1>6, <2>6
    <3>2. CASE Len(rows) = got
      BY <2>3, <2>4, <3>1, <3>2
    <3>3. CASE \E n \in Limits : Len(rows) >= n
      BY <1>5, <2>3, <2>4, <3>1, <3>3, PageAssumption DEF PageAssumption
    <3> QED BY <2>1, <3>2, <3>3
  <2> QED BY <2>5, <2>6
<1> QED BY <1>7, <1>8, <1>10, <1>11

\* What a message at the end of a sequence leaves in place.
LEMMA AppendFacts ==
    ASSUME NEW s \in Seq(Nat), NEW m \in Nat
    PROVE  /\ Append(s, m) \in Seq(Nat)
           /\ Len(Append(s, m)) = Len(s) + 1 /\ Len(s) \in Nat
           /\ \A i \in 1 .. Len(s) : Append(s, m)[i] = s[i]
           /\ Append(s, m)[Len(s) + 1] = m
OBVIOUS

\* A write goes through: the message is in the socket instead of in the hand of
\* Run, which goes on to the other clients.
LEMMA WriteOKOK ==
    ASSUME FeedInv, NEW c \in Conns, WriteOK(c)
    PROVE  FeedInv'
<1> USE DEF FeedInv
<1>1. /\ c \in hub.todo /\ hub' = Remaining(hub.msg, hub.todo \ {c})
      /\ UNCHANGED <<clients, closed, handler, pending, ingested, pageVars,
                     page, browser, feed, got>>
      /\ inbox' = IF browser[c] = "left" THEN inbox
                  ELSE [inbox EXCEPT ![c] = Append(@, hub.msg)]
  BY DEF WriteOK, Written
<1>2. /\ hub'.todo = hub.todo \ {c} /\ hub'.msg \in Nat
      /\ hub'.todo # {} => hub'.msg = hub.msg
  BY <1>1 DEF Remaining, Select, Writing, FeedTypes
<1>3. FeedTypes'
  <2>1. inbox' \in [Conns -> Seq(Nat)]
    <3>1. Append(inbox[c], hub.msg) \in Seq(Nat)
      BY AppendFacts DEF FeedTypes
    <3> QED BY <1>1, <3>1 DEF FeedTypes
  <2> QED BY <1>1, <1>2, <2>1 DEF FeedTypes, pageVars, settings, tableVars
<1>4. ConnInv'
  <2>1. handler[c] # "none"
    BY <1>1 DEF ConnInv, FeedTypes
  <2> QED BY <1>1, <2>1 DEF ConnInv, FeedTypes
<1>5. TableInv'
  BY <1>1 DEF TableInv, pageVars, settings, tableVars
<1>6. CASE page # c
  <2>1. page # NoConn => page \in Conns /\ inbox'[page] = inbox[page]
    BY <1>1, <1>6 DEF FeedTypes
  <2>2. page \in hub'.todo <=> page \in hub.todo
    BY <1>2, <1>6
  <2>3. LinkInv'
    BY <1>1, <1>2, <2>1, <2>2 DEF LinkInv
  <2> QED BY <1>3, <1>4, <1>5, <2>3
<1>7. CASE page = c
  <2>1. /\ page # NoConn /\ browser[page] \in {"awake", "asleep"}
        /\ page \in clients /\ page \in Conns
    BY <1>1, <1>7, ConnsFacts DEF LinkInv, FeedTypes
  <2>2. PICK s \in Seq(Nat) : s = inbox[page]
    BY <2>1 DEF FeedTypes
  <2>3. PICK u \in Seq(Nat) :
          /\ u = inbox'[page] /\ Len(u) = Len(s) + 1 /\ Len(s) \in Nat
          /\ \A i \in 1 .. Len(s) : u[i] = s[i]
          /\ u[Len(s) + 1] = hub.msg
    <3>1. hub.msg \in Nat /\ inbox'[page] = Append(s, hub.msg)
      BY <1>1, <1>7, <2>1, <2>2 DEF FeedTypes
    <3> QED BY <2>2, <3>1, AppendFacts
  <2>4. /\ Len(feed) = got + Len(s) + 1 /\ hub.msg = feed[Len(feed)]
        /\ \A i \in 1 .. Len(s) : s[i] = feed[got + i]
        /\ handler[page] # "none"
        /\ handler[page] = "registering" => feed = <<>>
        /\ got \in Nat /\ Len(feed) \in Nat
    BY <1>1, <1>7, <2>1, <2>2 DEF LinkInv, FeedTypes
  <2>5. ASSUME NEW i \in 1 .. Len(u) PROVE u[i] = feed[got + i]
    <3>1. CASE i = Len(s) + 1
      BY <2>3, <2>4, <3>1
    <3>2. CASE i # Len(s) + 1
      <4>1. i \in 1 .. Len(s)
        BY <2>3, <3>2
      <4> QED BY <2>3, <2>4, <4>1
    <3> QED BY <3>1, <3>2
  <2>6. Len(feed) = got + Len(u) + 0 /\ got + Len(u) <= Len(feed)
    BY <2>3, <2>4
  <2>7. page \notin hub'.todo
    BY <1>2, <1>7
  <2>8. /\ page' = page /\ feed' = feed /\ got' = got /\ inbox'[page] = u
        /\ browser' = browser /\ handler' = handler /\ clients' = clients
    BY <1>1, <2>3
  <2>9. LinkInv'
    BY <2>1, <2>4, <2>5, <2>6, <2>7, <2>8 DEF LinkInv
  <2> QED BY <1>3, <1>4, <1>5, <2>9
<1> QED BY <1>6, <1>7

\* A write that fails: the client is dropped, what the page has stays.
LEMMA WriteErrorOK ==
    ASSUME FeedInv, NEW c \in Conns, WriteError(c)
    PROVE  FeedInv'
<1> USE DEF FeedInv
<1>1. /\ c \in hub.todo /\ hub' = Remaining(hub.msg, hub.todo \ {c})
      /\ clients' = clients \ {c}
      /\ UNCHANGED <<handler, pending, ingested, pageVars, socketVars>>
  BY DEF WriteError, WriteFailed, AfterFailure
<1>2. /\ hub'.todo = hub.todo \ {c} /\ hub'.msg \in Nat
      /\ hub'.todo # {} => hub'.msg = hub.msg
  BY <1>1 DEF Remaining, Select, Writing, FeedTypes
<1>3. FeedTypes' /\ ConnInv' /\ TableInv'
  BY <1>1, <1>2 DEF FeedTypes, ConnInv, TableInv, pageVars, settings,
     tableVars, socketVars
<1>4. /\ page \in clients' => /\ page \in clients
                              /\ page \in hub'.todo <=> page \in hub.todo
      /\ page \in hub'.todo => page \in hub.todo /\ hub'.msg = hub.msg
  BY <1>1, <1>2
<1>5. LinkInv'
  BY <1>1, <1>4 DEF LinkInv, socketVars
<1> QED BY <1>3, <1>5

\* A handler leaves its loop.
LEMMA ReadErrorOK ==
    ASSUME FeedInv, NEW c \in Conns, ReadError(c)
    PROVE  FeedInv'
<1> USE DEF FeedInv
<1>1. /\ handler[c] = "reading"
      /\ handler' = [handler EXCEPT ![c] = "unregistering"]
      /\ UNCHANGED <<clients, hub, pending, ingested, pageVars, socketVars>>
  BY DEF ReadError, ReadFails, LeaveLoop, At
<1>2. FeedTypes' /\ ConnInv' /\ TableInv'
  BY <1>1 DEF FeedTypes, ConnInv, TableInv, pageVars, settings, tableVars,
     socketVars
<1>3. LinkInv'
  BY <1>1 DEF LinkInv, FeedTypes, socketVars
<1> QED BY <1>2, <1>3

\* A connection is registered: nothing was broadcast to it so far.
LEMMA RegisterOK ==
    ASSUME FeedInv, NEW c \in Conns, HubRegisters(c)
    PROVE  FeedInv'
<1> USE DEF FeedInv
<1>1. /\ handler[c] = "registering" /\ hub = Select
      /\ handler' = [handler EXCEPT ![c] = "reading"]
      /\ clients' = clients \cup {c}
      /\ UNCHANGED <<hub, pending, ingested, pageVars, socketVars>>
  BY DEF HubRegisters, Register, At
<1>2. FeedTypes' /\ ConnInv' /\ TableInv'
  BY <1>1 DEF FeedTypes, ConnInv, TableInv, pageVars, settings, tableVars,
     socketVars
<1>3. hub.todo = {} /\ hub' = hub /\ UNCHANGED <<page, browser, inbox, feed, got>>
  BY <1>1 DEF Select, socketVars
<1>4. CASE page # c
  <2>1. LinkInv'
    BY <1>1, <1>3, <1>4 DEF LinkInv, FeedTypes
  <2> QED BY <1>2, <2>1
<1>5. CASE page = c
  <2>1. /\ page # NoConn /\ feed = <<>> /\ inbox[page] \in Seq(Nat)
        /\ got + Len(inbox[page]) <= Len(feed) /\ got \in Nat
        /\ handler'[page] = "reading"
        /\ browser[page] \in {"awake", "asleep"}
    BY <1>1, <1>5, ConnsFacts DEF LinkInv, FeedTypes
  <2>2. Len(feed) = 0 /\ Len(inbox[page]) = 0 /\ got = 0
    BY <2>1
  <2>3. LinkInv'
    BY <1>3, <2>1, <2>2 DEF LinkInv
  <2> QED BY <1>2, <2>3
<1> QED BY <1>4, <1>5

\* A connection is unregistered.
LEMMA UnregisterOK ==
    ASSUME FeedInv, NEW c \in Conns, HubUnregisters(c)
    PROVE  FeedInv'
<1> USE DEF FeedInv
<1>1. /\ handler[c] = "unregistering" /\ hub = Select
      /\ handler' = [handler EXCEPT ![c] = "done"]
      /\ clients' = clients \ {c}
      /\ UNCHANGED <<hub, pending, ingested, pageVars, socketVars>>
  BY DEF HubUnregisters, Unregister, At
<1>2. hub.todo = {}
  BY <1>1 DEF Select
<1>3. FeedTypes' /\ ConnInv' /\ TableInv'
  BY <1>1, <1>2 DEF FeedTypes, ConnInv, TableInv, pageVars, settings, tableVars,
     socketVars
<1>4. LinkInv'
  BY <1>1, <1>2 DEF LinkInv, FeedTypes, socketVars
<1> QED BY <1>3, <1>4

\* Run takes a torrent: it is the last of the feed, and Run has it in hand for
\* every client.
LEMMA ReceiveOK ==
    ASSUME FeedInv, NEW m \in pending, HubReceives(m)
    PROVE  FeedInv'
<1> USE DEF FeedInv
<1>1. /\ hub = Select /\ hub' = Remaining(m, clients)
      /\ pending' = pending \ {m}
      /\ UNCHANGED <<clients, handler, ingested, pageVars, page, browser,
                     inbox, got>>
      /\ feed' = IF page # NoConn /\ handler[page] # "registering"
                 THEN Append(feed, m) ELSE feed
      /\ m \in Nat
  BY DEF HubReceives, Receive, FeedTypes
<1>2. /\ hub.todo = {} /\ hub'.todo = clients /\ hub'.msg \in Nat
      /\ clients # {} => hub'.msg = m
  BY <1>1 DEF Remaining, Select, Writing
<1>3. FeedTypes' /\ ConnInv'
  BY <1>1, <1>2 DEF FeedTypes, ConnInv, pageVars, settings, tableVars
<1>4. CASE page = NoConn \/ handler[page] = "registering"
  <2>1. feed' = feed
    BY <1>1, <1>4
  <2>2. page # NoConn => page \notin clients
    BY <1>4 DEF ConnInv, FeedTypes
  <2>3. LinkInv' /\ TableInv'
    BY <1>1, <1>2, <2>1, <2>2 DEF LinkInv, TableInv, pageVars, settings,
       tableVars
  <2> QED BY <1>3, <2>3
<1>5. CASE page # NoConn /\ handler[page] # "registering"
  <2>1. /\ feed \in Seq(Nat) /\ got \in Nat /\ rows \in Seq(Nat)
        /\ inbox[page] \in Seq(Nat)
    BY <1>5 DEF FeedTypes
  <2>2. PICK f \in Seq(Nat) :
          /\ f = feed' /\ Len(f) = Len(feed) + 1 /\ Len(feed) \in Nat
          /\ \A i \in 1 .. Len(feed) : f[i] = feed[i]
          /\ f[Len(feed) + 1] = m
    <3>1. feed' = Append(feed, m)
      BY <1>1, <1>5
    <3> QED BY <1>1, <2>1, <3>1, AppendFacts
  <2>3. /\ got + Len(inbox[page]) <= Len(feed) /\ Len(inbox[page]) \in Nat
        /\ \A i \in 1 .. Len(inbox[page]) : inbox[page][i] = feed[got + i]
        /\ page \in clients => Len(feed) = got + Len(inbox[page])
        /\ browser[page] \in {"awake", "asleep"} /\ handler[page] # "none"
    <3>1. page \in clients => Len(feed) = got + Len(inbox[page]) + 0
      BY <1>2, <1>5 DEF LinkInv
    <3> QED BY <1>5, <2>1, <3>1 DEF LinkInv
  <2>4. \A i \in 1 .. Len(inbox[page]) : inbox[page][i] = f[got + i]
    <3>0. /\ got + Len(inbox[page]) <= Len(feed) /\ Len(inbox[page]) \in Nat
          /\ got \in Nat /\ Len(feed) \in Nat
      BY <2>1, <2>2, <2>3
    <3>1. \A i \in 1 .. Len(inbox[page]) : got + i \in 1 .. Len(feed)
      BY <3>0
    <3> QED BY <2>2, <2>3, <3>1
  <2>5. /\ got + Len(inbox[page]) <= Len(f)
        /\ page \in clients => Len(f) = got + Len(inbox[page]) + 1
        /\ page \in clients => hub'.msg = f[Len(f)]
    BY <1>2, <2>1, <2>2, <2>3
  <2>6. LinkInv'
    BY <1>1, <1>2, <1>5, <2>2, <2>3, <2>4, <2>5 DEF LinkInv
  <2>7. TableInv'
    <3>1. attached => Len(rows) <= got /\ got <= Len(feed)
      BY <1>5, <2>1, <2>2, <2>3 DEF TableInv
    <3>2. attached => \A i \in 1 .. Len(rows) : got + 1 - i \in 1 .. Len(feed)
      BY <2>1, <2>2, <3>1
    <3>3. attached => \A i \in 1 .. Len(rows) : rows[i] = f[got + 1 - i]
      BY <1>5, <2>2, <3>2 DEF TableInv
    <3> QED BY <1>1, <1>5, <2>2, <3>3 DEF TableInv, pageVars, settings, tableVars
  <2> QED BY <1>3, <2>6, <2>7
<1> QED BY <1>4, <1>5

\* The database takes a torrent.
LEMMA IngestOK ==
    ASSUME FeedInv, IngestMetadata
    PROVE  FeedInv'
BY DEF IngestMetadata, Ingest, FeedInv, FeedTypes, ConnInv, LinkInv, TableInv,
       pageVars, settings, tableVars, socketVars

\* The invariant holds at the start and is preserved by every step.
THEOREM FeedInvHolds == Spec => []FeedInv
<1>1. Init => FeedInv
  <2> SUFFICES ASSUME Init PROVE FeedInv
    OBVIOUS
  <2> USE DEF Init, HubInit, PageInit
  <2>1. FeedTypes
    BY DEF FeedTypes, Select
  <2>2. ConnInv /\ LinkInv /\ TableInv
    BY DEF ConnInv, LinkInv, TableInv
  <2> QED BY <2>1, <2>2 DEF FeedInv
<1>2. ASSUME FeedInv, [Next]_vars PROVE FeedInv'
  <2>1. ASSUME GatewayAnswers \/ NotifyAnswered \/ TimePasses \/ UNCHANGED vars
        PROVE  UNCHANGED <<hubVars, socketVars, maxItems, tableVars>>
    BY <2>1 DEF GatewayAnswers, NotifyAnswered, TimePasses, DeviceResolves,
       DeviceRejects, DeviceHangs, NotifyReturns, CoolDown, settings, pageVars,
       vars
  <2> QED BY <1>2, <2>1, SameFeed, UserOK, LoadOK, LeaveOK, SleepOK, HandleOK,
             WriteOKOK, WriteErrorOK, ReadErrorOK, RegisterOK, UnregisterOK,
             ReceiveOK, IngestOK DEF Next
<1> QED BY <1>1, <1>2, PTL DEF Spec

\* Until the user sorts it, the live view shows the torrents broadcast since the
\* page was registered, newest first, none left out, twice or out of order.
THEOREM LiveViewCorrect == Spec => []LiveViewExact
<1>1. ASSUME FeedInv PROVE LiveViewExact
  <2> SUFFICES ASSUME page # NoConn, attached
               PROVE  /\ got <= Len(feed)
                      /\ IsPrefix(rows, Reverse(SubSeq(feed, 1, got)))
                      /\ Len(rows) <= maxItems
                      /\ \/ Len(rows) = got
                         \/ \E n \in Limits : Len(rows) >= n
    BY DEF LiveViewExact
  <2>1. /\ feed \in Seq(Nat) /\ rows \in Seq(Nat) /\ got \in Nat
        /\ page \in Conns /\ inbox[page] \in Seq(Nat)
    BY <1>1 DEF FeedInv, FeedTypes
  <2>2. /\ Len(rows) <= got /\ Len(rows) <= maxItems
        /\ \A i \in 1 .. Len(rows) : rows[i] = feed[got + 1 - i]
        /\ Len(rows) = got \/ \E n \in Limits : Len(rows) >= n
    BY <1>1 DEF FeedInv, TableInv
  <2>3. got <= Len(feed) /\ Len(feed) \in Nat /\ Len(rows) \in Nat
    BY <1>1, <2>1 DEF FeedInv, LinkInv
  <2> DEFINE s == SubSeq(feed, 1, got)
             r == Reverse(s)
  <2>4. s \in Seq(Nat) /\ Len(s) = got /\ \A i \in 1 .. got : s[i] = feed[i]
    BY <2>1, <2>3
  <2>5. r \in Seq(Nat) /\ Len(r) = got /\ \A i \in 1 .. got : r[i] = s[got - i + 1]
    <3> HIDE DEF s
    <3>1. r = [i \in 1 .. got |-> s[got - i + 1]]
      BY <2>4 DEF Reverse
    <3>2. \A i \in 1 .. got : got - i + 1 \in 1 .. got
      BY <2>1
    <3>3. \A i \in 1 .. got : s[got - i + 1] \in Nat
      BY <2>4, <3>2
    <3> HIDE DEF r
    <3> QED BY <2>1, <3>1, <3>3
  <2> HIDE DEF s, r
  <2>6. ASSUME NEW i \in 1 .. Len(rows) PROVE rows[i] = r[i]
    <3>1. /\ i \in 1 .. got /\ got - i + 1 \in 1 .. got
          /\ got - i + 1 = got + 1 - i
      BY <2>1, <2>2, <2>3
    <3> QED BY <2>2, <2>4, <2>5, <3>1
  <2>7. SubSeq(rows, 1, Len(rows)) = SubSeq(r, 1, Len(rows))
    BY <2>1, <2>2, <2>3, <2>5, <2>6
  <2>8. IsPrefix(rows, r)
    BY <2>2, <2>5, <2>7 DEF IsPrefix
  <2> QED BY <2>2, <2>3, <2>8 DEF s, r
<1> QED BY <1>1, FeedInvHolds, PTL
=============================================================================
