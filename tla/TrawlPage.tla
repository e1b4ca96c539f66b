----------------------------- MODULE TrawlPage -----------------------------
(***************************************************************************)
(* The script of the live page (ui/templates/view/trawl.html) with the     *)
(* system notifications of ui/static/js/lazycat-notifications.src.js.      *)
(*                                                                         *)
(* JavaScript runs one task at a time, so an event handler is one step, up *)
(* to the first await of the asynchronous function it calls. The code      *)
(* behind an await whose promise is settled runs in the same step; behind  *)
(* one that is not, it is a step of its own, which other events may        *)
(* precede. Calls of notify differ only in how far they are, so they are   *)
(* counted.                                                                *)
(***************************************************************************)
EXTENDS Naturals, Sequences

CONSTANT Limits        \* the options of #max-items

ASSUME PageAssumption == Limits \subseteq Nat \ {0}

VARIABLES
    maxItems,          \* maxItems, kept in localStorage
    enabled,           \* systemNotificationsEnabled, kept in localStorage
    attached,          \* tableBody is the body the document shows
    rows,              \* the torrents in tableBody, first row first
    recent,            \* the last attempt is less than 15 seconds old
    device,            \* the state of currentDevicePromise
    requests,          \* times gateway.currentDevice was read
    waiting,           \* calls of notify that await getCurrentDevice
    notifying          \* calls of notify that await Notify

settings == <<maxItems, enabled>>
tableVars == <<attached, rows>>
noticeVars == <<recent, device, requests, waiting, notifying>>
pageVars == <<settings, tableVars, noticeVars>>

\* none: not asked for; asking: the gateway is at work; hung: it has failed and
\* the promise stays pending; ready: a device with notification.Notify; plain:
\* a device without; unavailable: the promise was rejected and caught.
DeviceStates == {"none", "asking", "hung", "ready", "plain", "unavailable"}

PageInit ==
    /\ maxItems \in Limits
    /\ enabled = TRUE
    /\ attached = TRUE
    /\ rows = <<>>
    /\ recent = FALSE
    /\ device = "none" /\ requests = 0
    /\ waiting = 0 /\ notifying = 0

-----------------------------------------------------------------------------
(***************************************************************************)
(* The table                                                               *)
(***************************************************************************)

\* A bug: the rows are cut off at the wrong end.
TrimmedFront(s, n) ==
    IF Len(s) > n THEN SubSeq(s, Len(s) - n + 1, Len(s)) ELSE s

Trimmed(s, n) == IF Len(s) > n THEN SubSeq(s, 1, n) ELSE s

ChangeMaxItems(n) ==
    /\ maxItems' = n
    /\ rows' = Trimmed(rows, n)
    /\ UNCHANGED <<enabled, attached, noticeVars>>

\* A click on a column head: sortable.min.js moves the rows, in some order, to
\* a clone of the body and puts the clone in the document. The script's
\* tableBody is then an empty body that no one sees.
SortTable ==
    /\ attached' = FALSE
    /\ rows' = IF attached THEN <<>> ELSE rows
    /\ UNCHANGED <<settings, noticeVars>>

-----------------------------------------------------------------------------
(***************************************************************************)
(* System notifications                                                    *)
(***************************************************************************)
ToggleNotifications ==
    /\ enabled' = ~enabled
    /\ UNCHANGED <<maxItems, tableVars, noticeVars>>

\* 15 seconds have passed since the last attempt.
CoolDown ==
    /\ recent
    /\ recent' = FALSE
    /\ UNCHANGED <<settings, tableVars, device, requests, waiting, notifying>>

\* A bug: the promise is kept only once it is settled.
AsksGatewayUnsettled == device \in {"none", "asking"}

\* getCurrentDevice finds no promise to share.
AsksGateway == device = "none"

\* notify, up to its first await that has to wait: for the device, for Notify,
\* or for none, in which case it returns false.
DhtcNotifySystem ==
    /\ requests' = IF AsksGateway THEN requests + 1 ELSE requests
    /\ device' = IF AsksGateway THEN "asking" ELSE device
    /\ waiting' = IF device \in {"none", "asking", "hung"}
                  THEN waiting + 1 ELSE waiting
    /\ notifying' = IF device = "ready" THEN notifying + 1 ELSE notifying

\* The script with dhtcNotifySystem has loaded: a page without it behaves like
\* one with notifications switched off.
MayNotify == enabled /\ ~recent

\* notifyNewTorrent. The time is taken before the outcome is known.
NotifyNewTorrent ==
    IF MayNotify
    THEN recent' = TRUE /\ DhtcNotifySystem
    ELSE UNCHANGED noticeVars

\* The promise is fulfilled with a device that can notify, or one that cannot,
\* and every call that waits for it goes on.
DeviceResolves(kind) ==
    /\ device = "asking"
    /\ kind \in {"ready", "plain"}
    /\ device' = kind
    /\ waiting' = 0
    /\ notifying' = IF kind = "ready" THEN notifying + waiting ELSE notifying
    /\ UNCHANGED <<settings, tableVars, recent, requests>>

\* The promise is rejected, as the handler of getCurrentDevice expects: it is
\* replaced by null, and every call returns false.
DeviceRejects ==
    /\ device = "asking"
    /\ device' = "unavailable"
    /\ waiting' = 0
    /\ UNCHANGED <<settings, tableVars, recent, requests, notifying>>

\* A request of the gateway fails. In the SDK that is bundled, the promise that
\* currentDevice returns is resolved by the last of them and rejected by none.
DeviceHangs ==
    /\ device = "asking"
    /\ device' = "hung"
    /\ UNCHANGED <<settings, tableVars, recent, requests, waiting, notifying>>

\* Notify is answered or fails; notify returns true or false.
NotifyReturns ==
    /\ notifying > 0
    /\ notifying' = notifying - 1
    /\ UNCHANGED <<settings, tableVars, recent, device, requests, waiting>>

-----------------------------------------------------------------------------
\* socket.onmessage: the row goes to the top, a notification may be attempted,
\* and the table is trimmed.
OnMessage(m) ==
    /\ rows' = Trimmed(<<m>> \o rows, maxItems)
    /\ NotifyNewTorrent
    /\ UNCHANGED <<settings, attached>>

\* The document goes away, with all that is not in localStorage.
Unload ==
    /\ attached' = TRUE
    /\ rows' = <<>>
    /\ recent' = FALSE
    /\ device' = "none" /\ requests' = 0
    /\ waiting' = 0 /\ notifying' = 0
    /\ UNCHANGED settings
=============================================================================
