# A TLA+ development of lazy-dhtc

lazy-dhtc crawls the BitTorrent DHT, downloads the metadata of the infohashes it
hears of, and keeps them in a database behind a web interface, whose live page shows
them as they come. It runs as one
process (master) or as a master with worker nodes that only crawl. This directory
holds TLA+ models of its concurrent core, the TLC runs that check them on small
instances, and TLAPS proofs of their safety properties for every instance.

Paths below are relative to the repository. "Run" means an entry of
`PROJECT.json`; `tlc -config X.cfg M` runs it, `tlapm M.tla` checks a proof module.

## 1. Inventory

### Parts, their state and their operations

| Part | Source | State | Operations |
|---|---|---|---|
| Pending get_peers table | `dhtc-client/indexingService.go` | requests by transaction ID, count per infohash, next expiry, ID counter | `requestPeers`, `onGetPeersResponse`, expiry by three goroutines |
| Indexing service | same file | routing table, probe cache, routing cache file | bootstrap, find neighbours, answer queries, save and load the table |
| Routing table | `dhtc-client/routing_table.go` | 160 buckets of 8, total size | `Add`, `Prune`, `Closest`, `Snapshot` |
| Transport and protocol | `dhtc-client/transport.go`, `protocol.go`, `codec.go`, `types.go` | three send queues, limiters, socket; token secrets | `WriteMessages`, `sendLoop`, `readMessages`, `onMessage`, token rotation |
| DHT manager | `dhtc-client/managers.go` | output channel, dropped counter | fan-in of the services, `Terminate` |
| Metadata client | `dhtc-client/client.go` | one TCP connection, pieces received | `Do` |
| Sink | `dhtc-client/sink.go` | peers left per infohash, download tokens, drain channel and its mutex | `Sink`, `AddPeers`, `download`, `onPeers`, `onLeechError`, `flush`, `Terminate` |
| Infohash cache | `cache/cache.go` | process-wide set with expiry times | `InfoHashCacheAdd`, `Remove`, `ExpireAfter` |
| Crawler manager | `ui/crawler.go`, `ui/settings.go` | running, stop channel, auto-stop time, manual override, active DHT manager, counters | `Start`, `Stop`, `ReconcileSchedule`, `stopAfter`, `crawl`, `SettingsPost` |
| Worker queue | `cluster/transport.go` | records, next ID, counters, dirty flag, cache file | `Enqueue`, `Batch`, `Ack`, `saveToCache`, `loadFromCache` |
| Push transport | same file, `cmd/dhtc/main.go` | flush goroutine, requests under way | `StartFlushLoop`, `drainFlush`, `Flush`, `NewMasterFlushHandler` |
| Pull transport | same file | list of workers and their status | `Handler`, `MasterPuller.Run`, `pullAll`, `pullBatch`, `Configure`, `Status` |
| Repositories | `db/gorm.go`, `db/clover.go` | torrent table, watches, blacklists | `InsertMetadata`, pruning, queries |
| Categories, filters, watches, notifiers | `db/*.go`, `notifier/` | rules | matching of texts, messages to other services |
| WebSocket hub | `ui/hub.go`, `ui/crawler.go` | map of connections, three unbuffered channels | `Run`, `HandleWebSocket`, `Broadcast` by each caller of `IngestMetadata` |
| Live page and notifications | `ui/templates/view/trawl.html`, `ui/static/js/lazycat-notifications.src.js` | rows, limit and switch in `localStorage`, time of the last attempt, shared promise of the device | `onmessage`, change of the limit, toggle, `notify`, `getCurrentDevice` |
| Screenshot script | `scripts/screenshot.js` | retries, one browser tab, pictures | wait for `/health`, capture of seven pages |
| Pages, API, MCP, downloaders, configuration | `ui/`, `downloader/`, `config/` | settings | request handlers |

### How they interact

The transport's reader goroutine calls the handlers of the indexing service, which
send queries through bounded queues and report infohashes to the DHT manager. The
crawl loop of `CrawlerManager` reads the manager's output, asks the infohash cache
whether the infohash is new, and gives it to the sink. Each peer that is tried has
a goroutine; the one that succeeds sends the metadata through the drain channel
back to the loop, which inserts it (`IngestMetadata`) or, in a worker, enqueues it.
A push worker posts batches to the master and waits for the answer; a pull worker
is asked by the master, which acknowledges what it ingested. Acknowledged records
start the expiry of their infohash in the worker's cache. What the master's database
did not know goes through the hub, one connection after the other, to the pages that
are open; the page puts it at the top of its table and may ask the device that shows
the page for a system notification. The screenshot script is a client of the pages.

### What is hard

* One table, three goroutines, a clock read before the lock and a send after it
  (`requestPeers`); transaction IDs that wrap around; replies that are late,
  duplicated or missing.
* Channels and mutexes that wait for each other: `flush` sends with `drainMx` held,
  and `Terminate` takes `drainMx` on the goroutine that would empty the channel.
* Runs of the crawler that overlap: `Stop` only closes a channel, `Start` may begin
  the next run at once, and the timers of past runs are still there.
* Delivery over HTTP with crashes: requests and answers lost or late, a worker that
  starts again from an older snapshot or with an empty queue, a master that dies
  inside a batch.
* The hub writes to its clients one after the other, without a deadline, while every
  producer waits: a client that sleeps, leaves or reads slowly is everybody's matter.
* A page whose script waits for a gateway while torrents, clicks and the user's
  departure come in any order.
* Time: windows across midnight, an override that ends with the window, a timer
  that has fired but does not yet hold the lock.

The list in `PROJECT.json` ("hazards") has them with their lines, and the properties
that would fail if one went wrong.

## 2. The modules and the code

| Module | Models | Extended or used by |
|---|---|---|
| `PendingRequests` | the table of outstanding get_peers queries | `MCPendingRequests`, `PendingRequestsProofs` |
| `ClusterRecords` | the records a worker and a master exchange | `WorkerQueue`, `MasterIngest` |
| `WorkerQueue` | the queue by itself, with any client | `Cluster`, `WorkerQueueProofs` |
| `MasterIngest` | the calls of ingest on the master | `Cluster` |
| `Delivery` | abstract: what worker and master promise together | refinement target of the two clusters |
| `Cluster` | what the two modes share: worker, master, and their promise | `PushCluster`, `PullCluster` |
| `PushCluster` | a push worker, its process, and the master's flush handler | `MCPushCluster`, `ClusterProofs` |
| `PullCluster` | a pull worker and the master's puller | `MCPullCluster`, `ClusterProofs` |
| `Sink` | one crawl run: loop, sink, download goroutines, cache | `MCSink`, `SinkProofs` |
| `Schedule` | `scheduleState` as operators over <<day, minute>> | `CrawlerManager` |
| `Overlay` | one DHT network: routing table, its maintenance and cache file, candidates from the other network | `MCOverlay`, `MCOverlaySpoke`, `OverlayProofs` |
| `CrawlerManager` | manual commands, schedule, timers, overlapping runs | `MCCrawlerManager`, `ManagerProofs` |
| `Hub` | `Run`, the handlers of the connections, the producers | `LiveFeed` |
| `TrawlPage` | the script of the live page and the notification script | `LiveFeed` |
| `LiveFeed` | hub and page composed, joined by a WebSocket | `LiveFeedProofs` |
| `Screenshots` | the screenshot script | `ScreenshotsProofs` |

Conventions. An action is the code between two points where another goroutine can
step in: a critical section is one step, and code that leaves the lock and takes it
again is several. A Go map is a function whose domain is its keys. Payloads are
model values; only infohashes, IDs and times are told apart. Operators whose comment
begins with "A bug:" are plausible mistakes used as mutants, each shown to violate
the property it is paired with; no specification refers to them. `MC` modules hold
the definitions that only TLC needs, `Proofs` modules the inductive invariants and the
theorems. Properties that count (`SemExact`, `NoDoubleCount`, `SizeExact`) are stated
as the cardinality of a set of places rather than as a sum, so that TLC and TLAPS work
on the same definition.

**PendingRequests.** `getPeersRequests`, `pendingInfoHashes`, `nextRequestExpiry`
and `counter` are the fields of the same names. `requestPeers` is `RequestPeers`
(stop check and clock), then one of `RequestDeduped`, `RequestRejected`,
`RequestInserted` (the critical section), then `SendAccepted` or `SendRefused`.
`Expire` is the sweep that runs at the beginning of every critical section.
Queries go through `sendChan` to `wire`, from which a reply comes in time, late,
twice or never. `late` is a history variable: a reply has come after the timeout or
for the second time. From then on a reply may meet an ID that has changed hands,
which the protocol cannot tell.

**WorkerQueue.** `items` is a set: IDs increase, so their order is the slice's
order. `Ack` takes the records out under the lock; that they are counted as flushed
and given to `onAck` is a step of its own, `CountFlushed`, since the code has left the
lock by then: `counting` holds the Acks in between. `Conservation` counts them, so it
says of the queue and its counters what is true; `Stats` reads `flushed` first and the
length later, and what it reports at one moment need not add up. `saveToCache` is `SaveSwap` (compare-and-swap of the dirty flag), `SaveCopy`
(under the lock) and `SaveRename` or `SaveFail`. `Load` and `LoadFail` are
`NewWorkerQueue` after a crash at any point. A file that is JSON of another type may
leave some records in the queue with `nextID` 0; saves write whole files through a
rename, so no crash leaves such a file, and `LoadFail` starts empty.

**Cluster, PushCluster, PullCluster.** Each mode puts the queue to use. In push mode the flush
goroutine is `flusher`; `wire` holds requests that the master may still handle after
the worker gave up. In pull mode `puller` is the goroutine of `MasterPuller` for one
worker and `acks` the acknowledgements under way. `accepted` is a history variable
for the refinement of `Delivery`. In both, the crawl loop is reduced to `Discover`,
guarded by the infohash cache `seen`.

**MasterIngest.** `InsertMetadata` may refuse any record (filters, errors of the
database); both callers acknowledge it all the same, so `ingested` counts the call.
The rows of the torrent table are left out.

**Sink.** Goroutines are counted per infohash and phase, peers are counted. The
phases are the points between which another goroutine can act. `Client.Do` is one
step with two outcomes and any number of peer exchange messages before. Peers may be
named again and again, as in the code; the only bound, `MaxWaiting`, is on how many may
be waiting when more are named.

**Schedule, CrawlerManager.** An instant is a day and a minute. A run is a number;
`open` holds the runs whose stop channel is not closed, `stop` is the one that
`m.stop` refers to, `timer` the goroutine of `stopAfter`, `phase` the crawl
goroutine. `intent` and `autoStopped` are history variables that remember what the
operator asked for. The first configuration comes from flags and YAML, which nobody
validates; `SaveSettings` accepts a schedule only with a valid window, as the code does.

**Overlay.** `buckets` and `size` are the fields of `RoutingTable`, an entry's `age`
stands for `LastSeen`, and `layout` for the XOR metric: the bucket of each ID under
the own ID that this start has drawn. `Refreshed` is the `copy` that moves a node to
the front; `Pruned` says which place of the old bucket each place of the new one comes
from, by counting the nodes kept so far, which is where `append` puts it. A reply that lists nodes is handled node by
node (`OnNodes`, then `Discovered`); one that lists none is handled only if it brings
samples, and `Answers`, the reply to a find_node query, lists at least one; `runMaintenance` is `Maintain`, `Ask`, `Prune`
and `SaveRoutingTable`, since the reader may step in between. `Offer` and `Probe` are
the two calls that the reader of the IPv4 service makes on the IPv6 service.
`asked` holds the addresses that may still answer a query, `vouched` is a history
variable: the addresses heard of on this network itself, as a sender or in a list.
`age` falls to zero whenever a node is mentioned, also by another node. `Restart` draws a new ID and
`Load` adds the file entry by entry, in its order.

**Hub, TrawlPage, LiveFeed.** `clients` is the map of the hub, `hub` the place of
`Run` with the clients that it has still to write to, `handler` the goroutine of each
connection, `pending` the producers that wait at `broadcast`; the mutex is held by
`Run` alone and is left out. On the page an event handler is one step up to the first
`await` that has to wait; `waiting` and `notifying` count the calls of `notify` at
each of the two. `device` is the state of `currentDevicePromise`, with the case
"hung" for a promise that is never settled. `LiveFeed` adds the socket: a write fits
as long as there is room, to a sleeping page it then waits or fails, to a page that
left it is lost or fails. "Asleep" stands for every client that stays connected and does
not read. `feed` and `got` are history variables: what was broadcast since
the open page was registered, and how much of it the page has handled. One page is
open at a time, and the connections of former ones are still being taken down.

**Screenshots.** `pc` is the `await` that the script is at. `tab` is the page which
the only tab shows; after a failed navigation it may be the old one, an error or the
new one. `files` is what each picture shows.

## 3. Runs

| Run | Configuration | What it shows |
|---|---|---|
| `pending` | replies late, lost, duplicated and out of order | `TypeOK`, `AccountingExact`, `TableBounded`, `ExpiryCovers`, `LiveNeverOverwritten`, `RepliesMatchQueries`, `RefusalJustified` |
| `push` | persistent queue, one restart, fairness | implements `Delivery` (`AtLeastOnce`), `QueueOrdered`, `SnapshotCoherent`, `QueuedReachesMaster` |
| `pull` | queue in memory, one restart of the worker, restarts of the master, fairness | `OneLifeDelivery`, `Conservation`, `QueuedIsReleased` |
| `sink` | worker mode, one token, a drain of one place, a stop at any point, fairness | `OneDownloadPerHash`, `NoSendOnClosed`, `CacheTracksWork`, `SemExact`, `DownloadResolved` |
| `manager` | four configurations, one with an enabled schedule and no valid window, two runs, two days | `NoOrphanRun`, `ManualPrecedence`, `ChangesSound`, `NoDoubleCount`, `AutoStopOnTime`, `AutoStopSticks` |
| `overlay` | two nodes, one also with an address of the other network, one address a candidate; one restart, fairness | `SizeExact`, `NodesPlaced`, `NoInjection`, `StaleLeaves`, `TableFills` |
| `live_feed` | two connections, two producers, a page left, reopened, put to sleep and woken, a gateway that is slow, fails or hangs, fairness | `LiveViewExact`, `OneDeviceRequest`, `RunReturns`, `ConnReleased` |
| `screenshots` | the seven pages and 30 retries of the code, fairness | `PicturesMatch`, `ScriptEnds` |
| `push_stop` | violation | `StopKeepsQueue` |
| `pull_restart` | violation | `AtLeastOnce` |
| `sink_stop` | violation | `StopCompletes` |
| `overlay_spoke` | violation | `OnlyResponders` |

### Bounds and why they are enough

* `pending`: two infohashes, three transaction IDs and a table of two make both
  limits, the wrap-around and reuse of an ID happen; with a timeout of three ticks and
  a clock of five, entries expire before, between and after the steps of
  `requestPeers`, and four calls use an ID again. The send queue of one place is
  refused as soon as it is in use.
* `push`, `pull`: a limit of two is reached with two or three torrents, IDs are used
  up and, after a restart, used again; `push` has batches of the whole queue and of
  part of it, `pull` batches of one, so that a round takes several. One restart is
  enough for everything that a restart changes: what is loaded, messages of the
  life before, lost cache entries.
* `sink`: two infohashes and three results compete for one token and one place of the
  drain; two peers at once, and up to two waiting when more are named, give hand-over
  to a next peer, discard, and a download that is kept alive by ever new names. One expiring entry fills the expiry list. The refusal at a full map
  (`maxNLeeches`) does not happen with two infohashes and two places; `SinkProofs`
  covers it for every number of both.
* `manager`: two runs overlap, a day of four minutes has a window with and one
  without midnight, and an auto-stop may fall on either side of both or on the next
  day.
* `overlay`: buckets of one in a table of one let two nodes refresh, replace each other
  (one bucket) and be refused (two buckets), and the third layout gives one of them the
  service's own ID. `MinNodes` is two, so that the service always looks for more. A prune
  age of one step is enough, as nothing compares ages above it; the probe age is two
  steps, so that an offer can fall between a probe and the end of its ten minutes. Replies
  list up to one node. The instance is small because `TableFills` needs strong fairness
  over the whole graph; the theorems of `OverlayProofs` hold for every size, and order
  within a bucket (`FreshestFirst`), which needs buckets of two, is proved only.
* `live_feed`: two connections, so that an old one is taken down while the new one is
  fed; two producers, so that broadcasts overtake each other; three torrents and limits
  of one and two, so that the table is cut by a torrent and by a change; a socket of
  one message, so that a write has to wait. `LiveFeedProofs` lifts all of these bounds
  for the two invariants.
* `screenshots`: the constants of the code.

### Fairness and why the code justifies it

* `PushCluster`: the flush ticker keeps firing and Go's `select` picks at random
  among ready cases, hence strong fairness of `FlushSend`; an answer comes in the
  end to a worker that keeps asking (strong fairness of `MasterAnswers`); a broken
  request ends in an error. The last leans on TCP: `Flush` uses
  `http.DefaultClient`, which has no timeout of its own.
* `PullCluster`: the master asks every five seconds; its client has a timeout, so
  `AckFail` needs no assumption about the network; what is tried again and again
  gets through in the end.
* `Sink`: a goroutine that can go on does; `Client.Do` has a deadline; Go's channels
  serve waiters in turn and its mutex does so once a waiter has starved.
* `Overlay`: the goroutines go on and time passes; the IPv4 network names a live IPv6
  address again and again; a node that is asked again and again answers in the end, and
  its answer lists some node.
  A message that waits in the socket while the reader is busy is not lost, so `Lose`
  needs an idle reader.

* `LiveFeed`: `Run` goes on when a case of its `select` is ready, and the handler of a
  connection when its read fails; a page that is awake handles its messages; a write
  ends, one way or the other, if there is room for it or the page has left. Nothing is
  assumed of a write to a client that is connected and does not read, since the code sets
  no deadline, nor of the user, of sleeping pages, of the gateway or of producers.
  `RunReturns` and `ConnReleased` name the client that does not read (`Blocked`) as the
  exception, as `DownloadResolved` names the peers that never cease to be named.
* `Screenshots`: every `await` ends; playwright gives a navigation 30 seconds.

`CHECK_DEADLOCK FALSE` is set where the system may stop (a worker that exited) and
where a bound ends the behaviour (results of the DHT, the last day, refused records,
connections), and for the script, which ends.

### Where code and documentation disagree

* **push_stop.** README.md:259 says that push mode persists the records that are not
  acknowledged. On SIGTERM the flush goroutine saves once and ends while the crawl
  goroutine, which nobody waits for, may still enqueue: that record is lost.
* **pull_restart.** README.md:259 says that the worker deletes a record only after the
  master's confirmation. IDs of a pull worker start at 1 in each life; a late
  acknowledgement of the life before deletes a record that the master never saw.
* **sink_stop.** README.md:30 promises a safe stop. If the drain is full when the
  loop sees the stop, a `flush` that waits to send holds `drainMx`, `Terminate` waits
  for `drainMx`, and nobody empties the drain: the crawl goroutine never ends and the
  DHT manager is never terminated.

* **overlay_spoke.** README.md:177 says that only nodes which responded through the IPv6
  socket enter the IPv6 table. Nodes that a reply lists do too, unasked
  (`dhtc-client/indexingService.go`:419), as do senders of queries (:152). `NoInjection`
  states the weaker fact that holds: no address enters that only the other network named.

Further observations, visible in the models but without a run of their own:

* README.md:23 and :162 describe the auto-stop without exception. Inside the schedule's
  window the next reconciliation starts the crawler again (`ui/crawler.go`:201), hence
  the condition in `AutoStopSticks`.
* A load adds the nodes in the order of the file, each in front of the others: after a
  restart the freshest node of a bucket is the first to be replaced
  (`dhtc-client/indexingService.go`:283), hence the condition in `FreshestFirst`.
* Flags and YAML are not validated (`config/configuration.go`:129, 177). With an enabled schedule and no valid window `Start` records no override
  (`ui/crawler.go`:218) and the next reconciliation, at most 30 seconds later, stops the
  crawler that the operator has started (:205), hence `Valid(config.window)` in
  `ManualPrecedence`; without it the run `manager` violates the property.
* `requestPeers` judges an infohash by a clock that it read before the lock
  (`dhtc-client/indexingService.go`:535): entries that expired in between still count
  against it. `RefusalJustified` is stated with that earlier time.
* The probe cache is keyed by IP without port (`dhtc-client/indexingService.go`:516):
  of two candidates on one host, the second waits ten minutes. The model has one
  address per IP.
* After a stop, infohashes whose download was cut short, and those left in the drain,
  stay in the process-wide cache: later runs of the same process skip them
  (`dhtc-client/sink.go`:156, 171; contrast `sink_test.go`:56).
* With overlapping runs, the counters of the earlier run are lost from the
  "cumulative" total of README.md:261 when the later one has already published its
  DHT manager (`ui/crawler.go`:321).
* README.md:259 explains harmless repetition by the unique constraint on the infohash.
  GORM has it; Clover, the default, inserts without looking (`db/clover.go`:145), so a
  batch that is ingested again is stored again. This takes one step to see, and the
  models leave the rows out.
* `onPeers` appends peers that have been tried already (`dhtc-client/sink.go`:132), and
  `AddPeers` may too: two peers that fail and name each other keep a download, and its
  slot of `maxNLeeches`, for ever. `DownloadResolved` excludes exactly this.
* The page never connects again (`ui/templates/view/trawl.html`:6): after the hub gave
  up the connection of a sleeping page, it looks alive and shows nothing new.
* A click on a column head makes `sortable.min.js` replace the body of the table, while
  the script keeps the old one (`trawl.html`:7): from then on the "Live view of
  incoming torrents from the DHT network" (`ui/i18n.go`:73) stands still, hence
  `attached` in `LiveViewExact`.
* In the bundled SDK a failed request leaves the promise of `currentDevice` pending; the
  handler in `lazycat-notifications.src.js`:12 does not run, and one more call waits
  every 15 seconds (`DeviceHangs`).
* Whether notifications are on is asked before the `await`: those that wait appear also
  after the user has switched them off.
* `Run` has no write deadline (`ui/hub.go`:55): a client that stays connected and never
  reads stops the hub, and the ingest of every torrent, for as long as it likes
  (`Blocked` in `RunReturns`).
* An answer of `/health` other than 200 costs the screenshot script neither a retry nor
  a second (`scripts/screenshot.js`:33): it spins for ever. `ScriptEnds` excludes it.
* `CheckWatches` asks the whole database instead of the new torrent (`db/watch.go`:20):
  once a match is stored, each later torrent is announced as one, against README.md:53.

## 4. Theorems

All proofs hold for every value of the constants under the named assumptions
(`PendingAssumption`, `QueueAssumption`, `ClusterAssumption`,
`PullAssumption`, `SinkAssumption`, `ScheduleAssumption`, `ManagerAssumption`,
`OverlayAssumption`, `HubAssumption`, `PageAssumption`, `FeedAssumption`,
`RetriesAssumption`), which TLC evaluates in the runs. They say that limits, timeouts
and batch sizes are natural numbers, most of them positive, and that the addresses of
the two networks are different; `OverlayAssumption` adds that a table holds at least a
bucket, which `NewRoutingTable` enforces. `InfoHash`, `Metadata`, `ID` and `Contacts` need not be
finite, and the bounds of the runs (restarts, runs, messages) are arbitrary.

| Module | Inductive invariant | Theorems |
|---|---|---|
| `PendingRequestsProofs` | `IndInv`: the four safety invariants together, and the clock value the reader holds is not in the future; `MatchInv`: every query that can still be answered in time is credited | `TypeCorrect`, `AccountingCorrect`, `TableBoundCorrect`, `ExpiryCoversCorrect`, `NoLiveOverwrite`, `RefusalCorrect`, `MatchCorrect` |
| `WorkerQueueProofs` | `QueueInv`: order, conservation with the Acks that have still to count, and snapshot, and whatever is on disk or being written may be loaded | `QueueTypeCorrect`, `QueueOrderCorrect`, `ConservationCorrect`, `SnapshotCorrect` |
| `ClusterProofs`, push | `PushInv`: `QueueInv`; what may become the queue or reach the master was accepted; the posted batch is still queued and, once answered, ingested | `PushInvHolds`, `PushQueueCorrect`, `PushDelivers` |
| `ClusterProofs`, pull | `PullInv`: `QueueInv`; what the puller holds came out of the queue; in the first life an ID names one record for ever | `PullInvHolds`, `PullConservation`, `PullDelivers` |
| `SinkProofs` | `SinkInv`: type, one download per infohash, no send on a closed channel, one sender, cache; `SemInv`: the tokens taken, counted | `SinkTypeCorrect`, `OneDownloadCorrect`, `NoSendOnClosedCorrect`, `CacheCorrect`, `SemCorrect` |
| `ManagerProofs` | `ManagerInv`: one open run, the timer of the present run shows the auto-stop time, with a valid window the override agrees with the operator's intent; `CountInv`: which runs the counter has taken in | `ScheduleSound`, `ManagerTypeCorrect`, `NoOrphanCorrect`, `ManualPrecedenceCorrect`, `ChangesCorrect`, `AutoStopCorrect`, `AutoStopSticksCorrect`, `NoDoubleCountCorrect` |
| `OverlayProofs` | `OverlayInv`: types, every bucket well placed (`BucketsInv`), its order before the first restart (`OrderInv`), addresses (`VouchedInv`), the counter (`CountInv`) | `OverlayInvHolds`, `SizeExactCorrect`, `NodesPlacedCorrect`, `FreshestFirstCorrect`, `NoInjectionCorrect` |
| `LiveFeedProofs` | `FeedInv`: types, connections, the link between hub and page, the table | `FeedInvHolds`, `LiveViewCorrect`, `OneDeviceCorrect` |
| `ScreenshotsProofs` | `TabInv`: before a picture is taken the tab shows the page | `PicturesCorrect` |

Why the strengthenings are needed:

* `AccountingExact` decides which branch `requestPeers` takes, so the bound per
  infohash needs it; `ExpiryCovers` is needed for the early return of the sweep; and
  for `LiveNeverOverwritten` the time that was read before the lock must not be ahead
  of the clock. The heart is `PendingWithoutExact`: removing any set of requests
  lowers each counter by the number of its requests in the set.
* A restart replaces the queue by the file, so `QueueOrdered` is only inductive with
  the file, and the copy that may become the file, well-formed too.
* Push mode lets a record go when its own acknowledgement is handled. That this is a
  `Release` of `Delivery` needs to know, at that moment, that the master has ingested
  the batch (`BatchInv`), whatever other copies of it are still on `wire`; and that a
  restart is a `Restart` of `Delivery` needs that everything the file may hold was accepted
  (`AcceptedInv`).
* Pull mode removes by ID whatever the acknowledgement names. In the first life this
  is right because IDs are never given out twice: a record of the queue with the ID
  of one that was taken is that record (`IDsNameOnce`). The invariant is conditional on
  `restarts = 0`, and the run `pull_restart` shows that the condition cannot be dropped.
* `CacheTracksWork` needs `OneDownloadPerHash` (the goroutine that finishes is the
  last), which in turn needs the sender counted apart (`OneSender`). `SemExact` needs
  that the goroutines which hold a token are finitely many, also when infohashes are not.
* `ManualPrecedence` needs `manualUntil` to be the next change as seen from now;
  `NextChangeStable` shows that this does not move while time passes inside a window,
  and rests on `ScheduleSound`, which is stated over all instants and windows.
* `NoDoubleCount` needs to know that the counter holds nothing but what runs that have
  ended had dropped, and that the manager that is published belongs to none of those.
* `RepliesMatchQueries` speaks of results only; what makes it inductive is that a query
  on its way, whether about to be sent, queued or with the remote node, is still in the
  table under its ID with its infohash until it is answered or expires, and that no two
  of them share an ID (`Credited`). `SweepKeepsFresh` shows that no sweep takes such an entry away.
* `SizeExact` and `NodesPlaced` need each other: `Add` may count a node as new because
  the bucket of its ID is the only place where it can be. `FreshestFirst` needs that
  nothing is left to load before the first restart, since a loaded entry may be old.
  `NoInjection` needs the nodes that the reader has still to handle. All four rest on
  two lemmas about the operators: `BucketAfterIs` (the bucket after `Add` is the old one,
  or the new node followed by nodes of the old one with other IDs in their order) and
  `KeptNumbered` (counting the nodes that are kept numbers them without gaps and in
  order), from which `PrunedSlots` derives that the counter falls by the nodes removed.
* `LiveViewExact` compares the page with what was broadcast, but between the two lie
  the clients `Run` has still to write to and the socket. `LinkInv` says that what the
  page has handled, what is in the socket and what is still to be written are together
  the feed, up to a connection that was given up; `ConnInv` keeps the old connections
  out of it.
* `PicturesMatch` needs to know what the tab shows between the navigation and the
  picture. That a navigation which succeeds shows the page asked for rests on the server:
  no route of a page redirects to another.

Every invariant, action property and refinement that a passing run checks is also a
theorem. Only model-checked: liveness (`QueuedReachesMaster`,
`QueuedIsReleased`, `DownloadResolved`, `StaleLeaves`, `TableFills`,
`RunReturns`, `ConnReleased`, `ScriptEnds`), since fairness and `ENABLED` are out of
the prover's reach, and the four
violations.

## 5. What is not modelled

* Message layouts, validation and the codec: data that no property tells apart.
* Authorization of the cluster endpoints.
* Torn reads of the configuration, which `SettingsPost` copies without a lock: the
  model overwrites it in one step.
* `Closest`, which only reads the table, and services of two runs that overlap on one
  cache file: `Overlay` has one life at a time.
* Days with a clock change: `Schedule` counts days of equal length. Sockets: with a
  fixed UDP port, a run that starts while the previous one still holds the port ends
  the process (`dhtc-client/transport.go`:118).
* The deadline of the token inside the device that the notification script keeps
  (`lazycat-notifications.src.js`:18): `NotifyReturns` lets every call fail.
* What `InsertMetadata` stores, and so whether a torrent has one row or several.
* Sizes: a batch above the master's limit of 1 MiB is refused each time.
* `tailwind.config.js`, which holds declarations; the minified Lazycat SDK inside
  `lazycat-notifications.js`, of which only the settling of `currentDevice` matters
  here; the layout of the rows of the live page; several pages at a time.
* Watches: one function without state, whose matching is a query of the database.
* Categories, filters, notifiers, pages, API, translations: text matching, templates
  and I/O. A filter is a free choice in `MasterIngest` and `Sink`.
* Queries, statistics and migrations of the repositories: calls of the database
  libraries.

## 6. Plan

In order of importance; each with its properties.

1. Proofs: invariants that the liveness properties rest on, such as who holds the
   mutex of the drain and who waits for it, and which step is ready in each state.
2. Transport: three queues, limiter, `Terminate` against blocked senders; token
   rotation (a token given out is accepted for at least one period).
3. `Client.Do`: assembly of the pieces, rejects, out-of-order and repeated pieces;
   `Closest` against a reference definition over XOR distances.
4. Database: pruning against concurrent inserts; lost updates between two savers of
   the settings; the one retry of the Transmission session.
5. `MasterPuller.Configure` and `Status` with several workers; the DHT manager's
   fan-in.
