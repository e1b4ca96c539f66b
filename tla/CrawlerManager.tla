--------------------------- MODULE CrawlerManager ---------------------------
(***************************************************************************)
(* CrawlerManager (ui/crawler.go): manual start and stop, the daily        *)
(* schedule, the auto-stop timer, and the runs of the crawl goroutine that *)
(* they start and stop.                                                    *)
(*                                                                         *)
(* Start, Stop, ReconcileSchedule and Status hold mu from end to end. A    *)
(* run outlives the Stop that ended it: its goroutine publishes its DHT    *)
(* manager, and takes it back, whenever it gets there. A timer goroutine   *)
(* also decides to fire before it gets mu. The settings page overwrites    *)
(* the configuration without mu and then reconciles.                       *)
(*                                                                         *)
(* OnlyWebServer is false: with it nothing of this ever runs.              *)
(***************************************************************************)
EXTENDS Schedule, FiniteSets

CONSTANTS
    Configs,     \* configurations: [enabled, window, autoStop (0: none)]; the
                 \* first one comes from flags or YAML and may be invalid
    MaxRuns,     \* bound of the model: runs
    MaxDay,      \* bound of the model: the last day
    MaxDropped,  \* bound of the model: results dropped per run
    MaxSaves     \* bound of the model: times the settings are saved

ASSUME ManagerAssumption ==
    /\ Configs \subseteq [enabled : BOOLEAN, window : Windows, autoStop : Nat]
    /\ MaxRuns \in Nat /\ MaxDay \in Nat /\ MaxDropped \in Nat
    /\ MaxSaves \in Nat

VARIABLES
    now,             \* time.Now()
    config,          \* the part of the configuration that is used here
    running,         \* m.running
    stop,            \* the run whose channel m.stop is, 0 for nil
    autoStopAt,      \* m.autoStopAt
    manualOverride,  \* m.manualOverride
    manualRun,       \* m.manualRun
    manualUntil,     \* m.manualUntil
    open,            \* the runs whose stop channel is open
    phase,           \* where the crawl goroutine of a run is
    timer,           \* where the timer goroutine of a run is
    active,          \* the run of m.activeDHTManager, 0 for nil
    dropped,         \* the counter of a run's DHT manager
    dhtOutputDropped,\* m.dhtOutputDropped
    saves,           \* times the settings have been saved
    saving,          \* has the settings page yet to reconcile?
    intent,          \* what the operator last asked for, while it counts
    autoStopped      \* was the last stop by timer, and nothing asked since?

manager == <<running, stop, autoStopAt>>
override == <<manualOverride, manualRun, manualUntil>>
crawls == <<phase, active, dropped, dhtOutputDropped>>
settings == <<config, saves, saving>>
history == <<intent, autoStopped>>
vars == <<now, manager, override, open, crawls, timer, settings, history>>

Runs == 1 .. MaxRuns
Phases == {"none", "starting", "active", "stopping", "ended"}
NoTimer == [state |-> "none", at |-> NoInstant]
Timers == [state : {"none", "armed", "fired"}, at : Instants]

Init ==
    /\ now = <<1, 0>>
    /\ config \in Configs
    /\ running = FALSE /\ stop = 0 /\ autoStopAt = NoInstant
    /\ manualOverride = FALSE /\ manualRun = FALSE /\ manualUntil = NoInstant
    /\ open = {}
    /\ phase = [r \in Runs |-> "none"]
    /\ timer = [r \in Runs |-> NoTimer]
    /\ active = 0
    /\ dropped = [r \in Runs |-> 0]
    /\ dhtOutputDropped = 0
    /\ saves = 0 /\ saving = FALSE
    /\ intent = "none" /\ autoStopped = FALSE

-----------------------------------------------------------------------------
(***************************************************************************)
(* startLocked, stopLocked and setManualOverrideAtLocked                   *)
(***************************************************************************)
Unused == {r \in Runs : phase[r] = "none"}

\* A bug: a second crawler is started next to the first.
MayStartTwice == TRUE

MayStart == ~running

\* startLocked: a run and, if the configuration says so, its timer. The first
\* unused number is the new channel; when there is none left, the bound of the
\* model is reached and the crawler cannot be started.
StartLocked ==
    IF ~MayStart
    THEN UNCHANGED <<manager, open, phase, timer>>
    ELSE \E r \in Unused :
           /\ \A q \in Unused : r <= q
           /\ running' = TRUE
           /\ stop' = r
           /\ autoStopAt' = IF config.autoStop > 0
                            THEN Plus(now, config.autoStop) ELSE NoInstant
           /\ open' = open \cup {r}
           /\ phase' = [phase EXCEPT ![r] = "starting"]
           /\ timer' = IF config.autoStop > 0
                       THEN [timer EXCEPT ![r] = [state |-> "armed",
                                 at |-> Plus(now, config.autoStop)]]
                       ELSE timer

\* stopLocked: the channel is closed and the run is on its own.
StopLocked ==
    IF ~running
    THEN UNCHANGED <<manager, open>>
    ELSE /\ open' = open \ {stop}
         /\ running' = FALSE
         /\ stop' = 0
         /\ autoStopAt' = NoInstant

\* setManualOverrideAtLocked
SetManualOverride(run) ==
    IF config.enabled /\ Valid(config.window)
    THEN /\ manualOverride' = TRUE
         /\ manualRun' = run
         /\ manualUntil' = NextChange(now, config.window)
    ELSE UNCHANGED override

-----------------------------------------------------------------------------
(***************************************************************************)
(* The calls                                                               *)
(***************************************************************************)
Asked(what) == intent' = IF config.enabled THEN what ELSE "none"

Start ==
    /\ SetManualOverride(TRUE)
    /\ StartLocked
    /\ Asked("start")
    /\ autoStopped' = FALSE
    /\ UNCHANGED <<now, active, dropped, dhtOutputDropped, settings>>

Stop ==
    /\ SetManualOverride(FALSE)
    /\ StopLocked
    /\ Asked("stop")
    /\ autoStopped' = FALSE
    /\ UNCHANGED <<now, crawls, timer, settings>>

\* A bug: the comparison is the wrong way round.
OverrideSwapped == manualOverride /\ Before(manualUntil, now)

\* A manual command counts until the next change of the window.
OverrideCounts == manualOverride /\ Before(now, manualUntil)

\* A bug: the schedule is obeyed although it is switched off.
ScheduleOnAlways == TRUE

ScheduleOn == config.enabled

\* ReconcileSchedule, as a step of the ticker or of the settings page.
Reconcile ==
    /\ IF ~ScheduleOn
       THEN /\ manualOverride' = FALSE /\ manualUntil' = NoInstant
            /\ UNCHANGED <<manager, manualRun, open, phase, timer>>
       ELSE IF OverrideCounts
       THEN /\ IF manualRun THEN StartLocked
               ELSE StopLocked /\ UNCHANGED <<phase, timer>>
            /\ UNCHANGED override
       ELSE /\ manualOverride' = FALSE /\ manualUntil' = NoInstant
            /\ UNCHANGED manualRun
            /\ IF ShouldRun(now, config.window) THEN StartLocked
               ELSE StopLocked /\ UNCHANGED <<phase, timer>>
    /\ UNCHANGED <<now, active, dropped, dhtOutputDropped, config, saves, history>>

ScheduleLoop == Reconcile /\ UNCHANGED saving

\* SettingsPost, which accepts a schedule only with a valid window, overwrites
\* the configuration ...
SaveSettings(c) ==
    /\ ~saving /\ saves < MaxSaves
    /\ c.enabled => Valid(c.window)
    /\ config' = c
    /\ saves' = saves + 1
    /\ saving' = TRUE
    /\ intent' = "none" /\ autoStopped' = FALSE
    /\ UNCHANGED <<now, manager, override, open, crawls, timer>>

\* ... and reconciles.
SettingsReconcile == saving /\ Reconcile /\ saving' = FALSE

-----------------------------------------------------------------------------
(***************************************************************************)
(* stopAfter, the timer goroutine of run r                                 *)
(***************************************************************************)

\* The select takes the timer's channel ...
TimerFires(r) ==
    /\ timer[r].state = "armed"
    /\ ~Before(now, timer[r].at)
    /\ timer' = [timer EXCEPT ![r].state = "fired"]
    /\ UNCHANGED <<now, manager, override, open, crawls, settings, history>>

\* ... or the closed stop channel: if both are ready, either.
TimerCancelled(r) ==
    /\ timer[r].state = "armed"
    /\ r \notin open
    /\ timer' = [timer EXCEPT ![r] = NoTimer]
    /\ UNCHANGED <<now, manager, override, open, crawls, settings, history>>

\* A bug: whatever runs now is stopped.
OwnRunUnchecked(r) == TRUE

\* m.stop == stop
OwnRun(r) == stop = r

\* The timer gets mu and stops the crawler, if it still is the run it was
\* started for.
AutoStop(r) ==
    /\ timer[r].state = "fired"
    /\ timer' = [timer EXCEPT ![r] = NoTimer]
    /\ IF OwnRun(r)
       THEN /\ manualRun' = FALSE
            /\ StopLocked
            /\ intent' = IF intent = "start" THEN "stop" ELSE intent
            /\ autoStopped' = TRUE
       ELSE UNCHANGED <<manager, manualRun, open, history>>
    /\ UNCHANGED <<now, manualOverride, manualUntil, crawls, settings>>

-----------------------------------------------------------------------------
(***************************************************************************)
(* crawl, the goroutine of run r                                           *)
(***************************************************************************)

\* The DHT manager is up and Status can see it.
CrawlPublishes(r) ==
    /\ phase[r] = "starting"
    /\ phase' = [phase EXCEPT ![r] = "active"]
    /\ active' = r
    /\ UNCHANGED <<now, manager, override, open, dropped, dhtOutputDropped, timer,
                   settings, history>>

\* onIndexingResult finds the output channel full. NewManager starts its services
\* before the manager is published.
DropResult(r) ==
    /\ phase[r] \in {"starting", "active", "stopping"}
    /\ dropped[r] < MaxDropped
    /\ dropped' = [dropped EXCEPT ![r] = @ + 1]
    /\ UNCHANGED <<now, manager, override, open, phase, active, dhtOutputDropped,
                   timer, settings, history>>

\* The loop sees its stop channel closed and runs its deferred calls; the last
\* one adds the counter to the total.
CrawlReturns(r) ==
    /\ phase[r] = "active"
    /\ r \notin open
    /\ phase' = [phase EXCEPT ![r] = "stopping"]
    /\ UNCHANGED <<now, manager, override, open, active, dropped,
                   dhtOutputDropped, timer, settings, history>>

\* A bug: the manager stays published after its counter was added.
StillPublished(r) == active

\* m.activeDHTManager = nil, if it is the one of this run.
Unpublished(r) == IF active = r THEN 0 ELSE active

CrawlEnds(r) ==
    /\ phase[r] = "stopping"
    /\ phase' = [phase EXCEPT ![r] = "ended"]
    /\ dhtOutputDropped' = IF active = r THEN dhtOutputDropped + dropped[r]
                           ELSE dhtOutputDropped
    /\ active' = Unpublished(r)
    /\ UNCHANGED <<now, manager, override, open, dropped, timer, settings, history>>

\* A minute passes. The ticker of scheduleLoop has a period of 30 seconds.
Tick ==
    LET next == MinuteAfter(now)
    IN  /\ next[1] <= MaxDay
        /\ now' = next
        /\ IF ShouldRun(next, config.window) # ShouldRun(now, config.window)
           THEN intent' = "none" /\ autoStopped' = FALSE
           ELSE UNCHANGED history
        /\ UNCHANGED <<manager, override, open, crawls, timer, settings>>

Next ==
    \/ Start
    \/ Stop
    \/ ScheduleLoop
    \/ \E c \in Configs : SaveSettings(c)
    \/ SettingsReconcile
    \/ \E r \in Runs :
          \/ TimerFires(r)
          \/ TimerCancelled(r)
          \/ AutoStop(r)
          \/ CrawlPublishes(r)
          \/ DropResult(r)
          \/ CrawlReturns(r)
          \/ CrawlEnds(r)
    \/ Tick

Spec == Init /\ [][Next]_vars

-----------------------------------------------------------------------------
(***************************************************************************)
(* Properties                                                              *)
(***************************************************************************)

\* The type of every variable.
TypeOK ==
    /\ now \in Instants
    /\ config \in Configs
    /\ running \in BOOLEAN /\ stop \in Runs \cup {0} /\ autoStopAt \in Instants
    /\ manualOverride \in BOOLEAN /\ manualRun \in BOOLEAN
    /\ manualUntil \in Instants
    /\ open \subseteq Runs
    /\ phase \in [Runs -> Phases]
    /\ timer \in [Runs -> Timers]
    /\ active \in Runs \cup {0}
    /\ dropped \in [Runs -> Nat] /\ dhtOutputDropped \in Nat
    /\ saves \in Nat /\ saving \in BOOLEAN
    /\ intent \in {"none", "start", "stop"} /\ autoStopped \in BOOLEAN

\* The only run that has not been told to stop is the one that m.stop can still
\* reach: no crawl goroutine is left behind that nobody can stop.
NoOrphanRun == open = IF running THEN {stop} ELSE {}

\* A timer stops the crawler only when the time that Status shows for the
\* present run has come, not because the time of an earlier run has.
AutoStopOnTime ==
    [][running /\ ~running' /\ timer' # timer
          => autoStopAt # NoInstant /\ ~Before(now, autoStopAt)]_vars

\* "The manual operation takes precedence": from a manual start or stop to the
\* next change of the window, the crawler is in the state the operator asked
\* for, except that the auto-stop of a started run counts as a stop. This needs
\* a window that changes: the flags and the YAML file are not checked, and with
\* a schedule that is enabled with no valid window no override is recorded, so
\* that the next reconciliation stops a crawler the operator has started.
ManualPrecedence ==
    Valid(config.window) =>
        /\ intent = "start" => running
        /\ intent = "stop" => ~running

\* With the schedule switched off, a crawler that its timer stopped stays stopped
\* until the operator starts it. (With it switched on, the next reconciliation
\* inside the window starts it again.)
AutoStopSticks == autoStopped /\ ~config.enabled => ~running

\* The end of the override that a manual command would set now is a change of
\* the window, the first one from now on, for windows with and without midnight.
ChangesSound ==
    config.enabled /\ Valid(config.window) => ChangeSound(now, config.window)

\* The value that Status and /health report for dht_output_dropped.
Reported == dhtOutputDropped + IF active = 0 THEN 0 ELSE dropped[active]

\* The results that the DHT managers of some runs have dropped.
DroppedIn(runs) == UNION {{<<r, i>> : i \in 1 .. dropped[r]} : r \in runs}

\* Status never counts a dropped result twice, although two runs may overlap,
\* publish and end in any order: what it reports is at most what the DHT
\* managers of all runs have dropped.
NoDoubleCount == Reported <= Cardinality(DroppedIn(Runs))

=============================================================================
