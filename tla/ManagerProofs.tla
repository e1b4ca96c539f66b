--------------------------- MODULE ManagerProofs ----------------------------
(***************************************************************************)
(* The schedule and CrawlerManager, for every length of the day, every     *)
(* window, every set of configurations and every number of runs.           *)
(***************************************************************************)
EXTENDS CrawlerManager, FiniteSetTheorems, TLAPS

-----------------------------------------------------------------------------
(***************************************************************************)
(* The schedule                                                            *)
(***************************************************************************)

\* What scheduleState answers for a valid window is the first change of the
\* window after now, whether or not the window contains midnight.
THEOREM ScheduleSound ==
    ASSUME NEW t \in Instants, NEW w \in Windows, Valid(w)
    PROVE  ChangeSound(t, w)
<1> USE ScheduleAssumption DEF ScheduleAssumption
<1> PICK d \in Nat, m \in Minutes : t = <<d, m>>
  BY DEF Instants
<1> PICK s \in Minutes, e \in Minutes : w = [start |-> s, end |-> e]
  BY DEF Windows
<1> DEFINE In(x) == IF s < e THEN s <= x /\ x < e ELSE s <= x \/ x < e
           nm == IF In(m) THEN e ELSE s
           nd == IF m < nm THEN d ELSE d + 1
<1>1. s # e /\ \A x : Inside(x, w) = In(x)
  BY DEF Valid, Inside
<1>2. NextChange(t, w) = <<nd, nm>>
  <2>1. t[1] = d /\ t[2] = m /\ w.start = s /\ w.end = e
    OBVIOUS
  <2>2. NextChange(t, w) = IF Before(t, <<d, nm>>) THEN <<d, nm>> ELSE <<d + 1, nm>>
    BY <1>1, <2>1 DEF NextChange
  <2>3. Before(t, <<d, nm>>) <=> m < nm
    BY <2>1 DEF Before
  <2> QED
    BY <2>2, <2>3
<1>3. \A u \in Instants : ShouldRun(u, w) = In(u[2])
  BY <1>1 DEF ShouldRun, Valid
<1>4. nm \in Minutes /\ nd \in Nat /\ In(nm) # In(m)
  BY <1>1 DEF Minutes
<1>5. ASSUME NEW a \in {d, d + 1}, NEW x \in Minutes,
             ~(a < d \/ (a = d /\ x < m)), a < nd \/ (a = nd /\ x < nm)
      PROVE  In(x) = In(m)
  BY <1>1, <1>5 DEF Minutes
<1> HIDE DEF In, nm, nd
<1>6. Before(t, <<nd, nm>>)
  BY <1>4 DEF Before, nd, nm, Minutes
<1> QED
  BY <1>2, <1>3, <1>4, <1>5, <1>6 DEF ChangeSound, Before, Instants

\* The instants that the manager computes are instants, and none is the zero
\* time once the first day has begun.
LEMMA InstantTypes ==
    ASSUME NEW t \in Instants, t[1] > 0
    PROVE  /\ MinuteAfter(t) \in Instants /\ MinuteAfter(t)[1] > 0
           /\ \A n \in Nat : Plus(t, n) \in Instants /\ Plus(t, n) # NoInstant
           /\ \A u \in Instants : ~Before(t, u) => ~Before(MinuteAfter(t), u)
<1> USE ScheduleAssumption DEF ScheduleAssumption
<1> PICK d \in Nat, m \in Minutes : t = <<d, m>>
  BY DEF Instants
<1>1. MinuteAfter(t) = IF m + 1 < DayLen THEN <<d, m + 1>> ELSE <<d + 1, 0>>
  BY DEF MinuteAfter
<1>2. MinuteAfter(t) \in Instants /\ MinuteAfter(t)[1] > 0
  BY <1>1 DEF Instants, Minutes
<1>3. ASSUME NEW n \in Nat
      PROVE  Plus(t, n) \in Instants /\ Plus(t, n) # NoInstant
  <2>1. m + n \in Nat /\ d > 0
    BY DEF Minutes
  <2>2. (m + n) \div DayLen \in Nat /\ (m + n) % DayLen \in Minutes
    BY <2>1 DEF Minutes
  <2>3. Plus(t, n) = <<d + (m + n) \div DayLen, (m + n) % DayLen>>
    BY DEF Plus
  <2> QED
    BY <2>1, <2>2, <2>3 DEF Instants, NoInstant
<1>4. ASSUME NEW u \in Instants, ~Before(t, u)
      PROVE  ~Before(MinuteAfter(t), u)
  <2> PICK a \in Nat, x \in Minutes : u = <<a, x>>
    BY DEF Instants
  <2> QED
    BY <1>1, <1>4 DEF Before, Minutes
<1> QED
  BY <1>2, <1>3, <1>4

\* A minute that does not change the window leaves the next change where it is,
\* and that is still ahead.
LEMMA NextChangeStable ==
    ASSUME NEW t \in Instants, NEW w \in Windows, Valid(w),
           ShouldRun(MinuteAfter(t), w) = ShouldRun(t, w)
    PROVE  NextChange(MinuteAfter(t), w) = NextChange(t, w)
<1> USE ScheduleAssumption DEF ScheduleAssumption
<1> PICK d \in Nat, m \in Minutes : t = <<d, m>>
  BY DEF Instants
<1> PICK s \in Minutes, e \in Minutes : w = [start |-> s, end |-> e]
  BY DEF Windows
<1> DEFINE In(x) == IF s < e THEN s <= x /\ x < e ELSE s <= x \/ x < e
           nm == IF In(m) THEN e ELSE s
           d1 == IF m + 1 < DayLen THEN d ELSE d + 1
           m1 == IF m + 1 < DayLen THEN m + 1 ELSE 0
<1>1. s # e /\ \A x : Inside(x, w) = In(x)
  BY DEF Valid, Inside
<1>2. MinuteAfter(t) = <<d1, m1>> /\ d1 \in Nat /\ m1 \in Minutes
  BY DEF MinuteAfter, Minutes
<1>3. In(m1) = In(m)
  <2>1. t[2] = m /\ MinuteAfter(t)[2] = m1
    BY <1>2
  <2>2. Inside(m1, w) = Inside(m, w)
    BY <2>1 DEF ShouldRun, Inside
  <2> QED
    BY <1>1, <2>2
<1>4. \A a \in Nat, x \in Minutes :
         NextChange(<<a, x>>, w) =
             LET n == IF In(x) THEN e ELSE s
             IN  IF x < n THEN <<a, n>> ELSE <<a + 1, n>>
  <2> TAKE a \in Nat, x \in Minutes
  <2> DEFINE n == IF In(x) THEN e ELSE s
  <2>1. NextChange(<<a, x>>, w) =
           IF Before(<<a, x>>, <<a, n>>) THEN <<a, n>> ELSE <<a + 1, n>>
    BY <1>1 DEF NextChange
  <2>2. Before(<<a, x>>, <<a, n>>) <=> x < n
    BY DEF Before
  <2> QED
    BY <2>1, <2>2
<1>5. NextChange(t, w) = IF m < nm THEN <<d, nm>> ELSE <<d + 1, nm>>
  BY <1>4
<1>6. NextChange(<<d1, m1>>, w) = IF m1 < nm THEN <<d1, nm>> ELSE <<d1 + 1, nm>>
  BY <1>2, <1>3, <1>4
<1>7. (IF m1 < nm THEN d1 ELSE d1 + 1) = (IF m < nm THEN d ELSE d + 1)
  BY <1>1, <1>3 DEF Minutes
<1> QED
  BY <1>2, <1>5, <1>6, <1>7

-----------------------------------------------------------------------------
(***************************************************************************)
(* The inductive invariant of the manager                                  *)
(***************************************************************************)

\* A number is unused until a run takes it, m.stop is the channel of a run
\* exactly while the crawler runs, and the only open channel is that one.
RunInv ==
    /\ NoOrphanRun
    /\ running <=> stop # 0
    /\ \A r \in Runs : phase[r] = "none" => r # stop /\ timer[r].state = "none"

\* The timer of the present run is set to the time that Status shows, and a
\* timer that has fired is due.
TimerInv ==
    \A r \in Runs :
        /\ timer[r].state # "none" /\ stop = r
              => autoStopAt = timer[r].at /\ autoStopAt # NoInstant
        /\ timer[r].state = "fired" => ~Before(now, timer[r].at)

\* While the operator's command counts, and there is a window, the override says
\* the same and lasts until the next change of the window, which is ahead.
IntentInv ==
    /\ ManualPrecedence
    /\ intent # "none" => config.enabled
    /\ intent # "none" /\ Valid(config.window) =>
         /\ manualOverride
         /\ manualUntil = NextChange(now, config.window)
         /\ manualRun <=> intent = "start"

ManagerInv == TypeOK /\ now[1] > 0 /\ RunInv /\ TimerInv /\ IntentInv

\* The part of the state that startLocked and stopLocked write.
LockedTypes ==
    /\ running \in BOOLEAN /\ stop \in Runs \cup {0} /\ autoStopAt \in Instants
    /\ open \subseteq Runs
    /\ phase \in [Runs -> Phases]
    /\ timer \in [Runs -> Timers]

\* startLocked leaves one open run, with its own timer.
LEMMA StartLockedOK ==
    ASSUME ManagerInv, StartLocked, now' = now
    PROVE  LockedTypes' /\ running' /\ RunInv' /\ TimerInv'
<1>0. /\ TypeOK /\ now \in Instants /\ now[1] > 0 /\ RunInv /\ TimerInv
      /\ config.autoStop \in Nat
  BY ManagerAssumption DEF ManagerInv, TypeOK, ManagerAssumption
<1>1. CASE running
  <2>1. UNCHANGED <<running, stop, autoStopAt, open, phase, timer>>
    BY <1>1 DEF StartLocked, MayStart, manager
  <2> QED
    BY <1>0, <1>1, <2>1 DEF LockedTypes, TypeOK, RunInv, TimerInv, NoOrphanRun
<1>2. CASE ~running
  <2>1. PICK r \in Unused :
          /\ running' = TRUE
          /\ stop' = r
          /\ autoStopAt' = IF config.autoStop > 0
                           THEN Plus(now, config.autoStop) ELSE NoInstant
          /\ open' = open \cup {r}
          /\ phase' = [phase EXCEPT ![r] = "starting"]
          /\ timer' = IF config.autoStop > 0
                      THEN [timer EXCEPT ![r] = [state |-> "armed",
                                at |-> Plus(now, config.autoStop)]]
                      ELSE timer
    BY <1>2 DEF StartLocked, MayStart
  <2>2. r \in Runs /\ r # 0 /\ phase[r] = "none"
    BY DEF Unused, Runs
  <2>3. Plus(now, config.autoStop) \in Instants /\ Plus(now, config.autoStop) # NoInstant
    BY <1>0, InstantTypes
  <2>4. NoInstant \in Instants
    BY ScheduleAssumption DEF ScheduleAssumption, NoInstant, Instants, Minutes
  <2>5. \A q \in Runs \ {r} : phase'[q] = phase[q] /\ timer'[q] = timer[q]
    BY <1>0, <2>1, <2>2 DEF TypeOK
  <2>6. /\ phase'[r] = "starting"
        /\ config.autoStop > 0 => timer'[r] = [state |-> "armed",
                                       at |-> Plus(now, config.autoStop)]
        /\ ~(config.autoStop > 0) => timer'[r].state = "none"
    BY <1>0, <2>1, <2>2 DEF TypeOK, RunInv
  <2>7. LockedTypes'
    <3>1. phase' \in [Runs -> Phases]
      BY <1>0, <2>1, <2>2 DEF TypeOK, Phases
    <3>2. timer' \in [Runs -> Timers]
      BY <1>0, <2>1, <2>2, <2>3 DEF TypeOK, Timers
    <3> QED
      BY <1>0, <2>1, <2>2, <2>3, <2>4, <3>1, <3>2 DEF LockedTypes, TypeOK
  <2>8. NoOrphanRun'
    BY <1>0, <1>2, <2>1 DEF RunInv, NoOrphanRun
  <2>9. RunInv'
    BY <1>0, <2>1, <2>2, <2>5, <2>6, <2>8 DEF RunInv
  <2>10. TimerInv'
    BY <1>0, <2>1, <2>2, <2>3, <2>5, <2>6 DEF TimerInv
  <2> QED
    BY <2>1, <2>7, <2>9, <2>10
<1> QED
  BY <1>1, <1>2 DEF ManagerInv, TypeOK

\* stopLocked leaves no open run; a timer of r may end with it.
LEMMA StopLockedOK ==
    ASSUME ManagerInv, StopLocked, now' = now, phase' = phase,
           \/ timer' = timer
           \/ \E r \in Runs : timer' = [timer EXCEPT ![r] = NoTimer]
    PROVE  LockedTypes' /\ ~running' /\ RunInv' /\ TimerInv'
<1>0. TypeOK /\ RunInv /\ TimerInv
  BY DEF ManagerInv
<1>1. NoInstant \in Instants
  BY ScheduleAssumption DEF ScheduleAssumption, NoInstant, Instants, Minutes
<1>2. /\ running' = FALSE /\ stop' = 0 /\ open' = {}
      /\ autoStopAt' \in Instants
  BY <1>0, <1>1 DEF StopLocked, RunInv, NoOrphanRun, TypeOK, manager
<1>3. timer' \in [Runs -> Timers] /\ \A r \in Runs : timer'[r] \in {timer[r], NoTimer}
  BY <1>0, <1>1 DEF TypeOK, NoTimer, Timers
<1>4. \A r \in Runs : r # 0
  BY DEF Runs
<1>5. RunInv'
  BY <1>0, <1>2, <1>3, <1>4 DEF RunInv, NoOrphanRun, NoTimer
<1>6. TimerInv'
  BY <1>0, <1>2, <1>3, <1>4 DEF TimerInv, NoTimer
<1> QED
  BY <1>0, <1>2, <1>3, <1>5, <1>6 DEF LockedTypes, TypeOK

\* The configuration in use has a window; the next change of a valid one is an
\* instant ahead of now.
LEMMA ConfigFacts ==
    ASSUME TypeOK
    PROVE  /\ config.enabled \in BOOLEAN /\ config.window \in Windows
           /\ Valid(config.window) => NextChange(now, config.window) \in Instants
           /\ Valid(config.window) => Before(now, NextChange(now, config.window))
<1>1. config.enabled \in BOOLEAN /\ config.window \in Windows
  BY ManagerAssumption DEF TypeOK, ManagerAssumption
<1>2. Valid(config.window) => ChangeSound(now, config.window)
  BY <1>1, ScheduleSound DEF TypeOK
<1> QED
  BY <1>1, <1>2 DEF ChangeSound

\* What an override set now makes of the operator's intent.
LEMMA OverrideOK ==
    ASSUME ManagerInv, NEW run \in BOOLEAN, SetManualOverride(run),
           Asked(IF run THEN "start" ELSE "stop"), UNCHANGED <<now, config>>,
           running' <=> run
    PROVE  /\ IntentInv'
           /\ manualOverride' \in BOOLEAN /\ manualRun' \in BOOLEAN
           /\ manualUntil' \in Instants /\ intent' \in {"none", "start", "stop"}
<1>1. TypeOK
  BY DEF ManagerInv
<1>2. CASE config.enabled /\ Valid(config.window)
  <2>1. /\ manualOverride' = TRUE /\ manualRun' = run
        /\ manualUntil' = NextChange(now, config.window)
        /\ intent' = IF run THEN "start" ELSE "stop"
    BY <1>1, <1>2, ConfigFacts DEF SetManualOverride, Asked
  <2> QED
    BY <1>1, <1>2, <2>1, ConfigFacts DEF IntentInv, ManualPrecedence
<1>3. CASE ~config.enabled
  <2>1. UNCHANGED <<manualOverride, manualRun, manualUntil>> /\ intent' = "none"
    BY <1>3 DEF SetManualOverride, Asked, override
  <2> QED
    BY <1>1, <2>1 DEF IntentInv, ManualPrecedence, TypeOK
<1>4. CASE config.enabled /\ ~Valid(config.window)
  <2>1. /\ UNCHANGED <<manualOverride, manualRun, manualUntil>>
        /\ intent' \in {"start", "stop"}
    BY <1>4 DEF SetManualOverride, Asked, override
  <2> QED
    BY <1>1, <1>4, <2>1 DEF IntentInv, ManualPrecedence, TypeOK
<1> QED
  BY <1>1, <1>2, <1>3, <1>4, ConfigFacts

\* A step of a crawl goroutine: the phase of a run goes on.
LEMMA CrawlOK ==
    ASSUME ManagerInv, UNCHANGED <<now, manager, override, open, timer, config,
                                   history>>,
           phase' \in [Runs -> Phases],
           \A r \in Runs : phase'[r] = "none" => phase[r] = "none"
    PROVE  LockedTypes' /\ RunInv' /\ TimerInv' /\ IntentInv'
<1>1. TypeOK /\ RunInv /\ TimerInv /\ IntentInv
  BY DEF ManagerInv
<1>2. UNCHANGED <<running, stop, autoStopAt, manualOverride, manualRun,
                  manualUntil, intent, autoStopped>>
  BY DEF manager, override, history
<1>3. LockedTypes'
  BY <1>1, <1>2 DEF LockedTypes, TypeOK
<1>4. RunInv'
  BY <1>1, <1>2 DEF RunInv, NoOrphanRun
<1>5. TimerInv'
  BY <1>1, <1>2 DEF TimerInv
<1>6. IntentInv'
  BY <1>1, <1>2 DEF IntentInv, ManualPrecedence
<1> QED
  BY <1>3, <1>4, <1>5, <1>6

\* ReconcileSchedule does what the operator asked for while that counts.
LEMMA ReconcileOK ==
    ASSUME ManagerInv, Reconcile
    PROVE  /\ LockedTypes' /\ RunInv' /\ TimerInv' /\ IntentInv'
           /\ manualOverride' \in BOOLEAN /\ manualRun' \in BOOLEAN
           /\ manualUntil' \in Instants
<1>0. TypeOK /\ RunInv /\ TimerInv /\ IntentInv
  BY DEF ManagerInv
<1>1. UNCHANGED <<now, config, intent, autoStopped>>
  BY DEF Reconcile, history
<1>2. NoInstant \in Instants
  BY ScheduleAssumption DEF ScheduleAssumption, NoInstant, Instants, Minutes
<1>3. CASE ~config.enabled
  <2>1. /\ manualOverride' = FALSE /\ manualUntil' = NoInstant
        /\ UNCHANGED <<running, stop, autoStopAt, manualRun, open, phase, timer>>
    BY <1>3 DEF Reconcile, ScheduleOn, manager
  <2>2. intent = "none"
    BY <1>0, <1>3 DEF IntentInv
  <2>3. LockedTypes' /\ RunInv' /\ TimerInv'
    BY <1>0, <1>1, <2>1 DEF LockedTypes, TypeOK, RunInv, TimerInv, NoOrphanRun
  <2>4. IntentInv'
    BY <1>1, <2>2 DEF IntentInv, ManualPrecedence
  <2> QED
    BY <1>0, <1>2, <2>1, <2>3, <2>4 DEF TypeOK
<1>4. CASE config.enabled /\ OverrideCounts
  <2>1. /\ IF manualRun THEN StartLocked ELSE StopLocked /\ UNCHANGED <<phase, timer>>
        /\ UNCHANGED <<manualOverride, manualRun, manualUntil>>
    BY <1>4 DEF Reconcile, ScheduleOn, override
  <2>2. LockedTypes' /\ RunInv' /\ TimerInv' /\ (running' <=> manualRun)
    BY <1>0, <1>1, <2>1, StartLockedOK, StopLockedOK DEF TypeOK
  <2>3. IntentInv'
    BY <1>0, <1>1, <2>1, <2>2 DEF IntentInv, ManualPrecedence
  <2> QED
    BY <1>0, <2>1, <2>2, <2>3 DEF TypeOK
<1>5. CASE config.enabled /\ ~OverrideCounts
  <2>1. /\ manualOverride' = FALSE /\ manualUntil' = NoInstant
        /\ UNCHANGED manualRun
        /\ IF ShouldRun(now, config.window) THEN StartLocked
           ELSE StopLocked /\ UNCHANGED <<phase, timer>>
    BY <1>5 DEF Reconcile, ScheduleOn
  <2>2. LockedTypes' /\ RunInv' /\ TimerInv'
    BY <1>0, <1>1, <2>1, StartLockedOK, StopLockedOK
  <2>3. Valid(config.window) => intent = "none"
    BY <1>0, <1>5, ConfigFacts DEF IntentInv, OverrideCounts
  <2>4. IntentInv'
    BY <1>0, <1>1, <2>3 DEF IntentInv, ManualPrecedence
  <2> QED
    BY <1>0, <1>2, <2>1, <2>2, <2>4 DEF TypeOK
<1> QED
  BY <1>0, <1>3, <1>4, <1>5, ConfigFacts

\* Every step of the manager, its timers, its runs and the clock keeps the
\* inductive invariant.
LEMMA ManagerStep ==
    ASSUME ManagerInv, [Next]_vars
    PROVE  ManagerInv'
<1>0. /\ TypeOK /\ now[1] > 0 /\ RunInv /\ TimerInv /\ IntentInv
      /\ NoInstant \in Instants
  BY ScheduleAssumption
     DEF ManagerInv, ScheduleAssumption, NoInstant, Instants, Minutes
<1> USE DEF manager, override, crawls, settings, history
<1>1. CASE UNCHANGED vars
  BY <1>0, <1>1 DEF vars, ManagerInv, TypeOK, RunInv, TimerInv, IntentInv,
                    NoOrphanRun, ManualPrecedence
<1>2. CASE Start
  <2>1. /\ SetManualOverride(TRUE) /\ StartLocked /\ Asked("start")
        /\ UNCHANGED <<now, config, active, dropped, dhtOutputDropped, saves, saving>>
        /\ autoStopped' = FALSE
    BY <1>2 DEF Start
  <2>2. LockedTypes' /\ running' /\ RunInv' /\ TimerInv'
    BY <2>1, StartLockedOK
  <2>3. Asked(IF TRUE THEN "start" ELSE "stop")
    BY <2>1
  <2>4. /\ IntentInv' /\ manualOverride' \in BOOLEAN /\ manualRun' \in BOOLEAN
        /\ manualUntil' \in Instants /\ intent' \in {"none", "start", "stop"}
    BY <2>1, <2>2, <2>3, OverrideOK
  <2> QED
    BY <1>0, <2>1, <2>2, <2>4 DEF ManagerInv, TypeOK, LockedTypes
<1>3. CASE Stop
  <2>1. /\ SetManualOverride(FALSE) /\ StopLocked /\ Asked("stop")
        /\ UNCHANGED <<now, config, phase, timer, active, dropped,
                       dhtOutputDropped, saves, saving>>
        /\ autoStopped' = FALSE
    BY <1>3 DEF Stop
  <2>2. LockedTypes' /\ ~running' /\ RunInv' /\ TimerInv'
    BY <2>1, StopLockedOK
  <2>3. Asked(IF FALSE THEN "start" ELSE "stop")
    BY <2>1
  <2>4. /\ IntentInv' /\ manualOverride' \in BOOLEAN /\ manualRun' \in BOOLEAN
        /\ manualUntil' \in Instants /\ intent' \in {"none", "start", "stop"}
    BY <2>1, <2>2, <2>3, OverrideOK
  <2> QED
    BY <1>0, <2>1, <2>2, <2>4 DEF ManagerInv, TypeOK, LockedTypes
<1>4. CASE ScheduleLoop \/ SettingsReconcile
  <2>1. /\ Reconcile /\ saving' \in BOOLEAN
        /\ UNCHANGED <<now, config, active, dropped, dhtOutputDropped, saves,
                       intent, autoStopped>>
    BY <1>0, <1>4 DEF ScheduleLoop, SettingsReconcile, Reconcile, TypeOK
  <2> QED
    BY <1>0, <2>1, ReconcileOK DEF ManagerInv, TypeOK, LockedTypes
<1>5. ASSUME NEW c \in Configs, SaveSettings(c)
      PROVE  ManagerInv'
  <2>1. /\ config' = c /\ saves' \in Nat /\ saving' = TRUE
        /\ intent' = "none" /\ autoStopped' = FALSE
        /\ UNCHANGED <<now, running, stop, autoStopAt, manualOverride, manualRun,
              manualUntil, open, phase, active, dropped, dhtOutputDropped, timer>>
    BY <1>0, <1>5 DEF SaveSettings, TypeOK
  <2>2. RunInv' /\ TimerInv'
    BY <1>0, <2>1 DEF RunInv, TimerInv, NoOrphanRun
  <2>3. IntentInv'
    BY <2>1 DEF IntentInv, ManualPrecedence
  <2> QED
    BY <1>0, <2>1, <2>2, <2>3 DEF ManagerInv, TypeOK
<1>6. ASSUME NEW r \in Runs, TimerFires(r) \/ TimerCancelled(r)
      PROVE  ManagerInv'
  <2>1. UNCHANGED <<now, config, running, stop, autoStopAt, manualOverride,
              manualRun, manualUntil, open, phase, active, dropped,
              dhtOutputDropped, saves, saving, intent, autoStopped>>
    BY <1>6 DEF TimerFires, TimerCancelled
  <2>2. /\ timer' \in [Runs -> Timers]
        /\ \A q \in Runs \ {r} : timer'[q] = timer[q]
        /\ timer[r].state # "none"
        /\ timer'[r].state # "none" => /\ timer'[r].at = timer[r].at
                                       /\ ~Before(now, timer[r].at)
    BY <1>0, <1>6 DEF TimerFires, TimerCancelled, TypeOK, Timers, NoTimer
  <2>3. RunInv'
    BY <1>0, <2>1, <2>2 DEF RunInv, NoOrphanRun
  <2>4. TimerInv'
    BY <1>0, <2>1, <2>2 DEF TimerInv
  <2>5. IntentInv'
    BY <1>0, <2>1 DEF IntentInv, ManualPrecedence
  <2> QED
    BY <1>0, <2>1, <2>2, <2>3, <2>4, <2>5 DEF ManagerInv, TypeOK
<1>7. ASSUME NEW r \in Runs, AutoStop(r)
      PROVE  ManagerInv'
  <2>1. /\ timer' = [timer EXCEPT ![r] = NoTimer]
        /\ UNCHANGED <<now, config, manualOverride, manualUntil, phase, active,
              dropped, dhtOutputDropped, saves, saving>>
    BY <1>7 DEF AutoStop
  <2>2. CASE OwnRun(r)
    <3>1. /\ StopLocked /\ manualRun' = FALSE /\ autoStopped' = TRUE
          /\ intent' = IF intent = "start" THEN "stop" ELSE intent
      BY <1>7, <2>2 DEF AutoStop
    <3>2. LockedTypes' /\ ~running' /\ RunInv' /\ TimerInv'
      BY <2>1, <3>1, StopLockedOK
    <3>3. intent' \in {"none", "stop"}
      BY <1>0, <3>1 DEF TypeOK
    <3>4. IntentInv'
      BY <1>0, <2>1, <3>1, <3>2, <3>3 DEF IntentInv, ManualPrecedence
    <3> QED
      BY <1>0, <2>1, <3>1, <3>2, <3>3, <3>4 DEF ManagerInv, TypeOK, LockedTypes
  <2>3. CASE ~OwnRun(r)
    <3>1. UNCHANGED <<running, stop, autoStopAt, manualRun, open, intent,
                      autoStopped>>
      BY <1>7, <2>3 DEF AutoStop
    <3>2. /\ timer' \in [Runs -> Timers]
          /\ \A q \in Runs : timer'[q] \in {timer[q], NoTimer}
      BY <1>0, <2>1 DEF TypeOK, Timers, NoTimer
    <3>3. RunInv'
      BY <1>0, <2>1, <3>1, <3>2 DEF RunInv, NoOrphanRun, NoTimer
    <3>4. TimerInv'
      BY <1>0, <2>1, <3>1, <3>2 DEF TimerInv, NoTimer
    <3>5. IntentInv'
      BY <1>0, <2>1, <3>1 DEF IntentInv, ManualPrecedence
    <3> QED
      BY <1>0, <2>1, <3>1, <3>2, <3>3, <3>4, <3>5 DEF ManagerInv, TypeOK
  <2> QED
    BY <2>2, <2>3
<1>8. ASSUME NEW r \in Runs,
             \/ CrawlPublishes(r) \/ DropResult(r)
             \/ CrawlReturns(r) \/ CrawlEnds(r)
      PROVE  ManagerInv'
  <2>1. /\ UNCHANGED <<now, running, stop, autoStopAt, manualOverride, manualRun,
              manualUntil, open, timer, config, saves, saving, intent, autoStopped>>
    BY <1>8 DEF CrawlPublishes, DropResult, CrawlReturns, CrawlEnds
  <2>2. /\ phase' \in [Runs -> Phases]
        /\ \A q \in Runs : phase'[q] = "none" => phase[q] = "none"
    BY <1>0, <1>8 DEF CrawlPublishes, DropResult, CrawlReturns, CrawlEnds, TypeOK,
                      Phases
  <2>3. active' \in Runs \cup {0}
    BY <1>0, <1>8 DEF CrawlPublishes, DropResult, CrawlReturns, CrawlEnds, TypeOK,
                      Unpublished
  <2>4. dropped' \in [Runs -> Nat] /\ dhtOutputDropped' \in Nat
    BY <1>0, <1>8 DEF CrawlPublishes, DropResult, CrawlReturns, CrawlEnds, TypeOK
  <2> QED
    BY <1>0, <2>1, <2>2, <2>3, <2>4, CrawlOK DEF ManagerInv, TypeOK, LockedTypes
<1>9. CASE Tick
  <2>1. /\ now' = MinuteAfter(now)
        /\ UNCHANGED <<running, stop, autoStopAt, manualOverride, manualRun,
              manualUntil, open, phase, active, dropped, dhtOutputDropped, timer,
              config, saves, saving>>
    BY <1>9 DEF Tick
  <2>2. /\ now' \in Instants /\ now'[1] > 0
        /\ \A u \in Instants : ~Before(now, u) => ~Before(now', u)
    BY <1>0, <2>1, InstantTypes DEF TypeOK
  <2>3. RunInv'
    BY <1>0, <2>1 DEF RunInv, NoOrphanRun
  <2>4. TimerInv'
    <3>1. \A r \in Runs : timer[r].at \in Instants
      BY <1>0 DEF TypeOK, Timers
    <3> QED
      BY <1>0, <2>1, <2>2, <3>1 DEF TimerInv
  <2>5. /\ intent' \in {"none", "start", "stop"} /\ autoStopped' \in BOOLEAN
        /\ IntentInv'
    <3>1. CASE ShouldRun(MinuteAfter(now), config.window)
                  # ShouldRun(now, config.window)
      <4>1. intent' = "none" /\ autoStopped' = FALSE
        BY <1>9, <3>1 DEF Tick
      <4> QED
        BY <4>1 DEF IntentInv, ManualPrecedence
    <3>2. CASE ShouldRun(MinuteAfter(now), config.window)
                  = ShouldRun(now, config.window)
      <4>1. UNCHANGED <<intent, autoStopped>>
        BY <1>9, <3>2 DEF Tick
      <4>2. Valid(config.window) =>
              NextChange(now', config.window) = NextChange(now, config.window)
        BY <1>0, <2>1, <3>2, ConfigFacts, NextChangeStable DEF TypeOK, IntentInv
      <4> QED
        BY <1>0, <2>1, <4>1, <4>2 DEF IntentInv, ManualPrecedence, TypeOK
    <3> QED
      BY <3>1, <3>2
  <2> QED
    BY <1>0, <2>1, <2>2, <2>3, <2>4, <2>5 DEF ManagerInv, TypeOK
<1> QED
  BY <1>1, <1>2, <1>3, <1>4, <1>5, <1>6, <1>7, <1>8, <1>9 DEF Next

-----------------------------------------------------------------------------
(***************************************************************************)
(* The theorems                                                            *)
(***************************************************************************)

\* The inductive invariant holds in every reachable state.
THEOREM ManagerInvHolds == Spec => []ManagerInv
<1>1. Init => ManagerInv
  <2> SUFFICES ASSUME Init PROVE ManagerInv
    OBVIOUS
  <2>1. NoInstant \in Instants /\ <<1, 0>> \in Instants
    BY ScheduleAssumption DEF ScheduleAssumption, NoInstant, Instants, Minutes
  <2>2. timer \in [Runs -> Timers] /\ \A r \in Runs : timer[r].state = "none"
    BY <2>1 DEF Init, NoTimer, Timers
  <2>3. \A r \in Runs : r # 0
    BY DEF Runs
  <2>4. RunInv /\ TimerInv /\ IntentInv
    BY <2>2, <2>3 DEF Init, RunInv, NoOrphanRun, TimerInv, IntentInv,
                      ManualPrecedence
  <2>5. phase \in [Runs -> Phases] /\ dropped \in [Runs -> Nat]
    BY DEF Init, Phases
  <2>6. TypeOK
    BY <2>1, <2>2, <2>5 DEF Init, TypeOK
  <2> QED
    BY <2>4, <2>6 DEF ManagerInv, Init
<1>2. ManagerInv /\ [Next]_vars => ManagerInv'
  BY ManagerStep
<1> QED
  BY <1>1, <1>2, PTL DEF Spec

\* Type correctness of the manager.
THEOREM ManagerTypeCorrect == Spec => []TypeOK
  BY ManagerInvHolds, PTL DEF ManagerInv

\* No crawl goroutine is left behind that nobody can stop, whatever the order
\* of commands, schedule changes and timers.
THEOREM NoOrphanCorrect == Spec => []NoOrphanRun
  BY ManagerInvHolds, PTL DEF ManagerInv, RunInv

\* With a valid window, a manual command has precedence up to the next change of
\* the window.
THEOREM ManualPrecedenceCorrect == Spec => []ManualPrecedence
  BY ManagerInvHolds, PTL DEF ManagerInv, IntentInv

\* The end of an override, which needs a valid window, is always the first change
\* of the window.
THEOREM ChangesCorrect == Spec => []ChangesSound
<1>1. ManagerInv => ChangesSound
  BY ScheduleSound, ConfigFacts DEF ManagerInv, ChangesSound, TypeOK
<1> QED
  BY <1>1, ManagerInvHolds, PTL

\* A timer never stops the run of somebody else.
THEOREM AutoStopCorrect == Spec => AutoStopOnTime
<1>1. ManagerInv /\ [Next]_vars =>
        [running /\ ~running' /\ timer' # timer
            => autoStopAt # NoInstant /\ ~Before(now, autoStopAt)]_vars
  <2> SUFFICES ASSUME ManagerInv, Next, running, ~running', timer' # timer
               PROVE  autoStopAt # NoInstant /\ ~Before(now, autoStopAt)
    OBVIOUS
  <2> USE DEF manager, override, crawls, settings, history
  <2>1. \A r \in Runs : ~TimerFires(r) /\ ~TimerCancelled(r)
    BY DEF TimerFires, TimerCancelled
  <2>2. ~Start /\ ~Stop /\ ~Tick /\ \A c \in Configs : ~SaveSettings(c)
    BY DEF Start, StartLocked, MayStart, Stop, Tick, SaveSettings
  <2>3. ~Reconcile
    BY DEF Reconcile, StartLocked, MayStart
  <2>4. \A r \in Runs : /\ ~CrawlPublishes(r) /\ ~DropResult(r)
                        /\ ~CrawlReturns(r) /\ ~CrawlEnds(r)
    BY DEF CrawlPublishes, DropResult, CrawlReturns, CrawlEnds
  <2>5. PICK r \in Runs : AutoStop(r)
    BY <2>1, <2>2, <2>3, <2>4 DEF Next, ScheduleLoop, SettingsReconcile
  <2>6. timer[r].state = "fired" /\ stop = r
    BY <2>5 DEF AutoStop, OwnRun
  <2> QED
    BY <2>6 DEF ManagerInv, TimerInv
<1> QED
  BY <1>1, ManagerInvHolds, PTL DEF Spec, AutoStopOnTime

\* Without a schedule, only the operator starts a crawler that its timer has
\* stopped: the reconciliations that keep coming, from the ticker and from the
\* settings page, leave it alone.
THEOREM AutoStopSticksCorrect == Spec => []AutoStopSticks
<1> USE DEF manager, override, crawls, settings, history
<1>1. Init => AutoStopSticks
  BY DEF Init, AutoStopSticks
<1>2. AutoStopSticks /\ [Next]_vars => AutoStopSticks'
  <2> SUFFICES ASSUME AutoStopSticks, [Next]_vars PROVE AutoStopSticks'
    OBVIOUS
  <2>1. CASE UNCHANGED vars
    BY <2>1 DEF vars, AutoStopSticks
  <2>2. CASE Start \/ Stop \/ \E c \in Configs : SaveSettings(c)
    BY <2>2 DEF Start, Stop, SaveSettings, AutoStopSticks
  <2>3. CASE ScheduleLoop \/ SettingsReconcile
    <3>1. Reconcile /\ UNCHANGED <<config, autoStopped>>
      BY <2>3 DEF ScheduleLoop, SettingsReconcile, Reconcile
    <3>2. ~config.enabled => UNCHANGED running
      BY <3>1 DEF Reconcile, ScheduleOn
    <3> QED
      BY <3>1, <3>2 DEF AutoStopSticks
  <2>4. ASSUME NEW r \in Runs, AutoStop(r)
        PROVE  AutoStopSticks'
    <3>1. CASE OwnRun(r)
      <4>1. StopLocked
        BY <2>4, <3>1 DEF AutoStop
      <4> QED
        BY <4>1 DEF StopLocked, AutoStopSticks
    <3>2. CASE ~OwnRun(r)
      BY <2>4, <3>2 DEF AutoStop, AutoStopSticks
    <3> QED
      BY <3>1, <3>2
  <2>5. ASSUME NEW r \in Runs,
               \/ TimerFires(r) \/ TimerCancelled(r) \/ CrawlPublishes(r)
               \/ DropResult(r) \/ CrawlReturns(r) \/ CrawlEnds(r)
        PROVE  AutoStopSticks'
    BY <2>5 DEF TimerFires, TimerCancelled, CrawlPublishes, DropResult,
                CrawlReturns, CrawlEnds, AutoStopSticks
  <2>6. CASE Tick
    BY <2>6 DEF Tick, AutoStopSticks
  <2> QED
    BY <2>1, <2>2, <2>3, <2>4, <2>5, <2>6 DEF Next
<1> QED
  BY <1>1, <1>2, PTL DEF Spec

-----------------------------------------------------------------------------
(***************************************************************************)
(* The counter of dropped results                                          *)
(***************************************************************************)
Ended == {r \in Runs : phase[r] = "ended"}

\* The total has only what ended runs dropped, and the run that Status sees has
\* not ended: a run is in one of the two at most.
CountInv ==
    /\ dhtOutputDropped <= Cardinality(DroppedIn(Ended))
    /\ active # 0 => phase[active] \in {"active", "stopping"}

\* What a dropped result is.
LEMMA DroppedIs ==
    ASSUME NEW R, NEW x
    PROVE  x \in DroppedIn(R) <=> \E r \in R : \E i \in 1 .. dropped[r] : x = <<r, i>>
  BY DEF DroppedIn

\* The results that one run dropped are as many as its counter says.
LEMMA RunDropped ==
    ASSUME TypeOK, NEW r \in Runs
    PROVE  IsFiniteSet(DroppedIn({r})) /\ Cardinality(DroppedIn({r})) = dropped[r]
<1> DEFINE S == {r} \X (1 .. dropped[r])
<1>1. dropped[r] \in Nat
  BY DEF TypeOK
<1>2. IsFiniteSet(1 .. dropped[r]) /\ Cardinality(1 .. dropped[r]) = dropped[r]
  BY <1>1, FS_Interval
<1>3. IsFiniteSet({r}) /\ Cardinality({r}) = 1
  BY FS_Singleton
<1>4. IsFiniteSet(S) /\ Cardinality(S) = 1 * dropped[r]
  BY <1>2, <1>3, FS_Product
<1>5. \A x : x \in DroppedIn({r}) <=> x \in S
  BY DroppedIs
<1>6. 1 * dropped[r] = dropped[r]
  BY <1>1
<1> HIDE DEF S
<1>7. DroppedIn({r}) = S
  BY <1>5
<1> QED
  BY <1>4, <1>6, <1>7

\* A set of runs has dropped finitely many results.
LEMMA DroppedFinite ==
    ASSUME TypeOK, NEW R \in SUBSET Runs
    PROVE  IsFiniteSet(DroppedIn(R)) /\ Cardinality(DroppedIn(R)) \in Nat
<1>1. IsFiniteSet(R)
  <2>1. IsFiniteSet(Runs)
    BY ManagerAssumption, FS_Interval DEF ManagerAssumption, Runs
  <2> QED
    BY <2>1, FS_Subset
<1> DEFINE All == {DroppedIn({r}) : r \in R}
           f == [r \in R |-> DroppedIn({r})]
<1>2. IsFiniteSet(All)
  <2>1. f \in Surjection(R, All)
    BY DEF Surjection
  <2> QED
    BY <1>1, <2>1, FS_Surjection
<1>3. \A T \in All : IsFiniteSet(T)
  BY RunDropped
<1>4. IsFiniteSet(UNION All)
  BY <1>2, <1>3, FS_UNION
<1>5. DroppedIn(R) = UNION All
  <2>1. \A x : x \in DroppedIn(R) <=> \E r \in R : x \in DroppedIn({r})
    <3>1. \A r, x : x \in DroppedIn({r}) <=> \E i \in 1 .. dropped[r] : x = <<r, i>>
      BY DroppedIs
    <3>2. \A x : x \in DroppedIn(R)
                    <=> \E r \in R : \E i \in 1 .. dropped[r] : x = <<r, i>>
      BY DroppedIs
    <3> QED
      BY <3>1, <3>2
  <2> HIDE DEF All
  <2>2. \A x : x \in UNION All <=> \E r \in R : x \in DroppedIn({r})
    BY DEF All
  <2> QED
    BY <2>1, <2>2
<1> QED
  BY <1>4, <1>5, FS_CardinalityType

\* A run more adds what it dropped.
LEMMA DroppedAdd ==
    ASSUME TypeOK, NEW R \in SUBSET Runs, NEW r \in Runs, r \notin R
    PROVE  Cardinality(DroppedIn(R \cup {r})) = Cardinality(DroppedIn(R)) + dropped[r]
<1>1. DroppedIn(R \cup {r}) = DroppedIn(R) \cup DroppedIn({r})
  <2>1. \A x : x \in DroppedIn(R \cup {r}) <=> x \in DroppedIn(R) \cup DroppedIn({r})
    BY DroppedIs
  <2> QED
    BY <2>1
<1>2. DroppedIn(R) \cap DroppedIn({r}) = {}
  <2>1. \A x : ~(x \in DroppedIn(R) /\ x \in DroppedIn({r}))
    BY DroppedIs
  <2> QED
    BY <2>1
<1>3. dropped[r] \in Nat
  BY DEF TypeOK
<1>4. /\ IsFiniteSet(DroppedIn(R)) /\ Cardinality(DroppedIn(R)) \in Nat
      /\ IsFiniteSet(DroppedIn({r})) /\ Cardinality(DroppedIn({r})) = dropped[r]
  BY DroppedFinite, RunDropped
<1>5. Cardinality(DroppedIn(R) \cup DroppedIn({r})) =
         Cardinality(DroppedIn(R)) + Cardinality(DroppedIn({r})) - Cardinality({})
  BY <1>2, <1>4, FS_Union
<1>6. Cardinality({}) = 0
  BY FS_EmptySet
<1>7. Cardinality(DroppedIn(R \cup {r})) = Cardinality(DroppedIn(R)) + dropped[r] - 0
  BY <1>1, <1>4, <1>5, <1>6, Zenon
<1> QED
  BY <1>3, <1>4, <1>7

\* No step counts a run twice.
LEMMA CountStep ==
    ASSUME ManagerInv, CountInv, [Next]_vars
    PROVE  CountInv'
<1>0. TypeOK
  BY DEF ManagerInv
<1> USE DEF manager, override, crawls, settings, history, CountInv
<1> DEFINE OnlyStarts ==
             \A r \in Runs : IF phase[r] = "none" THEN phase'[r] # "ended"
                            ELSE phase'[r] = phase[r]
<1>1. ASSUME UNCHANGED <<active, dropped, dhtOutputDropped>>, OnlyStarts
      PROVE  CountInv'
  <2>0. \A r \in Runs : phase'[r] = "ended" <=> phase[r] = "ended"
    BY <1>1
  <2>1. Ended' = Ended
    BY <2>0, Zenon DEF Ended
  <2>2. DroppedIn(Ended)' = DroppedIn(Ended)
    BY <1>1, <2>1 DEF DroppedIn
  <2>3. active' # 0 => phase'[active'] \in {"active", "stopping"}
    BY <1>0, <1>1 DEF TypeOK
  <2> QED
    BY <1>0, <1>1, <2>2, <2>3
<1>2. ASSUME StartLocked
      PROVE  OnlyStarts
  BY <1>0, <1>2 DEF StartLocked, Unused, TypeOK
<1>3. CASE Start
  BY <1>1, <1>2, <1>3 DEF Start
<1>4. CASE ScheduleLoop \/ SettingsReconcile
  <2>1. Reconcile
    BY <1>4 DEF ScheduleLoop, SettingsReconcile
  <2>2. StartLocked \/ UNCHANGED phase
    BY <2>1 DEF Reconcile
  <2> QED
    BY <1>1, <1>2, <2>1, <2>2 DEF Reconcile
<1>5. CASE \/ Stop \/ Tick \/ UNCHANGED vars
           \/ \E c \in Configs : SaveSettings(c)
           \/ \E r \in Runs : TimerFires(r) \/ TimerCancelled(r) \/ AutoStop(r)
  <2>1. UNCHANGED <<phase, active, dropped, dhtOutputDropped>>
    BY <1>5 DEF Stop, Tick, vars, SaveSettings, TimerFires, TimerCancelled, AutoStop
  <2>2. OnlyStarts
    BY <2>1
  <2> QED
    BY <1>1, <2>1, <2>2
<1>6. ASSUME NEW r \in Runs, CrawlPublishes(r) \/ CrawlReturns(r)
      PROVE  CountInv'
  <2>1. UNCHANGED <<dropped, dhtOutputDropped>>
    BY <1>6 DEF CrawlPublishes, CrawlReturns
  <2>2. Ended' = Ended
    BY <1>0, <1>6 DEF CrawlPublishes, CrawlReturns, Ended, TypeOK
  <2>3. DroppedIn(Ended)' = DroppedIn(Ended)
    BY <2>1, <2>2 DEF DroppedIn
  <2>4. active' # 0 => phase'[active'] \in {"active", "stopping"}
    BY <1>0, <1>6 DEF CrawlPublishes, CrawlReturns, TypeOK
  <2> QED
    BY <2>1, <2>3, <2>4
<1>7. ASSUME NEW r \in Runs, DropResult(r)
      PROVE  CountInv'
  <2>1. /\ UNCHANGED <<phase, active, dhtOutputDropped>>
        /\ \A q \in Runs : q # r => dropped'[q] = dropped[q]
        /\ r \notin Ended
    BY <1>0, <1>7 DEF DropResult, TypeOK, Ended
  <2>2. Ended' = Ended
    BY <2>1 DEF Ended
  <2>3. DroppedIn(Ended)' = DroppedIn(Ended)
    <3>1. \A q \in Ended : dropped'[q] = dropped[q]
      BY <2>1 DEF Ended
    <3> QED
      BY <2>2, <3>1 DEF DroppedIn
  <2> QED
    BY <2>1, <2>3
<1>8. ASSUME NEW r \in Runs, CrawlEnds(r)
      PROVE  CountInv'
  <2>1. /\ UNCHANGED dropped /\ phase[r] = "stopping"
        /\ phase' = [phase EXCEPT ![r] = "ended"]
        /\ dhtOutputDropped' = IF active = r THEN dhtOutputDropped + dropped[r]
                               ELSE dhtOutputDropped
        /\ active' = IF active = r THEN 0 ELSE active
    BY <1>8 DEF CrawlEnds, Unpublished
  <2>2. Ended' = Ended \cup {r} /\ r \notin Ended /\ Ended \in SUBSET Runs
    BY <1>0, <2>1 DEF Ended, TypeOK
  <2>3. DroppedIn(Ended)' = DroppedIn(Ended \cup {r})
    BY <2>1, <2>2 DEF DroppedIn
  <2>4. Cardinality(DroppedIn(Ended \cup {r})) = Cardinality(DroppedIn(Ended)) + dropped[r]
    BY <1>0, <2>2, DroppedAdd
  <2>5. /\ dropped[r] \in Nat /\ dhtOutputDropped \in Nat
        /\ Cardinality(DroppedIn(Ended)) \in Nat
    BY <1>0, <2>2, DroppedFinite DEF TypeOK
  <2>6. active' # 0 => phase'[active'] \in {"active", "stopping"}
    BY <1>0, <2>1 DEF TypeOK
  <2>7. dhtOutputDropped' <= Cardinality(DroppedIn(Ended)')
    BY <2>1, <2>3, <2>4, <2>5
  <2> QED
    BY <2>6, <2>7
<1> QED
  BY <1>3, <1>4, <1>5, <1>6, <1>7, <1>8 DEF Next

\* For any number of runs, overlapping in any way, Status counts no dropped
\* result twice.
THEOREM NoDoubleCountCorrect == Spec => []NoDoubleCount
<1>1. Init => CountInv
  <2> SUFFICES ASSUME Init PROVE CountInv
    OBVIOUS
  <2>1. Ended = {}
    BY DEF Init, Ended
  <2>2. DroppedIn({}) = {}
    BY DEF DroppedIn
  <2>3. Cardinality({}) = 0
    BY FS_EmptySet
  <2> QED
    BY <2>1, <2>2, <2>3 DEF Init, CountInv
<1>2. ManagerInv /\ CountInv /\ [Next]_vars => CountInv'
  BY CountStep
<1>3. ManagerInv /\ CountInv => NoDoubleCount
  <2> SUFFICES ASSUME TypeOK, CountInv PROVE NoDoubleCount
    BY DEF ManagerInv
  <2> DEFINE R == IF active = 0 THEN Ended ELSE Ended \cup {active}
  <2>1. Ended \in SUBSET Runs /\ R \in SUBSET Runs
    BY DEF Ended, TypeOK
  <2>2. /\ Cardinality(DroppedIn(Ended)) \in Nat
        /\ dhtOutputDropped \in Nat /\ dropped \in [Runs -> Nat]
    BY <2>1, DroppedFinite DEF TypeOK
  <2>3. Reported <= Cardinality(DroppedIn(R))
    <3>1. CASE active = 0
      BY <2>2, <3>1 DEF CountInv, Reported
    <3>2. CASE active # 0
      <4>1. active \in Runs /\ active \notin Ended
        BY <3>2 DEF TypeOK, CountInv, Ended
      <4>2. Cardinality(DroppedIn(R)) = Cardinality(DroppedIn(Ended)) + dropped[active]
        BY <2>1, <3>2, <4>1, DroppedAdd
      <4> QED
        BY <2>2, <3>2, <4>1, <4>2 DEF CountInv, Reported
    <3> QED
      BY <3>1, <3>2
  <2>4. Cardinality(DroppedIn(R)) <= Cardinality(DroppedIn(Runs))
    <3>1. DroppedIn(R) \subseteq DroppedIn(Runs)
      BY <2>1 DEF DroppedIn
    <3> QED
      BY <3>1, DroppedFinite, FS_Subset
  <2>5. /\ Reported \in Nat /\ Cardinality(DroppedIn(R)) \in Nat
        /\ Cardinality(DroppedIn(Runs)) \in Nat
    <3>1. active # 0 => dropped[active] \in Nat
      BY DEF TypeOK
    <3> QED
      BY <2>1, <2>2, <3>1, DroppedFinite DEF Reported
  <2> HIDE DEF R
  <2> QED
    BY <2>3, <2>4, <2>5 DEF NoDoubleCount
<1> QED
  BY <1>1, <1>2, <1>3, ManagerInvHolds, PTL DEF Spec

=============================================================================
