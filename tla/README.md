# CCMS in TLA+

CCMS monitors CCTV cameras, network video recorders (NVRs) and switches. Celery
workers check every device a few times a minute, PostgreSQL holds the truth, and
a chain of decisions turns check results into device states, states into alerts,
and alerts into messages to people. No two links of that chain run under the
same transaction, and any of them may die. Around the chain, nightly and monthly
tasks keep the tables small and report on them, and an API with a dashboard
shows and changes them. This project models the system, checks it with TLC and
proves the parts that matter most with TLAPS.

Paths below are relative to `backend/ccms/` unless they say otherwise.

## 1. Inventory

| Part | State it keeps | Operations | Talks to |
|---|---|---|---|
| Scheduler (`scheduler/dispatch.py`, `celery_app.py`) | due times on `devices` | `enqueue_due_checks` every 15 s | reads windows, puts check jobs on the broker |
| Maintenance windows (`evaluator/maintenance.py`, `api/routers/admin.py`) | `maintenance_windows` | create, delete, `is_device_in_maintenance` | asked by the scheduler when a job is enqueued |
| Check workers (`checkers/tasks.py`) | `check_results` | `_run_and_record` | checkers, evaluator, dashboard push, alert engine |
| Checkers (`checkers/*.py`) | hash and reference files of image checks | ping, RTSP, NVR, ONVIF, image | the network, the simulator |
| State evaluator (`evaluator/service.py`, `state_machine.py`) | `devices.current_state` and two counters, `status_events` | `evaluate`, `next_state` | called under the device's row lock |
| Alert engine (`alerts/engine.py`, `storm.py`) | `alerts` | `handle_transition`, `group_id_for` | notification queue |
| Escalation (`alerts/escalation.py`) | `escalations` | `check_escalations` every 60 s | reads alerts, notification queue |
| Alerts API (`api/routers/alerts.py`) | `alerts.state`, `acked_by`, `acked_at` | `acknowledge_alert` | operators |
| Notifications (`notifications/dispatcher.py`) | `notification_log` | `send_notification`, Celery retry | e-mail, SMS, WhatsApp adapters |
| Retention (`reports/tasks.py`) | `check_results`, `check_results_daily` | `rollup_and_retire` at 02:30 | - |
| Reports (`reports/uptime.py`, `reports/tasks.py`) | none | `compute_fleet_uptime`, monthly mail | reads `status_events` |
| Partitions (`scheduler/partitions.py`) | partitions of `check_results` | `ensure_partitions` at 02:00 | - |
| Flapping and disk forecast (`evaluator/flapping.py`) | `alerts` | sweep every 300 s | reads `status_events`, `check_results` |
| Realtime (`realtime.py`, `api/routers/status.py`, `frontend/src/api/ws.ts`) | Redis channel, browser state | publish, subscribe, poll | workers to dashboards |
| Devices API and live view (`api/routers/devices.py`, `live/`) | `devices`, media server paths | create, update, deactivate, import | MediaMTX |
| Login, users, audit (`api/routers/auth.py`, `admin.py`, `audit/`) | `users`, `audit_log` | login with lockout, administration | browsers |
| Simulator (`simulator/ccms_sim`) | camera feeds, NVR state | fail, recover, set | checkers |
| Heartbeat, adapters, schemas, pages, scripts | | | |

What makes each hard, and what makes it correct:

* **Scheduler.** Jobs are sent before the due times are committed; sweeps overlap
  and die. Correct: no due check starves, and every repetition has a reason.
* **Evaluator and workers.** Checks of one device land in several processes at
  once; counters must not be updated from a stale row, transactions must not
  deadlock, and a worker may die at every step. Correct: the state shown is what
  the check results, in order of commit, say; events form a chain; every outage
  is ended by its own recovery; only a crash separates an event from its alert.
* **Alert engine.** Handlers are not serialized, look up sibling alerts before
  they commit, and enqueue messages before they commit. Correct: one alert per
  event that deserves one; messages if and only if an alert; few groups a storm.
* **Escalation.** Sweeps overlap, die between commit and page, and race
  acknowledgements. Correct: tiers fire in order, seldom twice, and in the end;
  acknowledgement stops them.
* **Notifications.** Retries, worker deaths, and jobs that outrun the commit of
  their alert. Correct: numbered log, nothing sent after success, five attempts
  unless there is a reason to give up, and no more than five.
* **Retention and partitions.** Three transactions a night that overlap, start
  late or die; partitions that cannot be created. Correct: nothing young is
  deleted, nothing counted twice, no day lost, and partitions ahead of need.
* **Reports.** Outages that touch the ends of a period, are open, or suppressed.
  Correct: the downtime reported is the downtime there was.
* **Flapping.** Check-then-add without a lock, in overlapping sweeps. Correct: few
  alerts in a cooldown.
* **Dashboard.** Pushes without delivery guarantee, a socket that breaks, fetches
  that overlap changes. Correct: the page is right in the end.
* **Devices API and live view.** The media server is called after the commit, may
  fail, and forgets all at a restart; logins are set and cleared. Correct: paths
  follow devices.
* **Login, users, audit.** Unlocked counter, tokens that outlive rights, an audit
  row in a transaction of its own. Correct: exact lockout, rights of the moment,
  a complete trail, but for what overlaps or dies.
* **Checkers.** A check takes several looks while the world and the settings
  change. Correct: no verdict without a moment that deserves it.

The hazards behind this list are in `PROJECT.json` with the line where each bites
and the properties that cover it.

## 2. Modules

```
Debounce <- CheckHistory <- Ledger            (abstract: state = verdict on history)
                 ^             ^  Promise == INSTANCE Ledger
                 +--------- Evaluator     <- MCEvaluator <- MCProgress
                               ^
                       EvaluatorProofs

AlertEngine    <- MCAlertEngine,  AlertEngineProofs
Escalation     <- MCEscalation,   EscalationProofs

Notifications, Scheduler, Dashboard, Escalation (by MCEscalation) <- MCOperations
Detection, Partitions (by MCPartitions), Uptime, Flapping,
Accounts, LiveView, Retention                             <- MCRecords

MCOperations, EscalationProofs, SumLemmas                 <- OperationsProofs
Retention      <- RetentionProofs
Accounts       <- AccountsProofs
MCRecords, RetentionProofs, AccountsProofs, SumLemmas     <- RecordsProofs
```

**Debounce** is `next_state` and the row arithmetic of `evaluate`. **CheckHistory**
is a second, independent definition of debouncing: it looks at the whole list of
results and never counts (an outage begins where `DownThreshold` failures in a row
end, is over where `UpThreshold` successes in a row end, a maintenance-tagged
result forgets all). **Ledger** is the abstract specification of the evaluator:
each device has a list of results and shows the verdict on it.

**Evaluator** is `_run_and_record` and what it calls. State: `row` (the evaluated
columns of `devices`), `results`, `events`, `handed` (events that reached the
alert engine; it exists in the model only), `rowLock`, the jobs on the broker, and per worker a program
counter, a job and a transaction. One action per step that others can observe:
`TakeJob` (34-36), `LockRow` (59-61: FOR UPDATE with `populate_existing`),
`Evaluate` (77), `Commit` (78), `HandleTransition` (80-84), and `Crash`. The
maintenance flag is the one of the moment of enqueueing. Results have no
timestamps; their order in `results` is that of the commits, which is also the
order in which a device's rows are locked.

**AlertEngine** starts where `Evaluator.Commit` ends: `StatusEvent` puts an event
in the hands of a handler, `Ignore` and `RaiseAlert` are the early returns and
the insert of `handle_transition`, `EnqueueNotification` is one turn of its loop,
`CommitAlert` its commit. The alert's `created` is the start of the handler's
transaction, as `now()` is in PostgreSQL. `seen`, the time of the lookup, is
there for the property only.

**Escalation** models a sweep as a process with local variables (`now`, the alerts
read, the tiers to fire, the users to page), one action per commit or job.
`acknowledge_alert` is two actions, the read and the write. `acks` keeps all
acknowledgements; the table keeps the last one.

**Notifications** models the life of the jobs of one alert. The alert's own
transaction is the variable `alert`; a log row can be written only if it is
`"committed"`, because `notification_log.alert_id` is a foreign key.

**Scheduler** models a sweep of `enqueue_due_checks` device by device and check by
check: the job is sent, with the maintenance tag of the windows of that moment,
and the due time, with its jitter, waits in the sweep's session until the sweep
commits. Administrators create and delete windows and switch devices off and on.

**Retention** models `rollup_and_retire` for one group of results (one device and
one check type; groups do not meet), with time in ticks and `DayLength` ticks a
day; `cutoff` is fixed when a run starts, as in the code.

**Partitions** has the months that have a partition, the rows of the default
partition, and the nightly task that wants four months in one transaction. A
statement of it is refused if the default partition holds rows of its month, and
whenever its parameters reach the server as parameters (`TakesParameters`, external),
which is what psycopg 3 makes of them; and one refused statement rolls all back.

**Uptime** lets a device change state at any tick, with the events the evaluator
would write, and computes `compute_device_uptime` and `device_history` on them;
`outOfOrder`, the ticks the device has really been down, is the reference. The
monthly report is a task with its recipients as local state.

**Flapping** is the sweep with its two halves (look, then commit) and the alerts
it has raised.

**Accounts** has login requests (read the row, verify, write the row back,
token and audit row), authorised requests (`get_current_user` and
`require_role` on the row of the moment), changes of users with the audit row in a
commit of its own, and deaths of handlers in between.

**LiveView** has the devices with their credentials, which PUT may set, change and
clear, the paths of the media server, and the requests and the resynchronisation
script that edit them, one action per commit and per call.

**Dashboard** has the versions of the database that each part knows: what was
published, what is on the socket, what the two queries of a fetch have read, and
what the page shows. A push makes the query client cancel the fetch under way and
start another, except that it leaves a page's first load alone, while there is no
data yet (TanStack Query v5, which is outside the repository, so that this is
external); `passedOver` remembers such a push, and `missed` one that was lost.

**Detection** has the world (network, settings and credentials, picture, NVR,
simulator, the workers' host) and the checks that look at it, one action per look;
`well`, `ill` and `blind` record whether the world has deserved a verdict at some
moment of the check, or has kept it from looking (no `rtsp_url`, no ffprobe, no
socket), and exist for the property only.

Alerts cross from one module to the next as follows: `Evaluator.HandleTransition`
is `AlertEngine.StatusEvent`, `AlertEngine.CommitAlert` of a DOWN alert is
`Escalation.Raise`, and `AlertEngine.EnqueueNotification` and `Escalation.PageUser`
are `Notifications.Enqueue`. Checks cross from `Scheduler` to `Evaluator` as
enqueued jobs with their tag, and from `Detection` to `Evaluator` as outcomes. Each
module makes of the earlier ones only the assumption that such steps may happen
at any time and in any order.

**MCRecords** and **MCOperations** put components that share no variable side by side.
A behaviour of all of them is an interleaving of behaviours of each, so the
variable `focus` picks the one that moves: the product would have more states and
show nothing new. **MCProgress** runs two instances of `Evaluator`; its variable
`share` says how many results each device may get (the camera alone with four, or
the NVR with two and the camera with one), which bounds what is enqueued and
nothing that a worker does.

## 3. Runs

| Run | Instance | Question |
|---|---|---|
| `evaluator` | 1 device, 2 workers, 5 results, thresholds 3 and 2, OK / DEGRADED / FAIL, 1 crash | counters are the runs of results; events form a chain; alerts lost only by crashes; **implements Ledger** |
| `progress` | an NVR and a camera behind it, 2 workers, thresholds 1, 1 crash, fair | a suppressed outage is covered by an outage on record; every recovery ends its own outage; **every check ends** |
| `alert_engine` | an NVR with 1 event, a camera with 3, one with 1, 2 handlers, storm window 1, clock 2, 1 crash | alerts answer events one for one; pages match alerts; storms spread over at most as many groups as handlers |
| `records` | seven components side by side, see below | is what they observe and record true? |
| `operations` | delivery, dispatch, escalation and dashboard side by side, fair, see below | **every notification ends, no check starves, what falls due is escalated, the page catches up**; and the log tells the story, settled is final, nothing is given up early, repeats have a reason, escalation makes few duplicates, climbs in order, is stopped by acknowledgement and loses pages by crashes only |
| `maintenance` | as `evaluator`, OK / FAIL, 4 results, no crash | violation, see 5 |
| `recovery` | 2 alerts, 1 sweep | violation, see 5 |
| `delivery` | 2 notifications, no crash | violation, see 5 |
| `rollup` | retention, 1 run at a time, no crash | violation, see 5 |
| `partitions` | half a year | violation, see 5 |
| `dashboard` | 1 change, no failing fetch | violation, see 5 |
| `attempts` | 1 notification, no crash | violation, see 5 |

The instances of `records`: partitions from October to March with three months
ahead; two months of two ticks, one recipient, one lost report (`Uptime`); two
flapping sweeps, all limits 2; two accounts, two handlers, threshold 2, four
requests, one death (`Accounts`); a camera and a switch, two requests and the
script, two edits, two failures, one restart of the media server (`LiveView`); two
checks, two changes of the world, one control call at a time (`Detection`); three days of two
ticks, two runs, one crash (`Retention`). Those of `operations`: two notifications
with the shipped number of retries and one crash (`Notifications`); one NVR, pinged
every tick and examined every 2 with jitter 1, two sweeps, one death, one overlap, one
change (`Scheduler`); one CRITICAL alert, two tiers, two users, two sweeps, one
operator, clock 2, one crash (`Escalation`); two changes of state and two failing
fetches, from a page that is loaded or being loaded (`Dashboard`).

Why the bounds are enough. Five results with the shipped thresholds are one more
than an outage of three failures and the first of two recoveries need, so that
outage, interrupted recovery, completed recovery and re-entry from maintenance
all occur; where longer histories matter (`progress`: two outages, one of them
cut short by maintenance) the thresholds are 1. Two workers are all that can
meet at one row in a new way: one holds the lock, one waits; a third would wait,
too. Two handlers are enough to mint two groups for one storm; the bound in the
property is the number of handlers and not 2. Two sweeps overlap as sweeps do; a
sweep that overlaps three others needs three minutes for at most a few hundred
rows. In `Escalation` a tick is 30 minutes and a clock of 2 lets both tiers fall
due, with one tick of lateness; a second operator would acknowledge what is
acknowledged. Three days let a result become old, be rolled up,
and its daily row expire, while two runs are a night apart or concurrent. Half a
year that includes a new year shows the lookahead over its end. A third flapping
alert within a cooldown of two ticks is what `AlertsAreSpaced` forbids, and two
sweeps of three ticks have room for it. Two overlapping logins at threshold 2 hide
a wrong password and lock the account late. In `Detection`, overlap matters only
to image checks, which share files; so one worker has all queues and the other
the image queue. Two versions are enough for an old answer to arrive after a newer
push. For the
properties of section 4 the bounds do not matter at all.

Bounds are named constants (`MaxResults`, `MaxQueued`, `MaxCrashes`, `MaxClock`,
`MaxEvents`, `MaxCalls`, `MaxTurns` and so on) and appear as guards of the actions
they bound. Symmetry is used for workers, handlers, sweeps, editors and runs, and
never in a run with liveness. Deadlock is not checked where the clock, the
events or the bounds of the environment run out (`alert_engine`, `records`, `operations`,
`delivery`, `rollup`, `partitions`, `dashboard`, `attempts`); elsewhere a window or a sweep can
always take a step.

Every property of every passing run has a *mutant*: a definition next to the real
one that makes a plausible mistake (`>` for `>=`, no FOR UPDATE, ascending for
descending order, a commit that comes too early), with which TLC finds the
property violated. They are kept beside the definitions they falsify, are
introduced by "A plausible slip", and are used by nothing else.

### Fairness

* `Evaluator`: weak fairness of the steps of a worker that is running, and strong
  fairness of taking the row lock, since PostgreSQL queues the waiters of a row.
  None of taking jobs, windows, deactivation or crashes.
* `Escalation`: weak fairness of the clock and of the sweeps, which Celery beat
  starts every 60 seconds. None of operators, devices or crashes.
* `Notifications`: weak fairness of the workers; the adapters have timeouts. None
  of the alert's commit: a job ends even if its alert hangs.
* `Scheduler`: weak fairness of the steps of a sweep, which beat starts every 15
  seconds. None of windows, devices or deaths.
* `Dashboard`: weak fairness of the publishing worker, of the browser's timers and
  event loop (`NoticeClose`, `Invalidate`, `Poll`) and of a fetch under way, which
  ends with an answer or an error. None of changes, losses or reconnects.

## 4. Proofs

Every safety invariant that a passing run checks is also a theorem, and so is the
refinement. The theorems hold for every set of devices, workers, handlers,
accounts and notifications, every parent relation, all thresholds, windows,
intervals and retentions, and all bounds. Their assumptions are the named
`ASSUME`s of the modules: thresholds, intervals and cooldowns of at least 1,
natural bounds, parents that are devices, distinct null values, finite sets of
handlers and sweeps, tiers ordered by delay, at least one first administrator and,
for the live view, at least one device.

| Module | Theorems | Property |
|---|---|---|
| EvaluatorProofs | EvaluateAgrees | one `evaluate` keeps row and history in agreement |
| | TypeCorrect, CountersCorrect, LocksCorrect, Refinement | `TypeOK`, `CountersMatchResults`, lock discipline, `StateFollowsResults` |
| | ChainCorrect, OutagesCorrect, AlertsCorrect, SuppressionCorrect | `EventsAreAChain`, `OutagesEndWithRecovery`, `OnlyCrashesLoseAlerts`, `SuppressionIsCovered` |
| AlertEngineProofs | TypeCorrect, AnswersCorrect, PagesCorrect, BurstCorrect | `TypeOK`, `AlertsAnswerEvents`, `PagesMatchAlerts`, `BurstGroupsBounded` |
| EscalationProofs | EscalationTypes, LadderCorrect, AckCorrect, DuplicatesCorrect, PagesCorrect | `EscTypeOK`, `LadderInOrder`, `AckStopsEscalation`, `FewDuplicates`, `OnlyCrashesLosePages` |
| OperationsProofs | DeliveryTypes, LogCorrect, FinalCorrect, PersistenceCorrect | `TypeOK`, `LogTellsTheStory`, `SettledIsFinal`, `NeverGivenUpEarly` |
| | SchedulerTypes, RepeatsAccounted | `SchedTypeOK`, `RepeatsAreExplained` |
| | DashboardTypes, QuietIsCurrent | `DashTypeOK`, a page with nothing on its way, lost or passed over is current |
| | OperationsTypes | `OperationsTypeOK`, of `OperationsSpec` |
| RetentionProofs | RetentionTypes, KeptCorrect, CountCorrect, RollCorrect | `TypeOK`, `RecentResultsKept`, `NeverOvercounted`, `NoDayVanishes` |
| AccountsProofs | AccountsTypes, RightsCorrect, TrailCorrect, LockoutCorrect | `AccTypeOK`, `RightsAreCurrent`, `TrailIsComplete`, `LockoutIsExact` |
| RecordsProofs | DetectionTypes, ChecksTellTruth | `DetTypeOK`, `VerdictsTellTruth` |
| | LiveViewTypes, PathsFollow | `LiveTypeOK`, `PathsFollowDevices` |
| | FlappingTypes, SpacedAlerts | `FlapTypeOK`, `AlertsAreSpaced` |
| | PartitionTypes | `PartTypeOK` |
| | UptimeTypes, DowntimeIsCounted, PageIsTrue, FiguresStayTrue | `UpTypeOK`, `ReportCountsDowntime`, `PageAgreesWithReport`, `MailedFiguresStayTrue` |
| | RecordsTypes, RecordsSafe | `RecordsTypeOK` and the invariants of all seven, of `RecordsSpec` |

SumLemmas has no theorem about the system. It takes apart the sums of the
community modules, which are recursive: `SetInduction` and `SubsetInduction` are
induction for a set (of numbers, of subsets of a finite set) instead of an
operator, from the well-foundedness of `<`; by them a fold over a finite set
exists and is a sum (`FoldExists`, `FoldAdds`, `SumIsFold`), whatever element
`CHOOSE` takes first; and a sum grows with its terms, by one when one term does,
and is the sum over the rest plus one term.

**EvaluateAgrees.** A row *agrees* with a history if its state is
`Verdict(history)`, and, outside maintenance, its counters are the lengths of the
runs of failures and successes that end the history. If a row agrees with `h`, then
`EvaluatedRow` agrees with `Append(h, entry)`. The difficulty is that the row knows
two numbers and the verdict speaks of the whole past: the lemmas show what one
more failure (`OutageAfterFail`, `LooksAfterFail`), one more success or degraded
picture (`OutageAfterSoft`, `LooksAfterSoft`) and a maintenance tag
(`MaintenanceForgets`) do to "an outage has begun and no recovery has ended it".

**Evaluator.** The invariant is

    IInv == TypeOK /\ LockDiscipline /\ TxnIsFresh /\ RowsAgree

`RowsAgree`, the wanted fact, is not inductive: `Commit` writes a row that was
computed earlier. `TxnIsFresh` says that what a worker read or computed under the
lock is still what the committed row gives; it survives the other workers'
commits because of `LockDiscipline` (a worker between lock and commit holds the
lock, nobody else does) and deactivation because `SetActive` waits for the lock.
In the refinement `Commit` is `Ledger!Record` and every other step a stutter;
together with `EvaluateAgrees` this is the sense in which the row lock and the
persisted counters are right.

**Events.** `ChainInv` adds to `IInv` what a worker that has evaluated is about to
write (`Judged`): an event that starts from the state of the row, so that the
chain ends in that state. Hence the DOWN event that a recovery ends is the last
event of the device, and a parent that shows DOWN has a DOWN event. `InHandInv`
says that an event the alert engine has not been told of is with the worker that
committed it; `UnseenInv` counts those without such a worker: a crash adds at
most one.

**Alert engine.** `EngineInv == BaseInv /\ AnswersInv /\ PagesInv /\ BurstInv`.
`BaseInv` has the types, the chain of events, and that an event is in the hands of
at most one handler, which carries it to the alert's commit; the counts of
`AlertsAnswerEvents` and `PagesMatchAlerts` then change with a death only.
`BurstGroupsBounded` speaks of committed alerts, but two alerts that nobody has committed may be about to found
two groups, so `BurstInv` speaks of the alerts in hand as well. A new outage that
joins a sibling's group could change places with that sibling in any burst, so it adds no group; one
that finds none is in no burst with a committed alert, so that the groups of its
burst are all still in hand, one to a handler.

**Escalation.** `EscInv`: what a sweep is about to fire it found due, with all lower
tiers due or fired, on an alert nobody had acknowledged when the sweep began
(`LadderInOrder`, `AckStopsEscalation`); a tier that has fired is found due by no
sweep that looks after that, so that its copies come from distinct sweeps that had looked before (`CopiesInv`);
whoever is not paged is the concern of a sweep that is paging, or of one that died (`LostInv`).

**Delivery.** `LogInv` says how far the retry counter, the number of sends and
the length of the log are apart in each stage, and that a job that is not over has
only failures in its log; `EarlyInv` adds that the set counted by
`NeverGivenUpEarly` is finite and grows by a crash only.

**Scheduler.** `RepeatsAreExplained` counts the jobs of a check within an interval;
by itself it is not inductive, because sweeps that overlap have jobs yet to
send. `Accounted` therefore counts those too, and adds that the count may reach
one more than deaths and overlaps only if the check is *guarded*: its due time lies
beyond the interval, or a sweep that runs will commit such a due time, and no
sweep that runs began before the interval, so that none can commit an earlier one.
A sweep that begins beside others adds an overlap, one that dies a death; one that
begins alone finds the due time beyond the interval.

**Dashboard.** As long as no push or fetch was lost (`missed`) and no push found a
first load that had counted already (`passedOver`), a change is unpublished, in
the inbox, or was there to be read by the fetch under way: the first query has read
the last change when it has been counted, both when they have been answered.
`Invalidate`, once the page is loaded, and `FetchFails` go back to a fetch that has
read nothing, which is why cancelling it is right. The slip beside it in the
model, `InvalidateIfIdle`, leaves every fetch running, also one whose first count
misses the change; the query client does so for a first load only.

**Retention.** A run retires only what was too old when it fixed its cutoff; what it
has counted is no more than there was; and every result it is about to delete is,
from stage to stage, counted, then missing or in a daily row, then in a daily row.

**Accounts.** A request not yet decided on has seen the rights of now; every login
and change without its audit row has a handler about to write it, or one that has
died; a login whose row nobody has written since it was read knows the row as it is, and
`behind` counts the commits that it does not know of.

**Detection.** A check is true to what it saw because every step keeps what the
check has lived through (`Tracks`) and what it has found (`Evidence`). The picture
it compares is not older than the last hash (`FramesInv`), so that an image check
that had the files to itself finds the two equal only if the picture is stuck
(`Fresh`); two image checks at a time know of each other (`Crowded`).

**Live view.** `Owned` says what a worker on a device knows of its row and its path,
provided that nothing went wrong there and no other worker is on it; `Settled`, that
such a device on which nobody works has the path its row asks for. The
resynchronisation script counts as working on a device from its start until it
has been through it (`Started`), and what it read of it is still so.

**Flapping.** The alerts of one sweep are further apart than the cooldown (`Spaced`),
since what a sweep is about to add is (`AboutToAdd`). The alerts of one kind within a
cooldown are then of different sweeps, and who raised them is an injection into
the sweeps, which are finitely many.

**Uptime.** A report is the sum of the charges of all events (`DowntimeIsTotal`,
`PageIsTotal`). When time passes, the charge of the open event of an outage grows by the
tick, and no other does; an event that ends or begins charges nothing at that moment.
So the sum keeps up with the ticks of the reference `outOfOrder` (`CountedTicks`), in every
period. A figure is of a month that is over (`ReportsInOrder`), and the
charge of a period that is over does not change (`ChargeOfThePast`).

**The compositions.** In every step of `RecordsSpec` or `OperationsSpec` one component
moves and the others stutter, so that the invariants of all of them are kept.

Three assumptions on constants serve the proofs: `Flapping` and
`Scheduler` assume finitely many sweeps, as there are worker processes, because
their properties count them; `LiveView` assumes a device, without which it has no
step to take.

Model-checked but not proved: the liveness properties (`EveryCheckEnds`,
`OpenAlertsEscalate`, `EveryNotificationEnds`, `NoCheckStarves`,
`DashboardCatchesUp`), because the prover has no rules for fairness and `ENABLED`. What
a recursive definition computes for every input is proved for sums only;
elsewhere, as in `CheckHistory`, the models say it without recursion.

## 5. Where the code does not do what it says

Each of these is a run that TLC ends with a counterexample.

* `maintenance`: an outage that is interrupted by a maintenance window is never
  ended (`evaluator/service.py:64`). The reports count it as downtime from then on,
  although `reports/uptime.py:7-10` says maintenance is excluded "for free".
* `recovery`: nothing closes the DOWN alert of a device that has recovered
  (`alerts/engine.py:36-43`), so that it is escalated until somebody
  acknowledges it; `alerts/escalation.py:3-4` says recovery closes it.
* `delivery`: notification jobs are enqueued before the alert is committed
  (`alerts/engine.py:48-51`). A quick worker's log row is refused by the foreign
  key, and the attempt is neither logged nor retried; `notifications/dispatcher.py:2-3`
  promises one row per attempt.
* `rollup`: the retention cutoff lies in the middle of a day (02:30 minus 90 days);
  what remains of that day is deleted the next night without being counted
  (`reports/tasks.py:53`), although `tasks.py:30-31` speaks of wholly older data.
* `partitions`: the bounds of the partitions are bound parameters
  (`scheduler/partitions.py:28-34`). psycopg 3, the driver of `config.py`, leaves them
  to the server, and PostgreSQL takes no parameters in a `CREATE TABLE`: every night
  the first statement is refused, no partition is ever created, and all results go to
  the default partition, although `partitions.py:1` says "ahead of need". Driver and
  server are not in the repository, so that this is `TakesParameters`, external.
  With a driver that puts the values in, there would be another reason: nothing
  runs the task at installation, results go to the default partition until the first
  night, and PostgreSQL then refuses the partition of their month, and with it, by
  the rollback, the three that follow.
* `dashboard`: the browser misses a push, because it is published before the browser
  has subscribed (its socket is down, with the next poll yet to come, or accepted
  only), because Redis fails, or because the connection it is on breaks; TLC
  stops at whichever of these it comes to first. Then the socket is up and subscribed:
  a new connection fetches nothing and no poll follows
  (`frontend/src/api/ws.ts:32-35`, `65-67`), and the page stays behind;
  `realtime.py:28-29` says the polling fallback picks it up.
* `attempts`: `MAX_ATTEMPTS` is 5 but is given to Celery as `max_retries`, so that a
  message whose adapter keeps failing is sent six times
  (`notifications/dispatcher.py:29` and `56`); `dispatcher.py:1-2` says "max 5 attempts".
  `NeverGivenUpEarly` asks for the five that are documented and holds.

Smaller disagreements and oddities met on the way, which the models contain:

* `retry_backoff` has no effect on an explicit `self.retry` (`notifications/dispatcher.py:30`).
* A push that comes while a page is loading for the first time, or again after the
  query client has dropped what it showed, starts no other fetch: if the load had
  counted already, the page shows the old state until the next push or opening,
  although `ws.ts:8-9` says each push makes the query client fetch again. It is
  the exception `passedOver` of `DashboardCatchesUp`.
* An empty user name that is PUT takes a camera's login away without a word
  (`api/routers/devices.py:35-36`, `checkers/credentials.py:17`).
* `alerts/storm.py:1-2` promises one grouped alert per storm; the code writes one
  alert per camera and shares a group id among them, and racing handlers mint
  several groups. `alerts/engine.py:30` assumes that the parent's alert has been
  raised already.
* The device page leaves out an outage that began before its 24 hours
  (`api/routers/devices.py:207`).
* The flapping sweep counts suppressed outages. Two sweeps may raise two alerts.
* Sweeps of the scheduler that commit in reverse order may move a due time back.
* Attempts to log in that overlap lose counts; the counter is not reset when the
  lock expires; an administrator's password reset does not clear the lock.
* PUT with `active=false`, or without an RTSP URL, leaves the relay path in place,
  although `deploy/mediamtx.yml:2-4` says that paths go when a device is deactivated.
* The first picture of a camera becomes its reference for good, even a black one;
  image checks that overlap share the hash file and may call a moving picture
  frozen; recovering one simulated camera recovers the NVR for all.
* A GROUP window without an id covers every device without a parent, and a
  BUILDING window without a building every device without one (None equals None).
* A monthly report whose task dies leaves no record of who has got it.

## 6. Not modelled

* Watchdog heartbeat: one idempotent upsert a minute that nothing reads.
* Notification adapters: input and output; `Notifications` picks their outcome freely.
* `SnmpChecker`: no task runs it. The other checkers' measurements (latencies, pixel
  statistics, SOAP) are abstracted to what the verdict tells apart. Of the ways a host
  may fail them, that ffprobe does not run and that no ICMP socket opens are modelled;
  ping's fallback to the system's `ping` (no permission, or not Linux), and a full or
  unreadable disk under the image checker's files, are not.
* Percentages, averages and the SLA comparison of the reports, functions of the
  downtime that is modelled; the Excel, PDF and HTML renderers.
* Listings of devices, alerts, users and the audit log, snapshots and live URLs:
  they change nothing. `integrations.py` declares no endpoint.
* Schemas, migrations, settings: declarations. The constraints that matter (foreign
  keys, primary keys, the unique address, the default partition) are in the guards
  of the modules that meet them. The `date.today()` of `ensure_partitions` is taken
  to be the day of beat.
* Frontend pages, which render what the API answers; the fetching and pushing
  beneath them is in `Dashboard`. A push between the accept of a socket and its
  subscription is among the losses there.
* Scripts and deployment, except the two scripts that run with the system
  (`sync_live_view_paths.py` in `LiveView`, `manage_partitions.py` in `Partitions`).
* Real durations. Clocks tick where the code compares times, and nowhere else; the
  delays between the retries of a notification are left out.
