------------------------------ MODULE Evaluator -----------------------------
(***************************************************************************)
(* Check workers and the state evaluator: checkers/tasks.py, with          *)
(* evaluator/service.py and evaluator/state_machine.py.                    *)
(*                                                                         *)
(* The scheduler puts jobs on the broker, each tagged with whether a       *)
(* maintenance window covered the device when the job was enqueued.        *)
(* Celery workers take jobs in any order.  For one job a worker            *)
(*   1. loads the device and gives up if it is inactive,                   *)
(*   2. runs the checker, holding no lock,                                 *)
(*   3. locks the device row (SELECT ... FOR UPDATE) and re-reads it,      *)
(*   4. evaluates the result, reading the parent's committed row,          *)
(*   5. commits the result row, the device row and the status event, and   *)
(*   6. hands the event, if any, to the alert engine: a transaction of its *)
(*      own, after the lock is gone.                                       *)
(* Jobs are acknowledged when taken (Celery's default), so a worker that   *)
(* dies loses its job, its lock and whatever it had not committed.         *)
(***************************************************************************)
EXTENDS CheckHistory, FiniteSets

CONSTANTS
    Devices,     \* device ids
    NoDevice,    \* parent of a device without one (parent_nvr_id IS NULL)
    Parent,      \* parent_nvr_id
    Workers,     \* worker processes of the net and stream queues
    NoWorker,    \* holder of a free row lock
    Outcomes,    \* the check statuses the checkers report in this instance
    MaxResults,  \* bound: check results of each device
    MaxQueued,   \* bound: copies of one job waiting on the broker
    MaxCrashes   \* bound: worker deaths

ASSUME EvaluatorAssumption ==
    /\ Parent \in [Devices -> Devices \cup {NoDevice}]
    /\ NoDevice \notin Devices
    /\ NoWorker \notin Workers
    /\ Outcomes \subseteq CheckStatus
    /\ MaxResults \in [Devices -> Nat]
    /\ MaxQueued \in Nat /\ MaxCrashes \in Nat

VARIABLES
    row,      \* devices rows, as last committed
    results,  \* check_results of each device, oldest first
    events,   \* status_events of each device, oldest first
    handed,   \* indexes of the events the alert engine was given
    rowLock,  \* holder of each device's row lock
    window,   \* is the device covered by a maintenance window now?
    queue,    \* number of copies of each job on the broker
    pc,       \* where each worker stands in _run_and_record
    job,      \* the job a worker has taken
    txn,      \* a worker's transaction: what it will write at commit
    crashes   \* number of workers that have died

vars == <<row, results, events, handed, rowLock, window, queue, pc, job, txn,
          crashes>>
database == <<row, results, events, handed>>
broker == <<window, queue>>

Job == [device : Devices, flag : BOOLEAN]

\* ended stands for ended_at and downtime_seconds, set together.
Event == [old : DeviceState, new : DeviceState, suppressed : BOOLEAN,
          ended : BOOLEAN]

Stage == {"idle", "checking", "locked", "evaluated", "committed"}

NoJob == [device |-> NoDevice, flag |-> FALSE]
NoEntry == [status |-> "ERROR", flag |-> FALSE]
NoEvent == [old |-> "UNKNOWN", new |-> "UNKNOWN", suppressed |-> FALSE,
            ended |-> FALSE]

\* id is the event's place in events[d] once it is committed, 0 before.
NoTxn == [row |-> NewDevice, entry |-> NoEntry, event |-> NoEvent, id |-> 0]
Txn == [row : Row, entry : Entry, event : Event, id : Nat]

Dev(w) == job[w].device

InFlight(d) ==
    queue[[device |-> d, flag |-> TRUE]] + queue[[device |-> d, flag |-> FALSE]]
      + Cardinality({w \in Workers : pc[w] \in Stage \ {"idle", "committed"}
                                     /\ Dev(w) = d})

Init ==
    /\ row = [d \in Devices |-> NewDevice]
    /\ results = [d \in Devices |-> << >>]
    /\ events = [d \in Devices |-> << >>]
    /\ handed = [d \in Devices |-> {}]
    /\ rowLock = [d \in Devices |-> NoWorker]
    /\ window = [d \in Devices |-> FALSE]
    /\ queue = [j \in Job |-> 0]
    /\ pc = [w \in Workers |-> "idle"]
    /\ job = [w \in Workers |-> NoJob]
    /\ txn = [w \in Workers |-> NoTxn]
    /\ crashes = 0

-----------------------------------------------------------------------------
(***************************************************************************)
(* The environment of the workers: the scheduler's enqueue of one due      *)
(* check, the administrators' maintenance windows, and deactivation or     *)
(* reactivation through the devices API, which updates the row and so      *)
(* waits for its lock.                                                     *)
(***************************************************************************)
EnqueueDueCheck(d) ==
    LET j == [device |-> d, flag |-> window[d]]
    IN  /\ row[d].active
        /\ Len(results[d]) + InFlight(d) < MaxResults[d]
        /\ queue[j] < MaxQueued
        /\ queue' = [queue EXCEPT ![j] = @ + 1]
        /\ UNCHANGED <<database, rowLock, window, pc, job, txn, crashes>>

ChangeWindow(d) ==
    /\ window' = [window EXCEPT ![d] = ~@]
    /\ UNCHANGED <<database, rowLock, queue, pc, job, txn, crashes>>

SetActive(d, active) ==
    /\ rowLock[d] = NoWorker
    /\ row' = [row EXCEPT ![d].active = active]
    /\ UNCHANGED <<results, events, handed, rowLock, broker, pc, job, txn,
                   crashes>>

-----------------------------------------------------------------------------
\* A plausible slip: a job is not taken off the broker before another worker
\* takes it.
TakeJobTwice(w, j) ==
    /\ pc[w] = "idle"
    /\ row[j.device].active
    /\ queue' = [queue EXCEPT ![j] = @ - 1]
    /\ pc' = [pc EXCEPT ![w] = "checking"]
    /\ job' = [job EXCEPT ![w] = j]
    /\ UNCHANGED <<database, rowLock, window, txn, crashes>>

(***************************************************************************)
(* Steps 1 and 2.  Receiving the job and loading the device are one step:  *)
(* a job received before the device changed behaves like one received      *)
(* after.  The checker then runs for seconds while other steps happen; its *)
(* outcome is picked when the worker comes to the lock.                    *)
(***************************************************************************)
TakeJob(w, j) ==
    /\ pc[w] = "idle"
    /\ queue[j] > 0
    /\ queue' = [queue EXCEPT ![j] = @ - 1]
    /\ IF row[j.device].active
       THEN /\ pc' = [pc EXCEPT ![w] = "checking"]
            /\ job' = [job EXCEPT ![w] = j]
       ELSE UNCHANGED <<pc, job>>
    /\ UNCHANGED <<database, rowLock, window, txn, crashes>>

\* A plausible slip: the row is re-read without with_for_update().
LockRowReadsOnly(w, outcome) ==
    /\ pc[w] = "checking"
    /\ pc' = [pc EXCEPT ![w] = "locked"]
    /\ txn' = [txn EXCEPT
                 ![w] = [row   |-> row[Dev(w)],
                         entry |-> [status |-> outcome, flag |-> job[w].flag],
                         event |-> NoEvent,
                         id    |-> 0]]
    /\ UNCHANGED <<database, rowLock, broker, job, crashes>>

\* Step 3: with_for_update() and populate_existing().
LockRow(w, outcome) ==
    /\ pc[w] = "checking"
    /\ rowLock[Dev(w)] = NoWorker
    /\ rowLock' = [rowLock EXCEPT ![Dev(w)] = w]
    /\ pc' = [pc EXCEPT ![w] = "locked"]
    /\ txn' = [txn EXCEPT
                 ![w] = [row   |-> row[Dev(w)],
                         entry |-> [status |-> outcome, flag |-> job[w].flag],
                         event |-> NoEvent,
                         id    |-> 0]]
    /\ UNCHANGED <<database, broker, job, crashes>>

-----------------------------------------------------------------------------
\* A plausible slip: dirty reads show a DOWN that may never be committed.
SuppressedByDirtyRead(d, new) ==
    /\ new = "DOWN"
    /\ Parent[d] # NoDevice
    /\ \/ row[Parent[d]].state = "DOWN"
       \/ \E w \in Workers : /\ pc[w] = "evaluated"
                             /\ Dev(w) = Parent[d]
                             /\ txn[w].row.state = "DOWN"

\* _is_suppressed_by_parent: a plain read of the parent's committed row.
SuppressedByParent(d, new) ==
    /\ new = "DOWN"
    /\ Parent[d] # NoDevice
    /\ row[Parent[d]].state = "DOWN"

\* Step 4: evaluate(), up to but not including the commit.
Evaluate(w) ==
    LET t == txn[w]
        old == Reentered(t.row, t.entry.flag).state
        new == EvaluatedRow(t.row, t.entry.status, t.entry.flag)
    IN  /\ pc[w] = "locked"
        /\ pc' = [pc EXCEPT ![w] = "evaluated"]
        /\ txn' = [txn EXCEPT
                     ![w].row = new,
                     ![w].event =
                        IF new.state = old THEN NoEvent
                        ELSE [old |-> old, new |-> new.state,
                              suppressed |-> SuppressedByParent(Dev(w), new.state),
                              ended |-> FALSE]]
        /\ UNCHANGED <<database, rowLock, broker, job, crashes>>

IsTransition(e) == e.old # e.new

EndsOutage(e) == e.old = "DOWN" /\ e.new \in {"UP", "DEGRADED"}

\* A plausible slip: ascending order finds the first outage ever.
FirstDown(es) ==
    CHOOSE i \in DOMAIN es :
        es[i].new = "DOWN" /\ \A k \in 1 .. (i - 1) : es[k].new # "DOWN"

\* The latest DOWN event, by started_at descending.
LastDown(es) ==
    CHOOSE i \in DOMAIN es :
        /\ es[i].new = "DOWN"
        /\ \A k \in (i + 1) .. Len(es) : es[k].new # "DOWN"

\* _transition: the end of an outage is written onto its DOWN event.
EventsWith(es, e) ==
    IF EndsOutage(e) /\ \E i \in DOMAIN es : es[i].new = "DOWN"
    THEN Append([es EXCEPT ![LastDown(es)].ended = TRUE], e)
    ELSE Append(es, e)

\* Step 5.  Everything the transaction wrote becomes visible at once.
Commit(w) ==
    LET d == Dev(w)
        t == txn[w]
    IN  /\ pc[w] = "evaluated"
        /\ row' = [row EXCEPT ![d] = t.row]
        /\ results' = [results EXCEPT ![d] = Append(@, t.entry)]
        /\ rowLock' = [rowLock EXCEPT ![d] = NoWorker]
        /\ IF IsTransition(t.event)
           THEN /\ events' = [events EXCEPT ![d] = EventsWith(@, t.event)]
                /\ pc' = [pc EXCEPT ![w] = "committed"]
                /\ txn' = [txn EXCEPT ![w] = [NoTxn EXCEPT !.id = Len(events'[d])]]
                /\ UNCHANGED job
           ELSE /\ pc' = [pc EXCEPT ![w] = "idle"]
                /\ job' = [job EXCEPT ![w] = NoJob]
                /\ txn' = [txn EXCEPT ![w] = NoTxn]
                /\ UNCHANGED events
        /\ UNCHANGED <<handed, broker, crashes>>

\* A plausible slip: the engine is not told of transitions into maintenance.
HandleTransitionPicky(w) ==
    /\ pc[w] = "committed"
    /\ handed' = IF events[Dev(w)][txn[w].id].new = "MAINTENANCE" THEN handed
                 ELSE [handed EXCEPT ![Dev(w)] = @ \cup {txn[w].id}]
    /\ pc' = [pc EXCEPT ![w] = "idle"]
    /\ UNCHANGED <<row, results, events, rowLock, broker, job, txn, crashes>>

(***************************************************************************)
(* Step 6: handle_transition.  The alert engine is module AlertEngine;     *)
(* here an event is handed over or not.  The push to the dashboards that   *)
(* precedes it changes no state of the database.                           *)
(***************************************************************************)
HandleTransition(w) ==
    /\ pc[w] = "committed"
    /\ handed' = [handed EXCEPT ![Dev(w)] = @ \cup {txn[w].id}]
    /\ pc' = [pc EXCEPT ![w] = "idle"]
    /\ job' = [job EXCEPT ![w] = NoJob]
    /\ txn' = [txn EXCEPT ![w] = NoTxn]
    /\ UNCHANGED <<row, results, events, rowLock, broker, crashes>>

\* A plausible slip: the session of a failed task is never closed.
CrashKeepsLock(w) ==
    /\ pc[w] # "idle"
    /\ crashes < MaxCrashes
    /\ crashes' = crashes + 1
    /\ pc' = [pc EXCEPT ![w] = "idle"]
    /\ UNCHANGED <<database, rowLock, broker, job, txn>>

\* The worker dies, or a database error ends the task: its connection is
\* closed, which rolls back and unlocks, and the job is not redelivered.
Crash(w) ==
    /\ pc[w] # "idle"
    /\ crashes < MaxCrashes
    /\ crashes' = crashes + 1
    /\ rowLock' = [d \in Devices |-> IF rowLock[d] = w THEN NoWorker
                                     ELSE rowLock[d]]
    /\ pc' = [pc EXCEPT ![w] = "idle"]
    /\ job' = [job EXCEPT ![w] = NoJob]
    /\ txn' = [txn EXCEPT ![w] = NoTxn]
    /\ UNCHANGED <<database, broker>>

-----------------------------------------------------------------------------
Environment ==
    \E d \in Devices :
        \/ EnqueueDueCheck(d)
        \/ ChangeWindow(d)
        \/ \E active \in BOOLEAN : SetActive(d, active)

TakeSomeJob(w) == \E j \in Job : TakeJob(w, j)

LockWithOutcome(w) == \E outcome \in Outcomes : LockRow(w, outcome)

WorkerStep(w) ==
    \/ TakeSomeJob(w)
    \/ LockWithOutcome(w)
    \/ Evaluate(w)
    \/ Commit(w)
    \/ HandleTransition(w)
    \/ Crash(w)

Next == Environment \/ \E w \in Workers : WorkerStep(w)

Spec == Init /\ [][Next]_vars

(***************************************************************************)
(* A worker that is running goes on running, and PostgreSQL queues the     *)
(* transactions that wait for a row lock, so that a waiting worker gets it *)
(* in the end although others get it in between: strong fairness.  Nothing *)
(* is assumed of the environment, of taking jobs, or of crashes.           *)
(***************************************************************************)
Fairness ==
    \A w \in Workers :
        /\ SF_vars(LockWithOutcome(w))
        /\ WF_vars(Evaluate(w))
        /\ WF_vars(Commit(w))
        /\ WF_vars(HandleTransition(w))

FairSpec == Spec /\ Fairness

-----------------------------------------------------------------------------
\* Type correctness of the tables, the broker and the workers' local state.
TypeOK ==
    /\ row \in [Devices -> Row]
    /\ results \in [Devices -> Seq(Entry)]
    /\ events \in [Devices -> Seq(Event)]
    /\ handed \in [Devices -> SUBSET Nat]
    /\ rowLock \in [Devices -> Workers \cup {NoWorker}]
    /\ window \in [Devices -> BOOLEAN]
    /\ queue \in [Job -> Nat]
    /\ pc \in [Workers -> Stage]
    /\ job \in [Workers -> Job \cup {NoJob}]
    /\ txn \in [Workers -> Txn]
    /\ crashes \in Nat

(***************************************************************************)
(* The abstract specification: each device's state is a function of its    *)
(* check results, entered one at a time, whatever the workers' steps, the  *)
(* windows, deactivations and crashes in between.  This is what the row    *)
(* lock and the persisted counters are for (tasks.py 46-61, service.py     *)
(* 1-6): no result is counted twice, lost, or evaluated from a stale row.  *)
(***************************************************************************)
Promise == INSTANCE Ledger WITH
              history <- results,
              status <- [d \in Devices |-> row[d].state]

StateFollowsResults == Promise!LedgerSpec

(***************************************************************************)
(* Outside maintenance the persisted counters are the lengths of the runs  *)
(* of failures and of successes that end the recorded results.             *)
(***************************************************************************)
CountersMatchResults ==
    \A d \in Devices :
        row[d].state # "MAINTENANCE" =>
            /\ TrailingFails(results[d], row[d].fail)
            /\ TrailingOks(results[d], row[d].ok)

(***************************************************************************)
(* status_events is an unbroken chain that ends in the state the row       *)
(* shows.  The one gap is the silent restart from MAINTENANCE to UNKNOWN   *)
(* (service.py 25-28), which writes no event.                              *)
(***************************************************************************)
Follows(new, old) == new = old \/ (new = "MAINTENANCE" /\ old = "UNKNOWN")

EventsAreAChain ==
    \A d \in Devices :
        LET es == events[d]
            state(i) == IF i = 0 THEN "UNKNOWN" ELSE es[i].new
        IN  /\ \A i \in DOMAIN es : Follows(state(i - 1), es[i].old)
            /\ Follows(state(Len(es)), row[d].state)

(***************************************************************************)
(* A DOWN event has an end exactly when the next event ends that outage:   *)
(* no outage is closed by somebody else's recovery and no recovery leaves  *)
(* its outage open (service.py 64-73).                                     *)
(***************************************************************************)
OutagesEndWithRecovery ==
    \A d \in Devices : \A i \in DOMAIN events[d] :
        events[d][i].new = "DOWN" =>
            (events[d][i].ended <=> i < Len(events[d])
                                    /\ EndsOutage(events[d][i + 1]))

(***************************************************************************)
(* Only a crash separates a transition from its alert: the committed       *)
(* events that the alert engine has not seen are in the hands of workers,  *)
(* but for one lost with each crash (tasks.py 78-84).                      *)
(***************************************************************************)
Unhanded ==
    UNION {{d} \X ((DOMAIN events[d]) \ handed[d]) : d \in Devices}

InHand == {<<Dev(w), txn[w].id>> : w \in {v \in Workers : pc[v] = "committed"}}

OnlyCrashesLoseAlerts ==
    /\ InHand \subseteq Unhanded
    /\ Cardinality(Unhanded \ InHand) <= crashes

(***************************************************************************)
(* A child's DOWN event is suppressed only in favour of an outage of the   *)
(* parent that is on record: the parent has a DOWN event, and that event   *)
(* was handed to the alert engine, is about to be, or fell to a crash.     *)
(***************************************************************************)
SuppressionIsCovered ==
    \A d \in Devices : \A i \in DOMAIN events[d] :
        events[d][i].suppressed =>
            \E k \in DOMAIN events[Parent[d]] :
                /\ events[Parent[d]][k].new = "DOWN"
                /\ \/ k \in handed[Parent[d]]
                   \/ <<Parent[d], k>> \in InHand
                   \/ crashes > 0

(***************************************************************************)
(* A worker that has begun a check ends it and frees the row, although it  *)
(* competes with other workers for the lock.                               *)
(***************************************************************************)
EveryCheckEnds ==
    \A w \in Workers : pc[w] # "idle" ~> pc[w] = "idle"

(***************************************************************************)
(* reports/uptime.py 7-10: no downtime is charged to a device while it is  *)
(* in MAINTENANCE, that is, none of its unsuppressed DOWN events is open   *)
(* then.  The code leaves the event of an outage that maintenance cut      *)
(* short open for ever.                                                    *)
(***************************************************************************)
MaintenanceStopsDowntime ==
    \A d \in Devices : row[d].state = "MAINTENANCE" =>
        \A i \in DOMAIN events[d] :
            (events[d][i].new = "DOWN" /\ ~events[d][i].suppressed)
               => events[d][i].ended
=============================================================================
