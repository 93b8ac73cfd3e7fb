---------------------------- MODULE AlertEngine -----------------------------
(***************************************************************************)
(* alerts/engine.py and alerts/storm.py: what happens to a status event    *)
(* after the worker that wrote it has committed it and let go of the       *)
(* device row.  The worker, now a handler, works in a new transaction: it  *)
(* decides whether the event deserves an alert, looks for the alert group  *)
(* of a storm behind the same NVR, inserts the alert row, puts one         *)
(* notification job per recipient on the broker, and only then commits.    *)
(* Nothing serializes the handlers, not even for one device.               *)
(***************************************************************************)
EXTENDS Naturals, Sequences, FiniteSets

CONSTANTS
    Devices,      \* device ids
    NoDevice,     \* parent of a device without one
    Parent,       \* parent_nvr_id
    Handlers,     \* workers that may be handling an event at the same time
    Recipients,   \* channel and address pairs found by _recipients_for
    NewStates,    \* the states that each device enters in this instance
    StormWindow,  \* STORM_WINDOW_SECONDS, in clock ticks
    MaxEvents,    \* bound: status events of each device
    MaxClock,     \* bound: clock
    MaxCrashes    \* bound: handler deaths

ASSUME AlertEngineAssumption ==
    /\ Parent \in [Devices -> Devices \cup {NoDevice}]
    /\ NoDevice \notin Devices
    /\ IsFiniteSet(Handlers)
    /\ NewStates \in [Devices -> SUBSET {"UP", "DEGRADED", "DOWN", "MAINTENANCE"}]
    /\ StormWindow \in Nat /\ MaxClock \in Nat /\ MaxCrashes \in Nat
    /\ MaxEvents \in [Devices -> Nat]

VARIABLES
    clock,    \* time of the database and of the workers
    events,   \* committed status_events of each device, oldest first
    alerts,   \* committed rows of the alerts table
    jobs,     \* send_notification jobs ever put on the broker
    nextId,   \* the sequence behind alerts.id; it never runs backwards
    pc,       \* where each handler stands in handle_transition
    txn,      \* the event a handler has, and the alert row it has flushed
    todo,     \* recipients a handler has yet to enqueue
    crashes   \* number of handlers that have died

vars == <<clock, events, alerts, jobs, nextId, pc, txn, todo, crashes>>

State == {"UP", "DEGRADED", "DOWN", "MAINTENANCE", "UNKNOWN"}

Event == [old : State, new : State, suppressed : BOOLEAN]

NoGroup == 0

(***************************************************************************)
(* group is the id of the alert that minted it (the code draws a uuid), or *)
(* NoGroup.  nth is the alert's event: events[device][nth].  seen is the   *)
(* time of the group lookup, which the table does not hold.  A RECOVERY    *)
(* alert is born CLOSED, a DOWN alert OPEN: see module Escalation.         *)
(***************************************************************************)
Alert == [id : Nat, device : Devices, nth : Nat, type : {"DOWN", "RECOVERY"},
          group : Nat, created : Nat, seen : Nat]

NoTxn == [id |-> 0, device |-> NoDevice, nth |-> 0, type |-> "DOWN",
          group |-> NoGroup, created |-> 0, seen |-> 0]

Stage == {"idle", "told", "notifying"}

Shown(d) == IF events[d] = << >> THEN "UNKNOWN" ELSE events[d][Len(events[d])].new

EventOf(t) == events[t.device][t.nth]

Init ==
    /\ clock = 0
    /\ events = [d \in Devices |-> << >>]
    /\ alerts = {}
    /\ jobs = {}
    /\ nextId = 1
    /\ pc = [h \in Handlers |-> "idle"]
    /\ txn = [h \in Handlers |-> NoTxn]
    /\ todo = [h \in Handlers |-> {}]
    /\ crashes = 0

-----------------------------------------------------------------------------
Tick ==
    /\ clock < MaxClock
    /\ clock' = clock + 1
    /\ UNCHANGED <<events, alerts, jobs, nextId, pc, txn, todo, crashes>>

(***************************************************************************)
(* A check worker commits a transition of d (module Evaluator) and turns   *)
(* handler.  publish_status_change re-reads the device after the commit,   *)
(* so the handler's transaction, and with it created_at, starts here.  A   *)
(* child that goes DOWN is suppressed if its parent shows DOWN; a device   *)
(* leaves MAINTENANCE by way of UNKNOWN, without an event.                 *)
(***************************************************************************)
StatusEvent(h, d, new) ==
    LET old == IF Shown(d) = "MAINTENANCE" THEN "UNKNOWN" ELSE Shown(d)
        suppressed == /\ new = "DOWN"
                      /\ Parent[d] # NoDevice
                      /\ Shown(Parent[d]) = "DOWN"
    IN  /\ pc[h] = "idle"
        /\ Len(events[d]) < MaxEvents[d]
        /\ new # old
        /\ events' = [events EXCEPT ![d] =
                        Append(@, [old |-> old, new |-> new,
                                   suppressed |-> suppressed])]
        /\ pc' = [pc EXCEPT ![h] = "told"]
        /\ txn' = [txn EXCEPT ![h] = [NoTxn EXCEPT !.device = d,
                                                   !.nth = Len(events'[d]),
                                                   !.created = clock]]
        /\ UNCHANGED <<clock, alerts, jobs, nextId, todo, crashes>>

-----------------------------------------------------------------------------
IsRecovery(e) == e.new = "UP" /\ e.old = "DOWN"

\* A plausible slip: the parent's suppression is forgotten.
AlertWorthyUnsuppressed(e) == e.new = "DOWN" \/ IsRecovery(e)

\* The early returns of handle_transition: only an outage that the parent
\* does not explain, and only a return from an outage, is worth an alert.
AlertWorthy(e) == (e.new = "DOWN" /\ ~e.suppressed) \/ IsRecovery(e)

Ignore(h) ==
    /\ pc[h] = "told"
    /\ ~AlertWorthy(EventOf(txn[h]))
    /\ pc' = [pc EXCEPT ![h] = "idle"]
    /\ txn' = [txn EXCEPT ![h] = NoTxn]
    /\ UNCHANGED <<clock, events, alerts, jobs, nextId, todo, crashes>>

\* A plausible slip: > instead of >= at the cutoff.
SiblingAlertsStrict(d) ==
    {a \in alerts : /\ Parent[a.device] = Parent[d]
                    /\ a.created + StormWindow > clock
                    /\ a.group # NoGroup}

SiblingAlerts(d) ==
    {a \in alerts : /\ Parent[a.device] = Parent[d]
                    /\ a.created + StormWindow >= clock
                    /\ a.group # NoGroup}

\* group_id_for: the group of a youngest sibling alert, or a new group.
Groups(d) ==
    LET siblings == IF Parent[d] = NoDevice THEN {} ELSE SiblingAlerts(d)
    IN  IF siblings = {} THEN {nextId}
        ELSE {a.group : a \in {b \in siblings :
                                 \A c \in siblings : c.created <= b.created}}

\* Lookup, insert and flush: the row has its id but nobody else sees it.
RaiseAlert(h) ==
    LET t == txn[h]
        recovery == IsRecovery(EventOf(t))
    IN  /\ pc[h] = "told"
        /\ AlertWorthy(EventOf(t))
        /\ \E g \in IF recovery THEN {NoGroup} ELSE Groups(t.device) :
              txn' = [txn EXCEPT ![h] =
                        [t EXCEPT !.id = nextId,
                                  !.type = IF recovery THEN "RECOVERY" ELSE "DOWN",
                                  !.group = g,
                                  !.seen = clock]]
        /\ nextId' = nextId + 1
        /\ pc' = [pc EXCEPT ![h] = "notifying"]
        /\ todo' = [todo EXCEPT ![h] = Recipients]
        /\ UNCHANGED <<clock, events, alerts, jobs, crashes>>

\* A plausible slip: the job carries the address and not the alert.
EnqueueNotificationBare(h, r) ==
    /\ pc[h] = "notifying"
    /\ r \in todo[h]
    /\ jobs' = jobs \cup {r}
    /\ todo' = [todo EXCEPT ![h] = @ \ {r}]
    /\ UNCHANGED <<clock, events, alerts, nextId, pc, txn, crashes>>

\* send_notification.delay(...): visible to the notification workers at once.
EnqueueNotification(h, r) ==
    /\ pc[h] = "notifying"
    /\ r \in todo[h]
    /\ jobs' = jobs \cup {<<txn[h].id, r>>}
    /\ todo' = [todo EXCEPT ![h] = @ \ {r}]
    /\ UNCHANGED <<clock, events, alerts, nextId, pc, txn, crashes>>

\* A plausible slip: the commit does not wait for the jobs.
CommitAlertEarly(h) ==
    /\ pc[h] = "notifying"
    /\ alerts' = alerts \cup {txn[h]}
    /\ pc' = [pc EXCEPT ![h] = IF todo[h] = {} THEN "idle" ELSE @]
    /\ txn' = [txn EXCEPT ![h] = IF todo[h] = {} THEN NoTxn ELSE @]
    /\ UNCHANGED <<clock, events, jobs, nextId, todo, crashes>>

CommitAlert(h) ==
    /\ pc[h] = "notifying"
    /\ todo[h] = {}
    /\ alerts' = alerts \cup {txn[h]}
    /\ pc' = [pc EXCEPT ![h] = "idle"]
    /\ txn' = [txn EXCEPT ![h] = NoTxn]
    /\ UNCHANGED <<clock, events, jobs, nextId, todo, crashes>>

\* The handler dies, or the broker or the database raises: the flushed row is
\* rolled back, the jobs already enqueued stay.
Crash(h) ==
    /\ pc[h] # "idle"
    /\ crashes < MaxCrashes
    /\ crashes' = crashes + 1
    /\ pc' = [pc EXCEPT ![h] = "idle"]
    /\ txn' = [txn EXCEPT ![h] = NoTxn]
    /\ todo' = [todo EXCEPT ![h] = {}]
    /\ UNCHANGED <<clock, events, alerts, jobs, nextId>>

Next ==
    \/ Tick
    \/ \E h \in Handlers :
          \/ \E d \in Devices : \E new \in NewStates[d] : StatusEvent(h, d, new)
          \/ Ignore(h)
          \/ RaiseAlert(h)
          \/ \E r \in Recipients : EnqueueNotification(h, r)
          \/ CommitAlert(h)
          \/ Crash(h)

Spec == Init /\ [][Next]_vars

-----------------------------------------------------------------------------
\* Type correctness of the tables, the broker and the handlers' local state.
TypeOK ==
    /\ clock \in Nat
    /\ events \in [Devices -> Seq(Event)]
    /\ alerts \subseteq Alert
    /\ jobs \subseteq Nat \X Recipients
    /\ nextId \in Nat
    /\ pc \in [Handlers -> Stage]
    /\ txn \in [Handlers -> Alert \cup {NoTxn}]
    /\ todo \in [Handlers -> SUBSET Recipients]
    /\ crashes \in Nat

(***************************************************************************)
(* Alerts answer events one for one: no two alerts are about the same      *)
(* event, every alert is about an outage that no outage of the parent was  *)
(* hiding or about the end of one, and of the events that call for an      *)
(* alert only those in a handler's hands, and one per crash, have none     *)
(* (engine.py 24-34).                                                      *)
(***************************************************************************)
CallForAlert ==
    {at \in UNION {{d} \X DOMAIN events[d] : d \in Devices} :
        LET es == events[at[1]]
            i == at[2]
        IN  \/ es[i].new = "DOWN" /\ ~es[i].suppressed
            \/ es[i].new = "UP" /\ i > 1 /\ es[i - 1].new = "DOWN"}

Answered == {<<a.device, a.nth>> : a \in alerts}

InHand == {<<txn[h].device, txn[h].nth>> : h \in {k \in Handlers : pc[k] # "idle"}}

AlertsAnswerEvents ==
    /\ Cardinality(Answered) = Cardinality(alerts)
    /\ Answered \subseteq CallForAlert
    /\ Cardinality(CallForAlert \ (Answered \cup InHand)) <= crashes

(***************************************************************************)
(* No silent alert and, crashes apart, no phantom page: an alert that is   *)
(* in the table has a job for every recipient on the broker, and the jobs  *)
(* that name an alert which is not in the table belong to a handler about  *)
(* to commit it or to one that has died (engine.py 44-51).                 *)
(***************************************************************************)
PagesMatchAlerts ==
    /\ \A a \in alerts : {a.id} \X Recipients \subseteq jobs
    /\ Cardinality({j[1] : j \in jobs}
                     \ ({a.id : a \in alerts} \cup {txn[h].id : h \in Handlers}))
         <= crashes

(***************************************************************************)
(* Storm grouping under races: the outages behind one NVR that all fall    *)
(* within one storm window of each other are spread over at most as many   *)
(* groups as there are handlers (storm.py 15-33).  A single group cannot   *)
(* be promised: two handlers that look before either commits mint one      *)
(* group each.                                                             *)
(***************************************************************************)
IsBurst(as) ==
    \A a, b \in as : /\ Parent[a.device] = Parent[b.device]
                     /\ b.seen <= a.created + StormWindow

BurstGroupsBounded ==
    \A as \in SUBSET {a \in alerts : a.type = "DOWN"
                                     /\ Parent[a.device] # NoDevice} :
        IsBurst(as) => Cardinality({a.group : a \in as}) <= Cardinality(Handlers)
=============================================================================
