----------------------------- MODULE Escalation -----------------------------
(***************************************************************************)
(* alerts/escalation.py and the acknowledgement in api/routers/alerts.py.  *)
(* Every minute Celery beat starts a sweep.  A sweep reads the clock and   *)
(* the OPEN alerts once, and then goes through them: it loads the tiers    *)
(* already fired for an alert, and for each other tier that is due it      *)
(* commits an escalations row and puts one job per user of the tier's role *)
(* on the broker.  A sweep may outlive the minute and overlap the next.    *)
(* Operators acknowledge alerts meanwhile, and devices recover.            *)
(***************************************************************************)
EXTENDS Naturals, Sequences, FiniteSets

CONSTANTS
    Alerts,      \* ids of the DOWN alerts in this instance
    NoAlert,     \* no alert
    Policy,      \* delay_min of each tier of an alert's severity, in ticks
    Users,       \* the users who have the role of a tier
    Sweeps,      \* worker processes that may be sweeping at the same time
    Operators,   \* users who acknowledge alerts
    MaxClock,      \* bound: clock
    MaxEscCrashes  \* bound: deaths of sweeps

Tiers(a) == DOMAIN Policy[a]

ASSUME EscalationAssumption ==
    /\ Policy \in [Alerts -> Seq(Nat)]
    /\ \A a \in Alerts : \A t, u \in Tiers(a) : t <= u => Policy[a][t] <= Policy[a][u]
    /\ \A a \in Alerts : Tiers(a) \subseteq DOMAIN Users
    /\ NoAlert \notin Alerts /\ IsFiniteSet(Sweeps)
    /\ MaxClock \in Nat /\ MaxEscCrashes \in Nat

VARIABLES
    clock,      \* time of the database and of the workers; starts at 1
    state,      \* alerts.state of each DOWN alert, "none" before it exists
    created,    \* alerts.created_at, 0 before it exists
    acks,       \* acknowledgements of each alert; the row shows the last
    recovered,  \* when the alert's device came up again, 0 before that
    rows,       \* escalations rows of each alert, oldest first
    pages,      \* the send_notification jobs ever put on the broker
    escSweep,   \* a sweep's local variables
    acking,     \* the alert that an operator's request has read as OPEN
    escCrashes  \* number of sweeps that have died

escVars == <<clock, state, created, acks, recovered, rows, pages, escSweep,
             acking, escCrashes>>
alertsTable == <<state, created, acks, recovered>>

\* An escalations row.  asOf, its sweep's idea of now, is not in the table.
EscalationRow == [tier : Nat \ {0}, asOf : Nat]

\* by and at stand for acked_by and acked_at.
Ack == [by : Operators, at : Nat]

\* now, the alerts yet to visit, the alert at hand, its tiers yet to fire, the
\* tier that fired last, and its users still to be paged.
Sweep == [running : BOOLEAN, now : Nat, open : SUBSET Alerts,
          alert : Alerts \cup {NoAlert}, due : SUBSET Nat, tier : Nat,
          users : SUBSET UNION {Users[t] : t \in DOMAIN Users}]

NoEscSweep == [running |-> FALSE, now |-> 0, open |-> {}, alert |-> NoAlert,
               due |-> {}, tier |-> 0, users |-> {}]

Fired(a) == {rows[a][i].tier : i \in DOMAIN rows[a]}

EscInit ==
    /\ clock = 1
    /\ state = [a \in Alerts |-> "none"]
    /\ created = [a \in Alerts |-> 0]
    /\ acks = [a \in Alerts |-> {}]
    /\ recovered = [a \in Alerts |-> 0]
    /\ rows = [a \in Alerts |-> << >>]
    /\ pages = {}
    /\ escSweep = [s \in Sweeps |-> NoEscSweep]
    /\ acking = [o \in Operators |-> NoAlert]
    /\ escCrashes = 0

-----------------------------------------------------------------------------
Tick ==
    /\ clock < MaxClock
    /\ clock' = clock + 1
    /\ UNCHANGED <<alertsTable, rows, pages, escSweep, acking, escCrashes>>

\* The alert engine commits a DOWN alert (module AlertEngine).
Raise(a) ==
    /\ state[a] = "none"
    /\ state' = [state EXCEPT ![a] = "OPEN"]
    /\ created' = [created EXCEPT ![a] = clock]
    /\ UNCHANGED <<clock, acks, recovered, rows, pages, escSweep, acking, escCrashes>>

\* The device is up again: handle_transition inserts an alert of type RECOVERY,
\* which is born CLOSED and never swept, and leaves the DOWN alert alone.
Recover(a) ==
    /\ state[a] # "none"
    /\ recovered[a] = 0
    /\ recovered' = [recovered EXCEPT ![a] = clock]
    /\ UNCHANGED <<clock, state, created, acks, rows, pages, escSweep, acking,
                   escCrashes>>

\* acknowledge_alert reads the row without a lock ...
ReadForAck(o, a) ==
    /\ acking[o] = NoAlert
    /\ state[a] = "OPEN"
    /\ acking' = [acking EXCEPT ![o] = a]
    /\ UNCHANGED <<clock, alertsTable, rows, pages, escSweep, escCrashes>>

\* ... and writes it later: of two requests that read OPEN the last one wins.
Acknowledge(o) ==
    LET a == acking[o]
    IN  /\ a # NoAlert
        /\ state' = [state EXCEPT ![a] = "ACKED"]
        /\ acks' = [acks EXCEPT ![a] = @ \cup {[by |-> o, at |-> clock]}]
        /\ acking' = [acking EXCEPT ![o] = NoAlert]
        /\ UNCHANGED <<clock, created, recovered, rows, pages, escSweep, escCrashes>>

-----------------------------------------------------------------------------
\* Two plausible slips: every alert is swept, whatever its state, or only the
\* alerts raised since the last minute.
OpenOrAcked == {a \in Alerts : state[a] # "none"}

OpenAndNew == {a \in Alerts : state[a] = "OPEN" /\ created[a] = clock}

OpenAlerts == {a \in Alerts : state[a] = "OPEN"}

BeginSweep(s) ==
    /\ ~escSweep[s].running
    /\ escSweep' = [escSweep EXCEPT ![s] = [NoEscSweep EXCEPT
                                               !.running = TRUE,
                                               !.now = clock,
                                               !.open = OpenAlerts]]
    /\ UNCHANGED <<clock, alertsTable, rows, pages, acking, escCrashes>>

\* A plausible slip: already_fired is not consulted.
DueIgnoringFired(s, a) ==
    {t \in Tiers(a) : escSweep[s].now >= created[a] + Policy[a][t]}

\* The tiers that the sweep will fire: not yet fired, and elapsed.
Due(s, a) ==
    {t \in Tiers(a) \ Fired(a) : escSweep[s].now >= created[a] + Policy[a][t]}

LoadAlert(s, a) ==
    /\ escSweep[s].users = {}
    /\ escSweep[s].due = {}
    /\ a \in escSweep[s].open
    /\ escSweep' = [escSweep EXCEPT ![s].open = @ \ {a},
                                    ![s].alert = a,
                                    ![s].due = Due(s, a)]
    /\ UNCHANGED <<clock, alertsTable, rows, pages, acking, escCrashes>>

\* A plausible slip: the tiers are visited from the top.
LastTier(due) == CHOOSE t \in due : \A u \in due : t >= u

FirstTier(due) == CHOOSE t \in due : \A u \in due : t <= u

\* One escalations row is committed; the alert's state is not looked at again.
FireTier(s) ==
    LET a == escSweep[s].alert
        t == FirstTier(escSweep[s].due)
    IN  /\ escSweep[s].users = {}
        /\ escSweep[s].due # {}
        /\ rows' = [rows EXCEPT ![a] = Append(@, [tier |-> t, asOf |-> escSweep[s].now])]
        /\ escSweep' = [escSweep EXCEPT ![s].due = @ \ {t},
                                        ![s].tier = t,
                                        ![s].users = Users[t]]
        /\ UNCHANGED <<clock, alertsTable, pages, acking, escCrashes>>

\* A plausible slip: the loop over the users is left after the first.
PageUserOnce(s, u) ==
    /\ u \in escSweep[s].users
    /\ pages' = pages \cup {<<escSweep[s].alert, escSweep[s].tier, u>>}
    /\ escSweep' = [escSweep EXCEPT ![s].users = {}]
    /\ UNCHANGED <<clock, alertsTable, rows, acking, escCrashes>>

PageUser(s, u) ==
    /\ u \in escSweep[s].users
    /\ pages' = pages \cup {<<escSweep[s].alert, escSweep[s].tier, u>>}
    /\ escSweep' = [escSweep EXCEPT ![s].users = @ \ {u}]
    /\ UNCHANGED <<clock, alertsTable, rows, acking, escCrashes>>

EndSweep(s) ==
    /\ escSweep[s].running
    /\ escSweep[s].users = {} /\ escSweep[s].due = {} /\ escSweep[s].open = {}
    /\ escSweep' = [escSweep EXCEPT ![s] = NoEscSweep]
    /\ UNCHANGED <<clock, alertsTable, rows, pages, acking, escCrashes>>

\* The worker dies, or the broker raises: the rows and pages so far remain.
CrashSweep(s) ==
    /\ escSweep[s].running
    /\ escCrashes < MaxEscCrashes
    /\ escCrashes' = escCrashes + 1
    /\ escSweep' = [escSweep EXCEPT ![s] = NoEscSweep]
    /\ UNCHANGED <<clock, alertsTable, rows, pages, acking>>

-----------------------------------------------------------------------------
EscSweepStep(s) ==
    \/ BeginSweep(s)
    \/ \E a \in Alerts : LoadAlert(s, a)
    \/ FireTier(s)
    \/ \E t \in DOMAIN Users : \E u \in Users[t] : PageUser(s, u)
    \/ EndSweep(s)

EscNext ==
    \/ Tick
    \/ \E a \in Alerts : Raise(a) \/ Recover(a)
    \/ \E o \in Operators : Acknowledge(o) \/ \E a \in Alerts : ReadForAck(o, a)
    \/ \E s \in Sweeps : EscSweepStep(s) \/ CrashSweep(s)

EscSpec == EscInit /\ [][EscNext]_escVars

(***************************************************************************)
(* Time passes, beat starts a sweep every minute and a running sweep goes  *)
(* on.  Nothing is assumed of alerts, operators, devices or crashes.       *)
(***************************************************************************)
EscFairness == WF_escVars(Tick) /\ \A s \in Sweeps : WF_escVars(EscSweepStep(s))

EscFairSpec == EscSpec /\ EscFairness

-----------------------------------------------------------------------------
\* Type correctness of the tables, the broker and the sweeps' local state.
EscTypeOK ==
    /\ clock \in Nat
    /\ state \in [Alerts -> {"none", "OPEN", "ACKED"}]
    /\ created \in [Alerts -> Nat]
    /\ acks \in [Alerts -> SUBSET Ack]
    /\ recovered \in [Alerts -> Nat]
    /\ rows \in [Alerts -> Seq(EscalationRow)]
    /\ pages \subseteq {p \in Alerts \X Nat \X UNION {Users[t] : t \in DOMAIN Users} :
                          p[3] \in Users[p[2]]}
    /\ escSweep \in [Sweeps -> Sweep]
    /\ acking \in [Operators -> Alerts \cup {NoAlert}]
    /\ escCrashes \in Nat

(***************************************************************************)
(* A tier is escalated again only by a sweep that overlaps the first one:  *)
(* however often beat fires and whatever crashes, an alert has at most one *)
(* row per tier for each sweep that can run at once (escalation.py 61-82). *)
(***************************************************************************)
FewDuplicates ==
    \A a \in Alerts : \A t \in Tiers(a) :
        Cardinality({i \in DOMAIN rows[a] : rows[a][i].tier = t})
          <= Cardinality(Sweeps)

(***************************************************************************)
(* The escalation chain is climbed from the bottom, although every tier is *)
(* a transaction of its own, sweeps overlap and may die between tiers: the *)
(* lower tiers of an alert have been escalated before a higher one is.     *)
(***************************************************************************)
LadderInOrder ==
    \A a \in Alerts : \A i \in DOMAIN rows[a] : \A t \in 1 .. (rows[a][i].tier - 1) :
        \E k \in 1 .. (i - 1) : rows[a][k].tier = t

(***************************************************************************)
(* Acknowledging an alert stops its escalation, except by sweeps that had  *)
(* begun by then: no row stems from a sweep that began after the alert was *)
(* acknowledged (escalation.py 3-5 and 54, alerts.py 62-66).               *)
(***************************************************************************)
AckStopsEscalation ==
    \A a \in Alerts : \A i \in DOMAIN rows[a] : \A k \in acks[a] :
        rows[a][i].asOf <= k.at

(***************************************************************************)
(* Sweeps never fire a tier twice to make up for one that died, so a crash *)
(* between the row and the pages loses pages: but never those of more than *)
(* one tier per crash (escalation.py 80-87).                               *)
(***************************************************************************)
Unpaged ==
    {at \in UNION {{a} \X Fired(a) : a \in Alerts} :
        \E u \in Users[at[2]] : <<at[1], at[2], u>> \notin pages}

Paging ==
    {<<escSweep[s].alert, escSweep[s].tier>> : s \in {z \in Sweeps : escSweep[z].users # {}}}

OnlyCrashesLosePages == Cardinality(Unpaged \ Paging) <= escCrashes

(***************************************************************************)
(* A tier that falls due is escalated, whatever crashes, unless the alert  *)
(* is acknowledged: the sweeps after a crash make up for it (escalation.py *)
(* 7-11).                                                                  *)
(***************************************************************************)
FallsDue(a, t) == state[a] = "OPEN" /\ created[a] + Policy[a][t] <= MaxClock

OpenAlertsEscalate ==
    \A a \in Alerts : \A t \in Tiers(a) :
        FallsDue(a, t) ~> (t \in Fired(a) \/ state[a] = "ACKED")

(***************************************************************************)
(* escalation.py 3-5: escalation stops on recovery, as on acknowledgement. *)
(* The code leaves the DOWN alert OPEN when the device recovers, and goes  *)
(* on escalating it.                                                       *)
(***************************************************************************)
RecoveryStopsEscalation ==
    \A a \in Alerts : \A i \in DOMAIN rows[a] :
        recovered[a] > 0 => rows[a][i].asOf <= recovered[a]
=============================================================================
