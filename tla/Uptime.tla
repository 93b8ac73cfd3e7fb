------------------------------- MODULE Uptime -------------------------------
(***************************************************************************)
(* What is made of status_events: reports/uptime.py computes the downtime  *)
(* of a device in a period, generate_monthly_report mails it for the month *)
(* before, and device_history (api/routers/devices.py) shows that of the   *)
(* last 24 hours.  The events are written by evaluator/service.py; here a  *)
(* device changes its state at any tick, at most once in a tick.  Devices  *)
(* do not meet, so one of them is modelled.                                *)
(***************************************************************************)
EXTENDS Naturals, Sequences, FiniteSets, SequencesExt, FiniteSetsExt

CONSTANTS
    Recipients,  \* of the monthly report
    Month,       \* length of a reporting period, in ticks
    PageSpan,    \* the 24 hours of device_history, in ticks
    LastTick,    \* bound: upNow
    MaxLost      \* bound: deaths of report tasks

ASSUME UptimeAssumption ==
    /\ Month \in Nat \ {0} /\ PageSpan \in Nat \ {0}
    /\ LastTick \in Nat /\ MaxLost \in Nat

VARIABLES
    upNow,       \* the time
    shown,       \* devices.current_state
    history,     \* the device's rows of status_events
    outOfOrder,  \* the ticks it has really been DOWN of its own
    reportsDue,  \* months whose report beat has enqueued
    report,      \* the report task: its recipients left, month and figure
    mailed,      \* the figures each recipient has been sent
    lost         \* number of report tasks that have died

upVars == <<upNow, shown, history, outOfOrder, reportsDue, report, mailed, lost>>

ShownState == {"UP", "DEGRADED", "DOWN", "UNKNOWN", "MAINTENANCE"}
Open == LastTick + 1     \* ended_at is NULL

NoReport == [left |-> {}, month |-> 0, figure |-> 0]

UpInit ==
    /\ upNow = 0
    /\ shown = "UNKNOWN"
    /\ history = << >>
    /\ outOfOrder = {}
    /\ reportsDue = {} /\ report = NoReport
    /\ mailed = [r \in Recipients |-> {}]
    /\ lost = 0

Downs == {i \in DOMAIN history : history[i].state = "DOWN"}

\* _transition ends the latest DOWN event if the device comes UP or DEGRADED.
Ended(next) ==
    IF shown = "DOWN" /\ next \in {"UP", "DEGRADED"}
    THEN [history EXCEPT ![Max(Downs)].to = upNow] ELSE history

\* The evaluator moves the device; a device that leaves MAINTENANCE is UNKNOWN
\* until its next transition, which makes no difference to the events.
Move(next, suppressed) ==
    /\ next # shown
    /\ history # << >> => Last(history).from < upNow
    /\ suppressed => next = "DOWN"
    /\ history' = Append(Ended(next), [state |-> next, from |-> upNow, to |-> Open,
                                       suppressed |-> suppressed])
    /\ shown' = next
    /\ UNCHANGED <<upNow, outOfOrder, reportsDue, report, mailed, lost>>

\* Time passes; a tick counts as down if the device shows DOWN all through it.
\* With a new month beat enqueues the report of the one before.
UpTick ==
    /\ upNow < LastTick
    /\ upNow' = upNow + 1
    /\ outOfOrder' = IF shown = "DOWN" /\ ~Last(history).suppressed
                     THEN outOfOrder \cup {upNow} ELSE outOfOrder
    /\ reportsDue' = IF upNow' % Month = 0
                     THEN reportsDue \cup {(upNow' \div Month) - 1} ELSE reportsDue
    /\ UNCHANGED <<shown, history, report, mailed, lost>>

-----------------------------------------------------------------------------
Least(a, b) == IF a < b THEN a ELSE b
Greatest(a, b) == IF a > b THEN a ELSE b

EndOf(event) == IF event.to = Open THEN upNow ELSE event.to

\* A plausible slip: an outage that began before the period counts from its
\* beginning, and one that goes on counts beyond the period.
OverlapWhole(event, start, end) == EndOf(event) - event.from

\* _overlap_seconds
Overlap(event, start, end) ==
    LET from == Greatest(event.from, start)
        to   == Least(EndOf(event), end)
    IN  IF to > from THEN to - from ELSE 0

Charged == {i \in Downs : ~history[i].suppressed}

\* compute_device_uptime
Downtime(start, end) ==
    MapThenSumSet(LAMBDA i : Overlap(history[i], start, end),
                  {i \in Charged : history[i].from < end})

\* A plausible slip: suppressed outages are charged on the page.
PageDowntimeOfAll ==
    MapThenSumSet(LAMBDA i : EndOf(history[i]) - history[i].from,
                  {i \in Downs : history[i].from + PageSpan >= upNow})

\* device_history: the outages that began within the last 24 hours.
PageDowntime ==
    MapThenSumSet(LAMBDA i : EndOf(history[i]) - history[i].from,
                  {i \in Charged : history[i].from + PageSpan >= upNow})

-----------------------------------------------------------------------------
\* generate_monthly_report: the figures of the month before are computed once.
BeginReport(m) ==
    /\ report.left = {}
    /\ m \in reportsDue
    /\ reportsDue' = reportsDue \ {m}
    /\ report' = [left |-> Recipients, month |-> m,
                  figure |-> Downtime(m * Month, (m + 1) * Month)]
    /\ UNCHANGED <<upNow, shown, history, outOfOrder, mailed, lost>>

\* adapter.send, whose result is not looked at: the message may have failed.
MailReport(r, delivered) ==
    /\ r \in report.left
    /\ report' = [report EXCEPT !.left = @ \ {r}]
    /\ mailed' = IF delivered
                 THEN [mailed EXCEPT ![r] = @ \cup {<<report.month, report.figure>>}]
                 ELSE mailed
    /\ UNCHANGED <<upNow, shown, history, outOfOrder, reportsDue, lost>>

\* The worker dies; nothing records who has got the report and who has not.
LoseReport ==
    /\ report.left # {}
    /\ lost < MaxLost
    /\ lost' = lost + 1
    /\ report' = NoReport
    /\ UNCHANGED <<upNow, shown, history, outOfOrder, reportsDue, mailed>>

UpNext ==
    \/ UpTick \/ LoseReport
    \/ \E next \in ShownState \ {"UNKNOWN"}, s \in BOOLEAN : Move(next, s)
    \/ \E m \in reportsDue : BeginReport(m)
    \/ \E r \in Recipients, d \in BOOLEAN : MailReport(r, d)

UpSpec == UpInit /\ [][UpNext]_upVars

-----------------------------------------------------------------------------
Periods == {p \in (0 .. upNow) \X (0 .. upNow) : p[1] <= p[2]}

\* Maintenance has interrupted no outage: only the last event may be open.
NeverInterrupted == \A i \in Downs : history[i].to = Open => i = Len(history)

UpTypeOK ==
    /\ upNow \in 0 .. LastTick /\ shown \in ShownState
    /\ history \in Seq([state : ShownState, from : Nat, to : Nat, suppressed : BOOLEAN])
    /\ outOfOrder \subseteq 0 .. LastTick /\ reportsDue \subseteq Nat
    /\ mailed \in [Recipients -> SUBSET (Nat \X Nat)] /\ lost \in 0 .. MaxLost

\* The downtime reported for any period is the number of its ticks the device
\* was down of its own; an outage that maintenance has interrupted, and only
\* that, makes it greater (compute_device_uptime over what _transition wrote).
ReportCountsDowntime ==
    \A p \in Periods :
        LET really == Cardinality({t \in outOfOrder : p[1] <= t /\ t < p[2]})
        IN  /\ Downtime(p[1], p[2]) >= really
            /\ NeverInterrupted => Downtime(p[1], p[2]) = really

\* The device page and the report agree on the last 24 hours, except for an
\* outage that began before them, which the page leaves out (device_history).
PageAgreesWithReport ==
    LET since == IF upNow > PageSpan THEN upNow - PageSpan ELSE 0
    IN  /\ PageDowntime <= Downtime(since, upNow)
        /\ (\A i \in Charged : history[i].from < since => EndOf(history[i]) <= since)
               => PageDowntime = Downtime(since, upNow)

\* A figure that was mailed for a month stays what the report of that month
\* gives ever after: outages that go on at its end do not change it
\* (generate_monthly_report against uptime_report).
MailedFiguresStayTrue ==
    \A r \in Recipients : \A f \in mailed[r] :
        f[2] = Downtime(f[1] * Month, (f[1] + 1) * Month)
=============================================================================
