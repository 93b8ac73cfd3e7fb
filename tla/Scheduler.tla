----------------------------- MODULE Scheduler ------------------------------
(***************************************************************************)
(* scheduler/dispatch.py: every 15 seconds beat starts enqueue_due_checks, *)
(* which reads the active devices, sends a job for every check that is due *)
(* and commits the new due times in the end.  A sweep may overlap the next *)
(* one, and it may die, or the broker fail it, after it has sent some jobs *)
(* and before it commits.  evaluator/maintenance.py tags the jobs by the   *)
(* maintenance windows that the administrators keep.                       *)
(***************************************************************************)
EXTENDS Naturals, FiniteSets, FiniteSetsExt

CONSTANTS
    Site,          \* the devices: [type, building, nvr] of each
    NoRef,         \* a column that is NULL
    Interval,      \* the interval column of each kind of check, in ticks
    MaxJitter,     \* max_jitter, in ticks
    Sweepers,      \* workers of the default queue
    WindowRows,    \* maintenance windows an administrator may create
    MaxNow,        \* bound: schedNow
    MaxChanges,    \* bound: windows created or deleted, devices (de)activated
    MaxDeaths,     \* bound: deaths of sweeps
    MaxOverlaps    \* bound: sweeps begun while another runs

CheckKind == {"ping", "rtsp", "nvr", "image"}

ASSUME SchedulerAssumption ==
    /\ Interval \in [CheckKind -> Nat \ {0}]
    /\ MaxJitter \in Nat /\ MaxNow \in Nat /\ MaxChanges \in Nat
    /\ MaxDeaths \in Nat /\ MaxOverlaps \in Nat
    /\ IsFiniteSet(Sweepers)

VARIABLES
    schedNow,   \* the time
    enabled,    \* the devices with active = true
    windows,    \* rows of maintenance_windows
    dueAt,      \* next_*_check_at of every check, as committed
    sweep,      \* the local variables of every sweep
    sent,       \* how many jobs of a check were sent by sweeps of each time
    changes,    \* number of administrative changes
    deaths,     \* number of sweeps that have died
    overlaps    \* number of sweeps that began while another was running

schedVars == <<schedNow, enabled, windows, dueAt, sweep, sent, changes, deaths,
               overlaps>>

SchedDevices == DOMAIN Site
Now == 0 .. MaxNow

\* _CHECK_SPECS: the kinds of check that a type of device gets.
Applicable(type) ==
    {"ping"} \cup (IF type = "CAMERA" THEN {"rtsp", "image"} ELSE {})
             \cup (IF type = "NVR" THEN {"nvr"} ELSE {})

\* The checks of the fleet: pairs of a device and a kind.
Checks == UNION {{d} \X Applicable(Site[d].type) : d \in SchedDevices}

DueTime == 0 .. (MaxNow + MaxJitter + Max({Interval[k] : k \in CheckKind}))

\* now, the rows read, the devices still to be visited, the due checks of the
\* visited device, its maintenance tag, and the due times to be committed.
NoSweep == [stage |-> "idle", at |-> 0, rows |-> [c \in Checks |-> 0], todo |-> {},
            left |-> {}, flag |-> FALSE, moved |-> {}]

SchedInit ==
    /\ schedNow = 0
    /\ enabled \in SUBSET SchedDevices
    /\ windows = {}
    /\ dueAt = [c \in Checks |-> 0]     \* NULL and past times are due alike
    /\ sweep = [s \in Sweepers |-> NoSweep]
    /\ sent = [c \in Checks |-> [t \in Now |-> 0]]
    /\ changes = 0 /\ deaths = 0 /\ overlaps = 0

Sweeping == {s \in Sweepers : sweep[s].stage # "idle"}

-----------------------------------------------------------------------------
SchedTick ==
    /\ schedNow < MaxNow
    /\ schedNow' = schedNow + 1
    /\ UNCHANGED <<enabled, windows, dueAt, sweep, sent, changes, deaths, overlaps>>

Change ==
    /\ changes < MaxChanges
    /\ changes' = changes + 1
    /\ UNCHANGED <<schedNow, dueAt, sweep, sent, deaths, overlaps>>

\* An administrator creates or deletes a window, or (de)activates a device.
CreateWindow(w) ==
    /\ Change
    /\ windows' = windows \cup {w}
    /\ UNCHANGED enabled

DeleteWindow(w) ==
    /\ Change
    /\ w \in windows
    /\ windows' = windows \ {w}
    /\ UNCHANGED enabled

ChangeActive(d) ==
    /\ Change
    /\ enabled' = IF d \in enabled THEN enabled \ {d} ELSE enabled \cup {d}
    /\ UNCHANGED windows

-----------------------------------------------------------------------------
Matches(w, d) ==
    \/ w.scope = "CAMPUS"
    \/ w.scope = "DEVICE" /\ w.id = d
    \/ w.scope = "BUILDING" /\ w.building = Site[d].building
    \/ w.scope = "GROUP" /\ w.id = Site[d].nvr

\* is_device_in_maintenance: both ends of a window belong to it.
InMaintenance(d) ==
    \E w \in windows : w.from <= schedNow /\ schedNow <= w.to /\ Matches(w, d)

\* The time and the rows of the active devices are read.
BeginDispatch(s) ==
    /\ sweep[s].stage = "idle"
    /\ Sweeping # {} => overlaps < MaxOverlaps
    /\ overlaps' = overlaps + (IF Sweeping # {} THEN 1 ELSE 0)
    /\ sweep' = [sweep EXCEPT ![s] = [NoSweep EXCEPT !.stage = "scanning",
                                                     !.at = schedNow,
                                                     !.rows = dueAt,
                                                     !.todo = enabled]]
    /\ UNCHANGED <<schedNow, enabled, windows, dueAt, sent, changes, deaths>>

\* Plausible slip: a due time that is NULL (0 here) is not in the past.
DueNowIfSet(s, d) ==
    {c \in {d} \X Applicable(Site[d].type) :
        0 < sweep[s].rows[c] /\ sweep[s].rows[c] <= sweep[s].at}

DueNow(s, d) ==
    {c \in {d} \X Applicable(Site[d].type) : sweep[s].rows[c] <= sweep[s].at}

\* The next device, in whatever order the query gave: its tag, its due checks.
VisitDevice(s, d) ==
    /\ sweep[s].stage = "scanning"
    /\ sweep[s].left = {} /\ d \in sweep[s].todo
    /\ sweep' = [sweep EXCEPT ![s].todo = @ \ {d},
                              ![s].flag = InMaintenance(d),
                              ![s].left = DueNow(s, d)]
    /\ UNCHANGED <<schedNow, enabled, windows, dueAt, sent, changes, deaths, overlaps>>

\* Plausible slip: the next check is an interval after the last due time.
NextDueFromLast(s, c, jitter) == sweep[s].rows[c] + Interval[c[2]] + jitter

NextDue(s, c, jitter) == sweep[s].at + Interval[c[2]] + jitter

\* The job is on the broker at once, the new due time in the session only.
SendCheck(s, c, jitter) ==
    /\ c \in sweep[s].left
    /\ sent' = [sent EXCEPT ![c][sweep[s].at] = @ + 1]
    /\ sweep' = [sweep EXCEPT ![s].left = @ \ {c},
                              ![s].moved = @ \cup {<<c, NextDue(s, c, jitter)>>}]
    /\ UNCHANGED <<schedNow, enabled, windows, dueAt, changes, deaths, overlaps>>

\* The commit writes the due times that were set, and no others.
CommitDispatch(s) ==
    /\ sweep[s].stage = "scanning"
    /\ sweep[s].left = {} /\ sweep[s].todo = {}
    /\ dueAt' = [c \in Checks |->
                   IF \E m \in sweep[s].moved : m[1] = c
                   THEN (CHOOSE m \in sweep[s].moved : m[1] = c)[2] ELSE dueAt[c]]
    /\ sweep' = [sweep EXCEPT ![s] = NoSweep]
    /\ UNCHANGED <<schedNow, enabled, windows, sent, changes, deaths, overlaps>>

\* The worker dies or send_task raises: the session is rolled back.
AbortDispatch(s) ==
    /\ sweep[s].stage = "scanning"
    /\ deaths < MaxDeaths
    /\ deaths' = deaths + 1
    /\ sweep' = [sweep EXCEPT ![s] = NoSweep]
    /\ UNCHANGED <<schedNow, enabled, windows, dueAt, sent, changes, overlaps>>

SchedNext ==
    \/ SchedTick
    \/ \E w \in WindowRows : CreateWindow(w) \/ DeleteWindow(w)
    \/ \E d \in SchedDevices : ChangeActive(d)
    \/ \E s \in Sweepers :
         \/ BeginDispatch(s) \/ CommitDispatch(s) \/ AbortDispatch(s)
         \/ \E d \in SchedDevices : VisitDevice(s, d)
         \/ \E c \in Checks, jitter \in 0 .. MaxJitter : SendCheck(s, c, jitter)

SweepStep(s) ==
    \/ BeginDispatch(s) \/ CommitDispatch(s)
    \/ \E d \in SchedDevices : VisitDevice(s, d)
    \/ \E c \in Checks, jitter \in 0 .. MaxJitter : SendCheck(s, c, jitter)

\* Beat starts sweeps for ever, and a sweep that does not die goes on.
SchedSpec ==
    SchedInit /\ [][SchedNext]_schedVars /\ \A s \in Sweepers : WF_schedVars(SweepStep(s))

-----------------------------------------------------------------------------
SchedTypeOK ==
    /\ schedNow \in Now /\ changes \in 0 .. MaxChanges
    /\ deaths \in 0 .. MaxDeaths /\ overlaps \in 0 .. MaxOverlaps
    /\ enabled \subseteq SchedDevices /\ windows \subseteq WindowRows
    /\ dueAt \in [Checks -> DueTime]
    /\ sent \in [Checks -> [Now -> Nat]]
    /\ \A s \in Sweepers :
         /\ sweep[s].stage \in {"idle", "scanning"}
         /\ sweep[s].at \in Now /\ sweep[s].rows \in [Checks -> DueTime]
         /\ sweep[s].todo \subseteq SchedDevices /\ sweep[s].left \subseteq Checks
         /\ sweep[s].moved \subseteq Checks \X DueTime

\* A check is sent once in an interval, but for one repetition per sweep that
\* died and per sweep that overlapped another (enqueue_due_checks sends before
\* it commits, and the commits of two sweeps may set a due time back).
RepeatsAreExplained ==
    \A c \in Checks, t \in Now :
        MapThenSumSet(LAMBDA u : sent[c][u], {u \in Now : t <= u /\ u < t + Interval[c[2]]})
            <= 1 + deaths + overlaps

\* A check of an active device that is due is sent and gets a new due time, in
\* spite of sweeps that die, overlap, or commit in the wrong order.
NoCheckStarves ==
    \A c \in Checks :
        (c[1] \in enabled /\ dueAt[c] <= schedNow)
            ~> (c[1] \notin enabled \/ dueAt[c] > schedNow)
=============================================================================
