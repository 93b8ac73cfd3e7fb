------------------------------ MODULE Flapping ------------------------------
(***************************************************************************)
(* evaluator/flapping.py: every five minutes a sweep raises an alert for a *)
(* device with many DOWN events in the last hour, and then, in a second    *)
(* transaction, one for a recorder whose disk will soon be full.  Each is  *)
(* held back by an alert of its kind within a cooldown; but the sweep adds *)
(* its alert some time after it has looked, and sweeps may overlap or die. *)
(* One device stands for all, since devices do not meet.                   *)
(***************************************************************************)
EXTENDS Naturals, FiniteSets, FiniteSetsExt

CONSTANTS
    FlapSweeps,    \* workers that may run the sweep
    FlapCycles,    \* FLAP_CYCLES
    FlapWindow,    \* FLAP_WINDOW_HOURS, in ticks
    Lookback,      \* DISK_FORECAST_LOOKBACK_DAYS, in ticks
    WarnTicks,     \* DISK_FORECAST_WARNING_DAYS, in ticks
    Cooldown,      \* of each kind of alert, in ticks
    DiskLevels,    \* percentages the recorder may report
    FlapTicks      \* bound: flapNow

AlertKind == {"FLAPPING", "DISK_FORECAST"}

ASSUME FlappingAssumption ==
    /\ IsFiniteSet(FlapSweeps)
    /\ FlapCycles \in Nat /\ FlapWindow \in Nat /\ Lookback \in Nat
    /\ WarnTicks \in Nat /\ FlapTicks \in Nat
    /\ Cooldown \in [AlertKind -> Nat \ {0}]
    /\ DiskLevels \subseteq 0 .. 100

VARIABLES
    flapNow,   \* the time
    downAt,    \* started_at of the device's DOWN events
    diskAt,    \* its NVR results that have a disk_pct: pairs of time and value
    pass,      \* the local variables of each sweep
    raised     \* the alerts: kind, created_at, and the sweep that added it

flapVars == <<flapNow, downAt, diskAt, pass, raised>>

NoPass == [stage |-> "idle", at |-> 0, created |-> 0, add |-> FALSE]

FlapInit ==
    /\ flapNow = 0
    /\ downAt = {} /\ diskAt = {} /\ raised = {}
    /\ pass = [s \in FlapSweeps |-> NoPass]

FlapTick ==
    /\ flapNow < FlapTicks
    /\ flapNow' = flapNow + 1
    /\ UNCHANGED <<downAt, diskAt, pass, raised>>

\* The evaluator records a DOWN event, a worker an NVR result.
GoDown ==
    /\ downAt' = downAt \cup {flapNow}
    /\ UNCHANGED <<flapNow, diskAt, pass, raised>>

SampleDisk(pct) ==
    /\ \A p \in diskAt : p[1] < flapNow
    /\ diskAt' = diskAt \cup {<<flapNow, pct>>}
    /\ UNCHANGED <<flapNow, downAt, pass, raised>>

-----------------------------------------------------------------------------
Flaps(now) == Cardinality({t \in downAt : t + FlapWindow >= now}) >= FlapCycles

\* The line through the oldest and the newest sample of the lookback reaches 100
\* within the warning time: (100 - p1) / slope <= WarnTicks.
FillsUp(now) ==
    LET points == {p \in diskAt : p[1] + Lookback >= now}
        oldest == CHOOSE p \in points : \A q \in points : p[1] <= q[1]
        newest == CHOOSE p \in points : \A q \in points : p[1] >= q[1]
    IN  /\ Cardinality(points) >= 2
        /\ newest[2] > oldest[2]
        /\ (100 - newest[2]) * (newest[1] - oldest[1])
               <= WarnTicks * (newest[2] - oldest[2])

\* A plausible slip: an alert keeps the next one away only if it is older.
RecentBefore(kind, now) ==
    \E a \in raised : a.kind = kind /\ a.created + Cooldown[kind] < now

Recent(kind, now) ==
    \E a \in raised : a.kind = kind /\ a.created + Cooldown[kind] >= now

Wants(kind, now) ==
    /\ IF kind = "FLAPPING" THEN Flaps(now) ELSE FillsUp(now)
    /\ ~Recent(kind, now)

\* now is read once for both halves.
BeginPass(s) ==
    /\ pass[s].stage = "idle"
    /\ pass' = [pass EXCEPT ![s] = [NoPass EXCEPT !.stage = "FLAPPING", !.at = flapNow]]
    /\ UNCHANGED <<flapNow, downAt, diskAt, raised>>

\* The first query of a half begins its transaction, whose time created_at will
\* bear; events and recent alerts are looked up.
LookForAlerts(s) ==
    /\ pass[s].stage \in AlertKind
    /\ pass' = [pass EXCEPT ![s].stage = IF @ = "FLAPPING" THEN "flap found" ELSE "disk found",
                            ![s].created = flapNow,
                            ![s].add = Wants(pass[s].stage, pass[s].at)]
    /\ UNCHANGED <<flapNow, downAt, diskAt, raised>>

\* The half commits, and the second one follows the first.
CommitPass(s) ==
    LET kind == IF pass[s].stage = "flap found" THEN "FLAPPING" ELSE "DISK_FORECAST"
    IN  /\ pass[s].stage \in {"flap found", "disk found"}
        /\ raised' = IF pass[s].add
                     THEN raised \cup {[kind |-> kind, created |-> pass[s].created, by |-> s]}
                     ELSE raised
        /\ pass' = [pass EXCEPT ![s] = IF kind = "FLAPPING"
                                       THEN [NoPass EXCEPT !.stage = "DISK_FORECAST", !.at = pass[s].at]
                                       ELSE NoPass]
        /\ UNCHANGED <<flapNow, downAt, diskAt>>

DiePass(s) ==
    /\ pass[s].stage # "idle"
    /\ pass' = [pass EXCEPT ![s] = NoPass]
    /\ UNCHANGED <<flapNow, downAt, diskAt, raised>>

FlapNext ==
    \/ FlapTick \/ GoDown
    \/ \E pct \in DiskLevels : SampleDisk(pct)
    \/ \E s \in FlapSweeps :
         BeginPass(s) \/ LookForAlerts(s) \/ CommitPass(s) \/ DiePass(s)

FlapSpec == FlapInit /\ [][FlapNext]_flapVars

-----------------------------------------------------------------------------
FlapTypeOK ==
    /\ flapNow \in 0 .. FlapTicks /\ downAt \subseteq 0 .. FlapTicks
    /\ diskAt \subseteq (0 .. FlapTicks) \X DiskLevels
    /\ \A a \in raised : a.kind \in AlertKind /\ a.created \in 0 .. FlapTicks
    /\ \A s \in FlapSweeps : pass[s].at <= pass[s].created \/ pass[s].created = 0

\* Within a cooldown a device gets at most as many alerts of a kind as there are
\* sweeps that overlap: one sweep alone respects its own alerts, and two may
\* both look before either commits (check_flapping_and_disk_forecast).
AlertsAreSpaced ==
    \A kind \in AlertKind, t \in 0 .. FlapTicks :
        Cardinality({a \in raised : /\ a.kind = kind
                                    /\ t <= a.created /\ a.created < t + Cooldown[kind]})
            <= Cardinality(FlapSweeps)
=============================================================================
