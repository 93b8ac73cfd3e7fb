----------------------------- MODULE Retention ------------------------------
(***************************************************************************)
(* reports/tasks.py rollup_and_retire: every night at 02:30 UTC the check  *)
(* results older than RAW_RETENTION_DAYS are counted by day, written to    *)
(* check_results_daily where the day has no row yet, and deleted; then     *)
(* daily rows older than DAILY_RETENTION_DAYS are deleted.  These are      *)
(* three transactions.  A run may start late, overlap another, or die.     *)
(* The code groups by device and check type as well; groups do not meet,   *)
(* so one of them is modelled, with at most one result in a tick.          *)
(***************************************************************************)
EXTENDS Naturals, FiniteSets

CONSTANTS
    Runs,            \* workers of the reports queue
    DayLength,       \* ticks in a day
    RunAt,           \* the tick of the day at which beat starts a run: 02:30
    RawRetention,    \* RAW_RETENTION_DAYS, in ticks
    DailyRetention,  \* DAILY_RETENTION_DAYS, in ticks
    MaxClock,        \* bound: clock
    MaxCrashes       \* bound: deaths of runs

ASSUME RetentionAssumption ==
    /\ DayLength \in Nat \ {0}
    /\ RunAt \in 0 .. (DayLength - 1)
    /\ RawRetention \in Nat /\ DailyRetention \in Nat
    /\ MaxClock \in Nat /\ MaxCrashes \in Nat

VARIABLES
    clock,   \* time of the database and of the workers
    taken,   \* times of all check results ever committed
    raw,     \* times of the rows of check_results
    daily,   \* samples of each day's row of check_results_daily, 0 for no row
    due,     \* rollups that beat has enqueued and nobody has started
    run,     \* each worker's run: its stage, cutoff and query results
    crashes  \* number of runs that have died

vars == <<clock, taken, raw, daily, due, run, crashes>>

Time == 0 .. MaxClock
Day(t) == t \div DayLength
Days == {Day(t) : t \in Time}

Stage == {"idle", "counted", "compared", "inserted", "deleted"}

\* retire holds the times older than the cutoff; counts their number by day;
\* missing the days among them that have no daily row.
Run == [stage : Stage, retire : SUBSET Time, counts : [Days -> Nat],
        missing : SUBSET Days]

NoRun == [stage |-> "idle", retire |-> {}, counts |-> [d \in Days |-> 0],
          missing |-> {}]

OlderThan(age) == {t \in Time : t + age < clock}

CountByDay(times) ==
    [d \in Days |-> Cardinality({t \in times : Day(t) = d})]

Init ==
    /\ clock = 0
    /\ taken = {}
    /\ raw = {}
    /\ daily = [d \in Days |-> 0]
    /\ due = 0
    /\ run = [r \in Runs |-> NoRun]
    /\ crashes = 0

-----------------------------------------------------------------------------
\* Time passes, and beat enqueues a rollup when the tick of the day comes.
Tick ==
    /\ clock < MaxClock
    /\ clock' = clock + 1
    /\ due' = due + (IF clock' % DayLength = RunAt THEN 1 ELSE 0)
    /\ UNCHANGED <<taken, raw, daily, run, crashes>>

\* A check worker commits a result (module Evaluator).
RecordResult ==
    /\ clock \notin taken
    /\ taken' = taken \cup {clock}
    /\ raw' = raw \cup {clock}
    /\ UNCHANGED <<clock, daily, due, run, crashes>>

\* A plausible slip: one job is delivered twice.
CountResultsTwice(r) ==
    /\ run[r].stage = "idle"
    /\ due' = due - 1
    /\ run' = [run EXCEPT ![r] = [NoRun EXCEPT !.stage = "counted"]]
    /\ UNCHANGED <<clock, taken, raw, daily, crashes>>

\* The cutoff is fixed, and the results before it are counted by day.
CountResults(r) ==
    /\ run[r].stage = "idle"
    /\ due > 0
    /\ due' = due - 1
    /\ LET retire == OlderThan(RawRetention)
       IN  run' = [run EXCEPT ![r] = [stage |-> "counted",
                                      retire |-> retire,
                                      counts |-> CountByDay(raw \cap retire),
                                      missing |-> {}]]
    /\ UNCHANGED <<clock, taken, raw, daily, crashes>>

\* A plausible slip: existing rows are added to.
Merged(r) ==
    [d \in Days |-> daily[d] + run[r].counts[d]]

\* The days without a row get one; a day that has one keeps it as it is.
Inserted(r) ==
    [d \in Days |-> IF d \in run[r].missing THEN run[r].counts[d] ELSE daily[d]]

\* db.get for every counted day.
CompareDays(r) ==
    /\ run[r].stage = "counted"
    /\ run' = [run EXCEPT
                 ![r].stage = "compared",
                 ![r].missing = {d \in Days : run[r].counts[d] > 0 /\ daily[d] = 0}]
    /\ UNCHANGED <<clock, taken, raw, daily, due, crashes>>

InsertDaily(r) ==
    /\ run[r].stage = "compared"
    /\ \A d \in run[r].missing : daily[d] = 0
    /\ daily' = Inserted(r)
    /\ run' = [run EXCEPT ![r].stage = "inserted"]
    /\ UNCHANGED <<clock, taken, raw, due, crashes>>

\* Another run has inserted the row meanwhile: the primary key refuses it, the
\* commit raises and the run ends before it deletes anything.
RefuseDaily(r) ==
    /\ run[r].stage = "compared"
    /\ \E d \in run[r].missing : daily[d] > 0
    /\ run' = [run EXCEPT ![r] = NoRun]
    /\ UNCHANGED <<clock, taken, raw, daily, due, crashes>>

\* Two plausible slips: the deletion does not wait for the daily rows, and its
\* cutoff is computed anew with an off-by-one.
DeleteRawFirst(r) ==
    /\ run[r].stage \in {"counted", "inserted"}
    /\ raw' = raw \ run[r].retire
    /\ run' = [run EXCEPT ![r].stage = IF @ = "counted" THEN @ ELSE "deleted"]
    /\ UNCHANGED <<clock, taken, daily, due, crashes>>

DeleteRawTooYoung(r) ==
    /\ run[r].stage = "inserted"
    /\ raw' = raw \ {t \in Time : t + RawRetention <= clock}
    /\ run' = [run EXCEPT ![r].stage = "deleted"]
    /\ UNCHANGED <<clock, taken, daily, due, crashes>>

DeleteRaw(r) ==
    /\ run[r].stage = "inserted"
    /\ raw' = raw \ run[r].retire
    /\ run' = [run EXCEPT ![r].stage = "deleted"]
    /\ UNCHANGED <<clock, taken, daily, due, crashes>>

Expired(d) == d * DayLength + DailyRetention < clock

DeleteDaily(r) ==
    /\ run[r].stage = "deleted"
    /\ daily' = [d \in Days |-> IF Expired(d) THEN 0 ELSE daily[d]]
    /\ run' = [run EXCEPT ![r] = NoRun]
    /\ UNCHANGED <<clock, taken, raw, due, crashes>>

\* What was committed stays; the next night's run is the only retry.
CrashRun(r) ==
    /\ run[r].stage # "idle"
    /\ crashes < MaxCrashes
    /\ crashes' = crashes + 1
    /\ run' = [run EXCEPT ![r] = NoRun]
    /\ UNCHANGED <<clock, taken, raw, daily, due>>

Next ==
    \/ Tick
    \/ RecordResult
    \/ \E r \in Runs :
          \/ CountResults(r)
          \/ CompareDays(r)
          \/ InsertDaily(r)
          \/ RefuseDaily(r)
          \/ DeleteRaw(r)
          \/ DeleteDaily(r)
          \/ CrashRun(r)

Spec == Init /\ [][Next]_vars

-----------------------------------------------------------------------------
\* Type correctness of the tables, the queue and the runs' local state.
TypeOK ==
    /\ clock \in Time
    /\ taken \subseteq Time /\ raw \subseteq taken
    /\ daily \in [Days -> Nat]
    /\ due \in Nat
    /\ run \in [Runs -> Run]
    /\ crashes \in Nat

(***************************************************************************)
(* The live view of a device is never cut short: however late a run acts   *)
(* on its cutoff, results younger than the raw retention are all there     *)
(* (tasks.py 32 and 64).                                                   *)
(***************************************************************************)
RecentResultsKept ==
    \A t \in taken : t + RawRetention >= clock => t \in raw

(***************************************************************************)
(* No day is counted twice: runs that overlap, or that repeat what a dead  *)
(* run had already written, leave at most as many samples in a daily row   *)
(* as there were results that day (tasks.py 52-53).                        *)
(***************************************************************************)
NeverOvercounted ==
    \A d \in Days : daily[d] <= CountByDay(taken)[d]

(***************************************************************************)
(* No day vanishes: a deleted result has left a daily row behind, until    *)
(* that row expires, wherever a run dies (tasks.py 62-65).                 *)
(***************************************************************************)
NoDayVanishes ==
    \A t \in taken \ raw : daily[Day(t)] > 0 \/ Expired(Day(t))

(***************************************************************************)
(* tasks.py 30-31: only what is wholly older than the retention is rolled  *)
(* up and dropped, so that every deleted result is counted in its day's    *)
(* row.  The cutoff falls in the middle of a day: that day's row is made   *)
(* of its first hours, and the rest is deleted uncounted the night after.  *)
(***************************************************************************)
DeletedResultsAreCounted ==
    \A d \in Days :
        ~Expired(d) => CountByDay(taken \ raw)[d] <= daily[d]
=============================================================================
