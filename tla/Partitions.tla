----------------------------- MODULE Partitions -----------------------------
(***************************************************************************)
(* scheduler/partitions.py: check_results is partitioned by month.  Every  *)
(* night at 02:00 a task wants the partitions of this month and of the     *)
(* next three, in one transaction.  Results of a month without a partition *)
(* go to the default partition (alembic 0002), the only one there is after *)
(* the installation (alembic upgrade).                                     *)
(***************************************************************************)
EXTENDS Naturals, FiniteSets

CONSTANTS
    MonthsAhead,   \* months_ahead
    FirstMonth,    \* <<year, month>> of the installation
    LastMonth,     \* bound: today
    RowsKept       \* months after which rollup_and_retire deletes rows

ASSUME PartitionsAssumption ==
    /\ MonthsAhead \in Nat /\ RowsKept \in Nat
    /\ FirstMonth \in Nat \X (1 .. 12) /\ LastMonth \in Nat \X (1 .. 12)

VARIABLES
    today,       \* year and month
    partitions,  \* the bounds of the monthly partitions
    stray,       \* months of which the default partition holds rows
    nights       \* months in which the task has run, in whatever way it ended

partVars == <<today, partitions, stray, nights>>

Before(a, b) == a[1] < b[1] \/ (a[1] = b[1] /\ a[2] < b[2])

MonthAfter(m) == IF m[2] = 12 THEN <<m[1] + 1, 1>> ELSE <<m[1], m[2] + 1>>

\* _month_bounds: from the first of the month to the first of the next.
MonthBounds(m) == <<m, MonthAfter(m)>>

\* The month that the loop has reached after i rounds.
Later(m, i) ==
    LET go[k \in 0 .. i] == IF k = 0 THEN m ELSE MonthAfter(go[k - 1])
    IN  go[i]

Wanted == {MonthBounds(Later(today, i)) : i \in 0 .. MonthsAhead}

Holds(part, m) == ~Before(m, part[1]) /\ Before(m, part[2])

\* The engine's driver is psycopg 3, which leaves the parameters of a statement to
\* the server; and PostgreSQL takes none in a CREATE TABLE (external).
TakesParameters == FALSE

\* The statements that are refused: IF NOT EXISTS passes over a partition that is
\* there, and no partition is made whose rows the default one holds.
Refused == {p \in Wanted \ partitions : ~TakesParameters \/ \E m \in stray : Holds(p, m)}

PartInit ==
    /\ today = FirstMonth
    /\ partitions = {} /\ stray = {} /\ nights = {}

-----------------------------------------------------------------------------
NextMonth ==
    /\ Before(today, LastMonth)
    /\ today' = MonthAfter(today)
    /\ UNCHANGED <<partitions, stray, nights>>

\* A check worker inserts a result, which bears the time of the insert.
FileResult ==
    /\ stray' = IF \E p \in partitions : Holds(p, today) THEN stray ELSE stray \cup {today}
    /\ UNCHANGED <<today, partitions, nights>>

\* ensure_partitions: one refused statement ends the task and rolls all back.
EnsurePartitions ==
    /\ partitions' = IF Refused = {} THEN partitions \cup Wanted ELSE partitions
    /\ nights' = nights \cup {today}
    /\ UNCHANGED <<today, stray>>

\* The nightly rollup deletes the old results, whichever partition holds them.
RetireRows ==
    LET old == {m \in stray : Before(Later(m, RowsKept), today)}
    IN  /\ old # {}
        /\ stray' = stray \ old
        /\ UNCHANGED <<today, partitions, nights>>

PartNext == NextMonth \/ FileResult \/ EnsurePartitions \/ RetireRows

PartSpec == PartInit /\ [][PartNext]_partVars

-----------------------------------------------------------------------------
PartTypeOK ==
    /\ today \in Nat \X (1 .. 12)
    /\ \A p \in partitions : p = MonthBounds(p[1])
    /\ stray \cup nights \subseteq Nat \X (1 .. 12)

\* When the nightly task has run in a month, that month and the next three have
\* their partitions: "Ensures monthly RANGE partitions exist on check_results
\* ahead of need" (partitions.py).
PartitionsAheadOfNeed ==
    \A r \in nights : \A i \in 0 .. MonthsAhead : MonthBounds(Later(r, i)) \in partitions
=============================================================================
