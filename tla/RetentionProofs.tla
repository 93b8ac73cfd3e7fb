--------------------------- MODULE RetentionProofs --------------------------
(***************************************************************************)
(* Proofs about Retention, for any lengths of the day and of the two       *)
(* retentions, any number of runs that overlap and any deaths of them.     *)
(*                                                                         *)
(* The argument: a run retires only what was too old when it fixed its     *)
(* cutoff, and time does not go back; what it has counted is no more than  *)
(* there was; and every result it is about to delete is, from stage to     *)
(* stage, counted, then missing or in a daily row, then in a daily row.    *)
(***************************************************************************)
EXTENDS Retention, FiniteSetTheorems, TLAPS

\* What a run retires was older than the retention when it began.
CutoffsPassed ==
    \A r \in Runs : \A t \in run[r].retire : t + RawRetention < clock

\* No run has counted more results of a day than there were.
CountsBounded ==
    \A r \in Runs : \A d \in Days : run[r].counts[d] <= CountByDay(taken)[d]

\* The day has a row, or had one that expired.
Rolled(d) == daily[d] > 0 \/ Expired(d)

\* The results that r is going to delete will not vanish.
Safeguarded(r) ==
    /\ run[r].stage = "counted" =>
         \A t \in run[r].retire \cap raw : run[r].counts[Day(t)] > 0
    /\ run[r].stage = "compared" =>
         /\ \A t \in run[r].retire \cap raw : Day(t) \in run[r].missing \/ Rolled(Day(t))
         /\ \A d \in run[r].missing : run[r].counts[d] > 0
    /\ run[r].stage = "inserted" =>
         \A t \in run[r].retire \cap raw : Rolled(Day(t))

KeptInv == TypeOK /\ CutoffsPassed /\ RecentResultsKept

CountInv == TypeOK /\ CountsBounded /\ NeverOvercounted

RollInv == KeptInv /\ NoDayVanishes /\ \A r \in Runs : Safeguarded(r)

-----------------------------------------------------------------------------
\* Days are natural numbers, and every time has its day.
LEMMA DayTypes ==
    /\ Days \subseteq Nat
    /\ \A t \in Time : t \in Nat /\ Day(t) \in Days
  <1>1. \A t \in Time : t \in Nat /\ Day(t) \in Nat
    BY RetentionAssumption DEF Time, Day
  <1> QED  BY <1>1 DEF Days

\* What has expired stays expired.
LEMMA ExpiredStays ==
    ASSUME NEW d \in Days, clock \in Nat, clock' \in Nat, clock <= clock', Expired(d)
    PROVE  Expired(d)'
  <1>1. d * DayLength + DailyRetention \in Nat
    BY DayTypes, RetentionAssumption
  <1> QED  BY <1>1 DEF Expired

\* Counting by day: natural numbers that grow with the set of times, and a day
\* that has a result does not count as empty.
LEMMA CountTypes ==
    ASSUME NEW A \in SUBSET Time
    PROVE  CountByDay(A) \in [Days -> Nat]
  <1>1. IsFiniteSet(Time)
    BY FS_Interval, RetentionAssumption DEF Time
  <1>2. ASSUME NEW d \in Days
        PROVE  Cardinality({t \in A : Day(t) = d}) \in Nat
    <2>1. {t \in A : Day(t) = d} \subseteq Time
      OBVIOUS
    <2>2. IsFiniteSet({t \in A : Day(t) = d})
      BY <1>1, <2>1, FS_Subset
    <2> QED  BY <2>2, FS_CardinalityType
  <1> QED  BY <1>2 DEF CountByDay

LEMMA CountGrows ==
    ASSUME NEW A \in SUBSET Time, NEW B \in SUBSET A, NEW d \in Days
    PROVE  CountByDay(B)[d] <= CountByDay(A)[d]
  <1> DEFINE a == {t \in A : Day(t) = d}
             b == {t \in B : Day(t) = d}
  <1>1. IsFiniteSet(Time)
    BY FS_Interval, RetentionAssumption DEF Time
  <1>2. a \subseteq Time /\ b \subseteq a
    OBVIOUS
  <1>3. IsFiniteSet(a)
    BY <1>1, <1>2, FS_Subset
  <1>4. Cardinality(b) <= Cardinality(a)
    BY <1>2, <1>3, FS_Subset
  <1> QED  BY <1>4 DEF CountByDay

LEMMA CountPositive ==
    ASSUME NEW A \in SUBSET Time, NEW t \in A
    PROVE  CountByDay(A)[Day(t)] > 0
  <1> DEFINE a == {s \in A : Day(s) = Day(t)}
  <1>1. IsFiniteSet(Time)
    BY FS_Interval, RetentionAssumption DEF Time
  <1>2. a \subseteq Time /\ a # {}
    OBVIOUS
  <1>3. IsFiniteSet(a)
    BY <1>1, <1>2, FS_Subset
  <1>4. Cardinality(a) \in Nat /\ Cardinality(a) # 0
    BY <1>2, <1>3, FS_CardinalityType, FS_EmptySet
  <1>5. Cardinality(a) > 0
    <2> HIDE DEF a
    <2> QED  BY <1>4
  <1>6. Day(t) \in Days
    BY DayTypes
  <1> QED  BY <1>5, <1>6 DEF CountByDay

-----------------------------------------------------------------------------
LEMMA InitTypes == Init => TypeOK
  BY RetentionAssumption DEF Init, TypeOK, Time, Run, NoRun, Stage

LEMMA TypeStep == TypeOK /\ [Next]_vars => TypeOK'
  <1> SUFFICES ASSUME TypeOK, [Next]_vars PROVE TypeOK'
    OBVIOUS
  <1> USE RetentionAssumption DEF TypeOK
  <1>0. NoRun \in Run
    BY DEF NoRun, Run, Stage
  <1>1. CASE Tick
    BY <1>1 DEF Tick, Time
  <1>2. CASE RecordResult
    BY <1>2 DEF RecordResult
  <1>3. ASSUME NEW r \in Runs, CountResults(r) PROVE TypeOK'
    <2> DEFINE retire == OlderThan(RawRetention)
    <2>1. retire \subseteq Time
      BY DEF OlderThan
    <2>2. CountByDay(raw \cap retire) \in [Days -> Nat]
      BY <2>1, CountTypes
    <2>3. [stage |-> "counted", retire |-> retire,
           counts |-> CountByDay(raw \cap retire), missing |-> {}] \in Run
      BY <2>1, <2>2 DEF Run, Stage
    <2> QED  BY <1>3, <2>3 DEF CountResults
  <1>4. ASSUME NEW r \in Runs, CompareDays(r) PROVE TypeOK'
    <2>1. run' \in [Runs -> Run]
      BY <1>4 DEF CompareDays, Run, Stage
    <2> QED  BY <1>4, <2>1 DEF CompareDays
  <1>5. ASSUME NEW r \in Runs, InsertDaily(r) PROVE TypeOK'
    <2>1. run' \in [Runs -> Run]
      BY <1>5 DEF InsertDaily, Run, Stage
    <2>2. daily' \in [Days -> Nat]
      BY <1>5 DEF InsertDaily, Inserted, Run
    <2> QED  BY <1>5, <2>1, <2>2 DEF InsertDaily
  <1>6. ASSUME NEW r \in Runs, RefuseDaily(r) PROVE TypeOK'
    BY <1>6, <1>0 DEF RefuseDaily
  <1>7. ASSUME NEW r \in Runs, DeleteRaw(r) PROVE TypeOK'
    <2>1. run' \in [Runs -> Run]
      BY <1>7 DEF DeleteRaw, Run, Stage
    <2> QED  BY <1>7, <2>1 DEF DeleteRaw
  <1>8. ASSUME NEW r \in Runs, DeleteDaily(r) PROVE TypeOK'
    <2>1. daily' \in [Days -> Nat]
      BY <1>8 DEF DeleteDaily
    <2> QED  BY <1>8, <1>0, <2>1 DEF DeleteDaily
  <1>9. ASSUME NEW r \in Runs, CrashRun(r) PROVE TypeOK'
    BY <1>9, <1>0 DEF CrashRun
  <1>10. CASE UNCHANGED vars
    BY <1>10 DEF vars
  <1> QED
    BY <1>1, <1>2, <1>3, <1>4, <1>5, <1>6, <1>7, <1>8, <1>9, <1>10 DEF Next

(***************************************************************************)
(* The tables, the queue and every run stay well-typed; in particular the  *)
(* raw results are always among those ever committed.                      *)
(***************************************************************************)
THEOREM RetentionTypes == Spec => []TypeOK
  BY InitTypes, TypeStep, PTL DEF Spec

-----------------------------------------------------------------------------
\* Between its first and its last transaction, a run keeps what it has queried.
LEMMA RunKeeps ==
    ASSUME TypeOK, NEW r \in Runs, NEW q \in Runs,
           CompareDays(r) \/ InsertDaily(r) \/ DeleteRaw(r)
    PROVE  /\ run'[q].retire = run[q].retire
           /\ run'[q].counts = run[q].counts
           /\ q # r => run'[q] = run[q]
  <1>1. run \in [Runs -> Run]
    BY DEF TypeOK
  <1>2. CASE q # r
    <2>1. run'[q] = run[q]
      BY <1>1, <1>2 DEF CompareDays, InsertDaily, DeleteRaw
    <2> QED  BY <1>2, <2>1
  <1>3. CASE q = r
    <2> DEFINE self == run[r]
    <2>1. self \in [stage : Stage, retire : SUBSET Time, counts : [Days -> Nat],
                    missing : SUBSET Days]
      BY <1>1 DEF Run
    <2>2. \/ \E m : run' = [run EXCEPT ![r] = [self EXCEPT !.stage = "compared",
                                                           !.missing = m]]
          \/ \E st : run' = [run EXCEPT ![r] = [self EXCEPT !.stage = st]]
      BY DEF CompareDays, InsertDaily, DeleteRaw
    <2>3. \/ \E m : run'[r] = [self EXCEPT !.stage = "compared", !.missing = m]
          \/ \E st : run'[r] = [self EXCEPT !.stage = st]
      BY <1>1, <2>2
    <2> HIDE DEF self
    <2>4. run'[r].retire = self.retire /\ run'[r].counts = self.counts
      BY <2>1, <2>3
    <2> QED  BY <1>3, <2>4 DEF self
  <1> QED  BY <1>2, <1>3

-----------------------------------------------------------------------------
LEMMA KeptInit == Init => KeptInv
  <1> SUFFICES ASSUME Init PROVE KeptInv
    OBVIOUS
  <1>1. CutoffsPassed /\ RecentResultsKept
    BY DEF Init, NoRun, CutoffsPassed, RecentResultsKept
  <1> QED  BY <1>1, InitTypes DEF KeptInv

\* Time passes, and what a run retires only gets older.
LEMMA CutoffsStep == KeptInv /\ [Next]_vars => CutoffsPassed'
  <1> SUFFICES ASSUME KeptInv, [Next]_vars PROVE CutoffsPassed'
    OBVIOUS
  <1> USE RetentionAssumption DEF CutoffsPassed, KeptInv
  <1>0. /\ \A r \in Runs : run[r].retire \subseteq Time
        /\ run \in [Runs -> Run] /\ clock \in Nat /\ Time \subseteq Nat
    BY DEF TypeOK, Run, Time
  <1>1. CASE Tick
    <2>1. ASSUME NEW q \in Runs, NEW t \in run[q].retire
          PROVE  t + RawRetention < clock + 1
      <3>1. t \in Nat /\ clock \in Nat
        BY <1>0
      <3>2. t + RawRetention < clock
        OBVIOUS
      <3> QED  BY <3>1, <3>2
    <2> QED  BY <1>1, <2>1 DEF Tick
  <1>2. CASE RecordResult
    BY <1>2 DEF RecordResult
  <1>3. ASSUME NEW r \in Runs, CountResults(r) PROVE CutoffsPassed'
    <2>1. run'[r].retire = OlderThan(RawRetention)
      BY <1>0, <1>3 DEF CountResults
    <2>2. \A q \in Runs \ {r} : run'[q] = run[q]
      BY <1>0, <1>3 DEF CountResults
    <2> QED  BY <1>0, <1>3, <2>1, <2>2 DEF CountResults, OlderThan
  <1>4. ASSUME NEW r \in Runs,
               CompareDays(r) \/ InsertDaily(r) \/ DeleteRaw(r)
        PROVE  CutoffsPassed'
    <2>1. \A q \in Runs : run'[q].retire = run[q].retire
      BY <1>0, <1>4, RunKeeps
    <2> QED  BY <1>4, <2>1 DEF CompareDays, InsertDaily, DeleteRaw
  <1>5. ASSUME NEW r \in Runs,
               RefuseDaily(r) \/ DeleteDaily(r) \/ CrashRun(r)
        PROVE  CutoffsPassed'
    <2>1. \A q \in Runs : run'[q].retire \subseteq run[q].retire
      BY <1>0, <1>5 DEF RefuseDaily, DeleteDaily, CrashRun, NoRun
    <2> QED  BY <1>5, <2>1 DEF RefuseDaily, DeleteDaily, CrashRun
  <1>6. CASE UNCHANGED vars
    BY <1>6 DEF vars
  <1> QED  BY <1>1, <1>2, <1>3, <1>4, <1>5, <1>6 DEF Next

LEMMA KeptStep == KeptInv /\ [Next]_vars => RecentResultsKept'
  <1> SUFFICES ASSUME KeptInv, [Next]_vars PROVE RecentResultsKept'
    OBVIOUS
  <1> USE RetentionAssumption DEF RecentResultsKept, KeptInv
  <1>0. /\ \A r \in Runs : run[r].retire \subseteq Time
        /\ clock \in Nat /\ Time \subseteq Nat /\ taken \subseteq Time
    BY DEF TypeOK, Run, Time
  <1>1. CASE Tick
    BY <1>0, <1>1 DEF Tick
  <1>2. CASE RecordResult
    BY <1>2 DEF RecordResult
  <1>3. ASSUME NEW r \in Runs, DeleteRaw(r) PROVE RecentResultsKept'
    <2>1. ASSUME NEW t \in run[r].retire PROVE ~(t + RawRetention >= clock)
      <3>1. t \in Nat /\ clock \in Nat
        BY <1>0
      <3>2. t + RawRetention < clock
        BY DEF CutoffsPassed
      <3> QED  BY <3>1, <3>2
    <2> QED  BY <1>3, <2>1 DEF DeleteRaw
  <1>4. ASSUME UNCHANGED <<clock, taken, raw>> PROVE RecentResultsKept'
    BY <1>4
  <1> QED
    BY <1>1, <1>2, <1>3, <1>4
       DEF Next, vars, CountResults, CompareDays, InsertDaily, RefuseDaily, DeleteDaily, CrashRun

LEMMA KeptInductive == KeptInv /\ [Next]_vars => KeptInv'
  BY TypeStep, CutoffsStep, KeptStep DEF KeptInv

(***************************************************************************)
(* However late a run acts on its cutoff, and however many runs overlap,   *)
(* no result younger than the raw retention is deleted.                    *)
(***************************************************************************)
THEOREM KeptCorrect == Spec => []RecentResultsKept
  <1>1. KeptInv => RecentResultsKept
    BY DEF KeptInv
  <1> QED  BY <1>1, KeptInit, KeptInductive, PTL DEF Spec

-----------------------------------------------------------------------------
LEMMA CountInit == Init => CountInv
  <1> SUFFICES ASSUME Init PROVE CountInv
    OBVIOUS
  <1>1. CountByDay({}) \in [Days -> Nat]
    BY CountTypes
  <1>2. CountsBounded /\ NeverOvercounted
    BY <1>1 DEF Init, NoRun, CountsBounded, NeverOvercounted
  <1> QED  BY <1>2, InitTypes DEF CountInv

\* The number of results of a day never decreases, and is a natural number.
LEMMA TakenGrows ==
    ASSUME TypeOK, [Next]_vars
    PROVE  /\ taken \subseteq taken'
           /\ CountByDay(taken) \in [Days -> Nat] /\ CountByDay(taken)' \in [Days -> Nat]
           /\ \A d \in Days : CountByDay(taken)[d] <= CountByDay(taken)'[d]
  <1>1. taken \in SUBSET Time /\ taken' \in SUBSET Time
    BY TypeStep DEF TypeOK
  <1>2. taken \subseteq taken'
    BY DEF Next, vars, Tick, RecordResult, CountResults, CompareDays, InsertDaily,
           RefuseDaily, DeleteRaw, DeleteDaily, CrashRun
  <1>3. CountByDay(taken)' = CountByDay(taken')
    BY DEF CountByDay
  <1>4. \A d \in Days : CountByDay(taken)[d] <= CountByDay(taken')[d]
    BY <1>1, <1>2, CountGrows
  <1>5. CountByDay(taken) \in [Days -> Nat] /\ CountByDay(taken') \in [Days -> Nat]
    BY <1>1, CountTypes
  <1> QED  BY <1>2, <1>3, <1>4, <1>5

LEMMA CountStep == CountInv /\ [Next]_vars => CountInv'
  <1> SUFFICES ASSUME CountInv, [Next]_vars PROVE CountInv'
    OBVIOUS
  <1> DEFINE now  == CountByDay(taken)
             then == CountByDay(taken)'
  <1>0. /\ TypeOK /\ run \in [Runs -> Run] /\ daily \in [Days -> Nat]
        /\ \A r \in Runs : run[r].counts \in [Days -> Nat]
        /\ now \in [Days -> Nat] /\ then \in [Days -> Nat]
        /\ \A d \in Days : now[d] <= then[d]
        /\ \A r \in Runs : \A d \in Days : run[r].counts[d] <= now[d]
        /\ \A d \in Days : daily[d] <= now[d]
    BY TakenGrows DEF CountInv, CountsBounded, NeverOvercounted, TypeOK, Run
  <1> HIDE DEF now, then
  <1>1. ASSUME NEW q \in Runs, NEW d \in Days PROVE run'[q].counts[d] <= then[d]
    <2>1. CASE run'[q].counts = run[q].counts
      BY <1>0, <2>1
    <2>2. CASE run'[q].counts[d] = 0
      BY <1>0, <2>2
    <2>3. ASSUME CountResults(q) PROVE run'[q].counts[d] <= then[d]
      <3>1. run'[q].counts = CountByDay(raw \cap OlderThan(RawRetention))
        BY <1>0, <2>3 DEF CountResults
      <3>2. raw \cap OlderThan(RawRetention) \in SUBSET taken /\ taken \in SUBSET Time
        BY <1>0 DEF TypeOK
      <3>3. CountByDay(raw \cap OlderThan(RawRetention))[d] <= now[d]
        BY <3>2, CountGrows DEF now
      <3>4. CountByDay(raw \cap OlderThan(RawRetention))[d] \in Nat
        BY <3>2, CountTypes
      <3> QED  BY <1>0, <3>1, <3>3, <3>4
    <2>4. CASE UNCHANGED run
      BY <2>1, <2>4
    <2>5. ASSUME NEW r \in Runs, CountResults(r) PROVE run'[q].counts[d] <= then[d]
      <3>1. q # r => run'[q] = run[q]
        BY <1>0, <2>5 DEF CountResults
      <3> QED  BY <2>1, <2>3, <2>5, <3>1
    <2>6. ASSUME NEW r \in Runs, CompareDays(r) \/ InsertDaily(r) \/ DeleteRaw(r)
          PROVE  run'[q].counts[d] <= then[d]
      <3>1. run'[q].counts = run[q].counts
        BY <1>0, <2>6, RunKeeps
      <3> QED  BY <2>1, <3>1
    <2>7. ASSUME NEW r \in Runs, RefuseDaily(r) \/ DeleteDaily(r) \/ CrashRun(r)
          PROVE  run'[q].counts[d] <= then[d]
      <3>1. run'[q] = run[q] \/ run'[q] = NoRun
        BY <1>0, <2>7 DEF RefuseDaily, DeleteDaily, CrashRun
      <3>2. NoRun.counts[d] = 0
        BY DEF NoRun
      <3> QED  BY <2>1, <2>2, <3>1, <3>2
    <2> QED  BY <2>4, <2>5, <2>6, <2>7 DEF Next, vars, Tick, RecordResult
  <1>2. ASSUME NEW d \in Days PROVE daily'[d] <= then[d]
    <2>1. CASE daily'[d] = daily[d]
      BY <1>0, <2>1
    <2>2. CASE daily'[d] = 0
      BY <1>0, <2>2
    <2>3. ASSUME NEW r \in Runs, daily'[d] = run[r].counts[d] PROVE daily'[d] <= then[d]
      BY <1>0, <2>3
    <2>4. \/ daily'[d] = daily[d]
          \/ daily'[d] = 0
          \/ \E r \in Runs : daily'[d] = run[r].counts[d]
      BY DEF Next, vars, Tick, RecordResult, CountResults, CompareDays, InsertDaily, Inserted,
             RefuseDaily, DeleteRaw, DeleteDaily, CrashRun
    <2> QED  BY <2>1, <2>2, <2>3, <2>4
  <1>3. CountsBounded'
    BY <1>1 DEF CountsBounded, then
  <1>4. NeverOvercounted'
    BY <1>2 DEF NeverOvercounted, then
  <1> QED  BY <1>0, <1>3, <1>4, TypeStep DEF CountInv

(***************************************************************************)
(* No daily row ever holds more samples than there were results that day,  *)
(* whichever runs overlap, and however often one dies and is repeated.     *)
(***************************************************************************)
THEOREM CountCorrect == Spec => []NeverOvercounted
  <1>1. CountInv => NeverOvercounted
    BY DEF CountInv
  <1> QED  BY <1>1, CountInit, CountStep, PTL DEF Spec

-----------------------------------------------------------------------------
LEMMA RollInit == Init => RollInv
  <1> SUFFICES ASSUME Init PROVE RollInv
    OBVIOUS
  <1>1. NoDayVanishes /\ \A r \in Runs : Safeguarded(r)
    BY DEF Init, NoRun, NoDayVanishes, Safeguarded
  <1> QED  BY <1>1, KeptInit DEF RollInv

\* A day that is rolled up stays so: rows are inserted and, once expired, deleted.
LEMMA RolledStays ==
    ASSUME RollInv, [Next]_vars, NEW d \in Days, Rolled(d)
    PROVE  Rolled(d)'
  <1> USE RetentionAssumption
  <1>0. clock \in Nat /\ daily \in [Days -> Nat] /\ run \in [Runs -> Run]
    BY DEF RollInv, KeptInv, TypeOK, Time
  <1>1. CASE Tick
    <2>1. clock' \in Nat /\ clock <= clock' /\ daily' = daily
      BY <1>0, <1>1 DEF Tick
    <2> QED  BY <1>0, <2>1, ExpiredStays DEF Rolled
  <1>2. ASSUME NEW r \in Runs, InsertDaily(r) PROVE Rolled(d)'
    <2>1. \A e \in run[r].missing : run[r].counts[e] > 0
      BY <1>2 DEF InsertDaily, RollInv, Safeguarded
    <2>2. CASE d \in run[r].missing
      <3>1. daily'[d] = run[r].counts[d]
        BY <1>2, <2>2 DEF InsertDaily, Inserted
      <3> QED  BY <2>1, <2>2, <3>1 DEF Rolled
    <2>3. CASE d \notin run[r].missing
      <3>1. daily'[d] = daily[d] /\ clock' = clock
        BY <1>2, <2>3 DEF InsertDaily, Inserted
      <3> QED  BY <3>1 DEF Rolled, Expired
    <2> QED  BY <2>2, <2>3
  <1>3. ASSUME NEW r \in Runs, DeleteDaily(r) PROVE Rolled(d)'
    <2>1. CASE Expired(d)
      BY <1>3, <2>1 DEF DeleteDaily, Rolled, Expired
    <2>2. CASE ~Expired(d)
      <3>1. daily'[d] = daily[d]
        BY <1>3, <2>2 DEF DeleteDaily
      <3> QED  BY <2>2, <3>1 DEF Rolled
    <2> QED  BY <2>1, <2>2
  <1>4. CASE UNCHANGED <<clock, daily>>
    BY <1>4 DEF Rolled, Expired
  <1> QED
    BY <1>1, <1>2, <1>3, <1>4
       DEF Next, vars, RecordResult, CountResults, CompareDays, RefuseDaily, DeleteRaw, CrashRun

\* Another component's step, or another run's, endangers nothing that r retires:
\* a new result is younger than every cutoff.
LEMMA SafeElsewhere ==
    ASSUME RollInv, [Next]_vars, NEW r \in Runs, run'[r] = run[r]
    PROVE  Safeguarded(r)'
  <1>1. run[r].retire \subseteq Time /\ clock \in Nat
    BY DEF RollInv, KeptInv, TypeOK, Run, Time
  <1>2. run[r].retire \cap raw' \subseteq raw
    <2>1. CASE RecordResult
      <3>1. ASSUME clock \in run[r].retire PROVE FALSE
        <4>1. clock + RawRetention < clock
          BY <3>1 DEF RollInv, KeptInv, CutoffsPassed
        <4> QED  BY <1>1, <4>1, RetentionAssumption
      <3> QED  BY <2>1, <3>1 DEF RecordResult
    <2>2. CASE ~RecordResult
      BY <2>2 DEF Next, vars, Tick, CountResults, CompareDays, InsertDaily, RefuseDaily,
                  DeleteRaw, DeleteDaily, CrashRun
    <2> QED  BY <2>1, <2>2
  <1>3. \A t \in run[r].retire : Day(t) \in Days
    BY <1>1, DayTypes
  <1>4. ASSUME NEW t \in run[r].retire, Rolled(Day(t)) PROVE Rolled(Day(t))'
    BY <1>3, <1>4, RolledStays
  <1>5. Safeguarded(r)
    BY DEF RollInv
  <1> QED  BY <1>2, <1>4, <1>5 DEF Safeguarded

LEMMA SafeStep ==
    ASSUME RollInv, [Next]_vars, NEW r \in Runs
    PROVE  Safeguarded(r)'
  <1>0. /\ TypeOK /\ run \in [Runs -> Run] /\ Safeguarded(r)
        /\ raw \subseteq Time /\ daily \in [Days -> Nat]
    BY DEF RollInv, KeptInv, TypeOK
  <1>1. CASE run'[r] = run[r]
    BY <1>1, SafeElsewhere
  <1>2. CASE run'[r].stage \in {"idle", "deleted"}
    BY <1>2 DEF Safeguarded
  <1>3. ASSUME CountResults(r) PROVE Safeguarded(r)'
    <2> DEFINE gone == raw \cap OlderThan(RawRetention)
    <2>1. /\ run'[r].stage = "counted" /\ raw' = raw
          /\ run'[r].retire = OlderThan(RawRetention)
          /\ run'[r].counts = CountByDay(gone)
      BY <1>0, <1>3 DEF CountResults
    <2>2. gone \in SUBSET Time
      BY <1>0
    <2>3. \A t \in gone : CountByDay(gone)[Day(t)] > 0
      BY <2>2, CountPositive
    <2> QED  BY <2>1, <2>3 DEF Safeguarded
  <1>4. ASSUME CompareDays(r) PROVE Safeguarded(r)'
    <2> DEFINE absent == {d \in Days : run[r].counts[d] > 0 /\ daily[d] = 0}
    <2>1. run' = [run EXCEPT ![r].stage = "compared", ![r].missing = absent]
      BY <1>4 DEF CompareDays
    <2>2. run'[r].stage = "compared" /\ run'[r].missing = absent
      <3> HIDE DEF absent
      <3> QED  BY <1>0, <2>1 DEF Run
    <2>3. /\ run'[r].retire = run[r].retire /\ run'[r].counts = run[r].counts
          /\ raw' = raw /\ daily' = daily /\ clock' = clock
      BY <1>0, <1>4, RunKeeps DEF CompareDays
    <2>4. \A t \in run[r].retire \cap raw : Day(t) \in Days /\ run[r].counts[Day(t)] > 0
      BY <1>0, <1>4, DayTypes DEF CompareDays, Safeguarded
    <2>5. \A d \in Days : daily[d] = 0 \/ daily[d] > 0
      BY <1>0
    <2>6. \A t \in run[r].retire \cap raw : Day(t) \in absent \/ daily[Day(t)] > 0
      BY <2>4, <2>5
    <2>7. \A d \in absent : run[r].counts[d] > 0
      OBVIOUS
    <2> HIDE DEF absent
    <2> QED  BY <2>2, <2>3, <2>6, <2>7 DEF Safeguarded, Rolled
  <1>5. ASSUME InsertDaily(r) PROVE Safeguarded(r)'
    <2>1. /\ run'[r].retire = run[r].retire /\ raw' = raw /\ clock' = clock
          /\ run[r].stage = "compared"
      BY <1>0, <1>5, RunKeeps DEF InsertDaily
    <2>2. run'[r].stage = "inserted"
      BY <1>0, <1>5 DEF InsertDaily, Run
    <2>3. ASSUME NEW t \in run[r].retire \cap raw PROVE Rolled(Day(t))'
      <3>1. Day(t) \in Days
        BY <1>0, DayTypes
      <3>2. CASE Day(t) \in run[r].missing
        <4>1. daily'[Day(t)] = run[r].counts[Day(t)]
          BY <1>5, <3>1, <3>2 DEF InsertDaily, Inserted
        <4>2. run[r].counts[Day(t)] > 0
          BY <1>0, <2>1, <3>2 DEF Safeguarded
        <4> QED  BY <4>1, <4>2 DEF Rolled
      <3>3. CASE Rolled(Day(t))
        BY <3>1, <3>3, RolledStays
      <3> QED  BY <1>0, <2>1, <3>2, <3>3 DEF Safeguarded
    <2> QED  BY <2>1, <2>2, <2>3 DEF Safeguarded
  <1>6. \/ run'[r] = run[r] \/ run'[r].stage \in {"idle", "deleted"}
        \/ CountResults(r) \/ CompareDays(r) \/ InsertDaily(r)
    <2>1. CASE UNCHANGED run
      BY <2>1
    <2>2. ASSUME NEW q \in Runs,
                 \/ CountResults(q) \/ CompareDays(q) \/ InsertDaily(q) \/ RefuseDaily(q)
                 \/ DeleteRaw(q) \/ DeleteDaily(q) \/ CrashRun(q),
                 q # r
          PROVE  run'[r] = run[r]
      BY <1>0, <2>2 DEF CountResults, CompareDays, InsertDaily, RefuseDaily, DeleteRaw,
                        DeleteDaily, CrashRun
    <2>3. ASSUME RefuseDaily(r) \/ DeleteDaily(r) \/ CrashRun(r)
          PROVE  run'[r].stage = "idle"
      BY <1>0, <2>3 DEF RefuseDaily, DeleteDaily, CrashRun, NoRun
    <2>4. ASSUME DeleteRaw(r) PROVE run'[r].stage = "deleted"
      BY <1>0, <2>4 DEF DeleteRaw, Run
    <2> QED  BY <2>1, <2>2, <2>3, <2>4 DEF Next, vars, Tick, RecordResult
  <1> QED  BY <1>1, <1>2, <1>3, <1>4, <1>5, <1>6

LEMMA RollStep == RollInv /\ [Next]_vars => RollInv'
  <1> SUFFICES ASSUME RollInv, [Next]_vars PROVE RollInv'
    OBVIOUS
  <1>0. taken \subseteq Time /\ taken' \subseteq Time /\ Time' = Time
    BY TypeStep DEF RollInv, KeptInv, TypeOK, Time
  <1>1. ASSUME NEW t \in taken' \ raw' PROVE Rolled(Day(t))'
    <2>1. t \in Time /\ Day(t) \in Days
      BY <1>0, DayTypes
    <2>2. CASE t \in taken \ raw
      <3>1. Rolled(Day(t))
        BY <2>2 DEF RollInv, NoDayVanishes, Rolled
      <3> QED  BY <2>1, <3>1, RolledStays
    <2>3. ASSUME NEW r \in Runs, DeleteRaw(r), t \in raw PROVE Rolled(Day(t))'
      <3>1. run[r].stage = "inserted" /\ t \in run[r].retire
        BY <2>3 DEF DeleteRaw
      <3>2. Rolled(Day(t))
        BY <2>3, <3>1 DEF RollInv, Safeguarded
      <3> QED  BY <2>1, <3>2, RolledStays
    <2>4. t \in taken \ raw \/ (t \in raw /\ \E r \in Runs : DeleteRaw(r))
      BY DEF Next, vars, Tick, RecordResult, CountResults, CompareDays, InsertDaily,
             RefuseDaily, DeleteRaw, DeleteDaily, CrashRun
    <2> QED  BY <2>2, <2>3, <2>4
  <1>2. NoDayVanishes'
    BY <1>1 DEF NoDayVanishes, Rolled
  <1>3. \A r \in Runs : Safeguarded(r)'
    BY SafeStep
  <1>4. KeptInv'
    BY KeptInductive DEF RollInv
  <1> QED  BY <1>2, <1>3, <1>4 DEF RollInv

(***************************************************************************)
(* Whatever overlaps or dies, a result that has been deleted has left a    *)
(* daily row behind, until that row expires.                               *)
(***************************************************************************)
THEOREM RollCorrect == Spec => []NoDayVanishes
  <1>1. RollInv => NoDayVanishes
    BY DEF RollInv
  <1> QED  BY <1>1, RollInit, RollStep, PTL DEF Spec
=============================================================================
