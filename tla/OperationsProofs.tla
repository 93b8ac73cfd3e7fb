-------------------------- MODULE OperationsProofs --------------------------
(***************************************************************************)
(* Proofs about the components that keep the service going: the delivery   *)
(* of notifications (Notifications), the dispatch of checks (Scheduler)    *)
(* and the dashboard's push channel (Dashboard); and about all of them and *)
(* Escalation, which has a module of proofs of its own, side by side.      *)
(***************************************************************************)
EXTENDS MCOperations, EscalationProofs, SumLemmas

-----------------------------------------------------------------------------
(***************************************************************************)
(* Delivery, for every set of notifications, every number of attempts and  *)
(* any number of crashes. The retry counter that travels with the job, the *)
(* number of sends and the length of the log move in step, and how far     *)
(* they are apart is told by the stage; a notification that is not over    *)
(* has nothing but failures in its log; and a job ends early in no step    *)
(* but a crash or a refused log row.                                       *)
(***************************************************************************)

\* The log and the counters of one notification agree with its stage.
InStep(n) ==
    /\ stage[n] \in {"none", "queued", "sending"} =>
          tried[n] = Len(log[n]) /\ retries[n] = Len(log[n])
    /\ stage[n] = "logging" =>
          tried[n] = Len(log[n]) + 1 /\ retries[n] = Len(log[n])
    /\ stage[n] = "retrying" =>
          /\ tried[n] = Len(log[n]) /\ Len(log[n]) = retries[n] + 1
          /\ retries[n] < MaxAttempts
    /\ stage[n] = "ended" => tried[n] \in {Len(log[n]), Len(log[n]) + 1}

Numbered(n) == \A i \in DOMAIN log[n] : log[n][i].attempts = i

FinalWhenSettled(n) ==
    \A i \in DOMAIN log[n] :
        log[n][i].status # "FAILED" => stage[n] = "ended" /\ tried[n] = i

LogInv ==
    \A n \in Notifications : InStep(n) /\ Numbered(n) /\ FinalWhenSettled(n)

\* The notifications given up early are finitely many, one per crash.
EarlyInv == IsFiniteSet(GivenUp \ orphaned) /\ NeverGivenUpEarly

IInv == TypeOK /\ LogInv /\ EarlyInv

-----------------------------------------------------------------------------
LEMMA InitIInv == Init => IInv
  <1> SUFFICES ASSUME Init PROVE IInv
    OBVIOUS
  <1>1. TypeOK
    BY NotificationsAssumption DEF Init, TypeOK, Stage, Outcome
  <1>2. LogInv
    BY DEF Init, LogInv, InStep, Numbered, FinalWhenSettled
  <1>3. GivenUp = {}
    BY DEF Init, GivenUp
  <1>4. EarlyInv
    BY <1>3, FS_EmptySet DEF EarlyInv, NeverGivenUpEarly, Init
  <1> QED  BY <1>1, <1>2, <1>4 DEF IInv

LEMMA TypeStep == IInv /\ [Next]_vars => TypeOK'
  <1> SUFFICES ASSUME IInv, [Next]_vars PROVE TypeOK'
    OBVIOUS
  <1> USE NotificationsAssumption DEF TypeOK, IInv, Stage
  <1>1. ASSUME NEW verdict \in {"committed", "aborted"}, EndEngine(verdict)
        PROVE  TypeOK'
    BY <1>1 DEF EndEngine
  <1>2. ASSUME NEW n \in Notifications, Enqueue(n) PROVE TypeOK'
    BY <1>2 DEF Enqueue
  <1>3. ASSUME NEW n \in Notifications, Take(n) PROVE TypeOK'
    BY <1>3 DEF Take
  <1>4. ASSUME NEW n \in Notifications, NEW result \in Outcome, Send(n, result)
        PROVE  TypeOK'
    <2>1. tried' \in [Notifications -> Nat]
      BY <1>4 DEF Send
    <2> QED  BY <1>4, <2>1 DEF Send
  <1>5. ASSUME NEW n \in Notifications, LogAttempt(n) PROVE TypeOK'
    <2>1. [attempts |-> Attempt(n), status |-> outcome[n]] \in LogRow
      <3>1. retries[n] + 1 \in Nat
        OBVIOUS
      <3> QED  BY <3>1 DEF LogRow, Attempt
    <2>2. log' \in [Notifications -> Seq(LogRow)]
      BY <1>5, <2>1 DEF LogAttempt
    <2> QED  BY <1>5, <2>2 DEF LogAttempt
  <1>6. ASSUME NEW n \in Notifications, RefuseLog(n) PROVE TypeOK'
    BY <1>6 DEF RefuseLog
  <1>7. ASSUME NEW n \in Notifications, Retry(n) PROVE TypeOK'
    <2>1. retries[n] \in 0 .. MaxAttempts /\ retries[n] < MaxAttempts
      BY <1>7 DEF Retry, LogInv, InStep
    <2>2. retries[n] + 1 \in 0 .. MaxAttempts
      BY <2>1
    <2>3. retries' \in [Notifications -> 0 .. MaxAttempts]
      BY <1>7, <2>2 DEF Retry
    <2> QED  BY <1>7, <2>3 DEF Retry
  <1>8. ASSUME NEW n \in Notifications, Crash(n) PROVE TypeOK'
    <2>1. crashes' \in Nat
      BY <1>8 DEF Crash
    <2> QED  BY <1>8, <2>1 DEF Crash
  <1>9. CASE UNCHANGED vars
    BY <1>9 DEF vars
  <1> QED
    BY <1>1, <1>2, <1>3, <1>4, <1>5, <1>6, <1>7, <1>8, <1>9 DEF Next, WorkerStep

-----------------------------------------------------------------------------
\* What is said of a notification depends on its own part of the state only.
LEMMA Untouched ==
    ASSUME NEW m \in Notifications,
           InStep(m) /\ Numbered(m) /\ FinalWhenSettled(m),
           stage'[m] = stage[m], tried'[m] = tried[m],
           retries'[m] = retries[m], log'[m] = log[m]
    PROVE  InStep(m)' /\ Numbered(m)' /\ FinalWhenSettled(m)'
  BY DEF InStep, Numbered, FinalWhenSettled

LEMMA LogStep == IInv /\ [Next]_vars => LogInv'
  <1> SUFFICES ASSUME IInv, [Next]_vars,
                      NEW m \in Notifications
               PROVE  InStep(m)' /\ Numbered(m)' /\ FinalWhenSettled(m)'
    BY DEF LogInv
  <1> USE DEF IInv, TypeOK, LogInv
  <1>1. ASSUME NEW n \in Notifications, Enqueue(n) \/ Take(n) \/ Retry(n) \/ RefuseLog(n)
                                        \/ Crash(n)
        PROVE  InStep(m)' /\ Numbered(m)' /\ FinalWhenSettled(m)'
    <2>1. CASE n # m
      BY <1>1, <2>1, Untouched DEF Enqueue, Take, Retry, RefuseLog, Crash
    <2>2. CASE n = m
      <3>1. InStep(m)'
        BY <1>1, <2>2 DEF Enqueue, Take, Retry, RefuseLog, Crash, InStep, Busy
      <3>2. Numbered(m)' /\ FinalWhenSettled(m)'
        BY <1>1, <2>2 DEF Enqueue, Take, Retry, RefuseLog, Crash, Busy, Numbered,
                          FinalWhenSettled
      <3> QED  BY <3>1, <3>2
    <2> QED  BY <2>1, <2>2
  <1>2. ASSUME NEW n \in Notifications, NEW result \in Outcome, Send(n, result)
        PROVE  InStep(m)' /\ Numbered(m)' /\ FinalWhenSettled(m)'
    <2>1. CASE n # m
      BY <1>2, <2>1, Untouched DEF Send
    <2>2. CASE n = m
      BY <1>2, <2>2 DEF Send, InStep, Numbered, FinalWhenSettled
    <2> QED  BY <2>1, <2>2
  <1>3. ASSUME NEW n \in Notifications, LogAttempt(n)
        PROVE  InStep(m)' /\ Numbered(m)' /\ FinalWhenSettled(m)'
    <2>1. CASE n # m
      BY <1>3, <2>1, Untouched DEF LogAttempt
    <2>2. CASE n = m
      <3> DEFINE k == Len(log[m])
                 new == [attempts |-> Attempt(m), status |-> outcome[m]]
      <3>1. log'[m] = Append(log[m], new) /\ log[m] \in Seq(LogRow) /\ new \in LogRow
        <4>1. Attempt(m) \in Nat
          BY DEF Attempt
        <4>2. new \in LogRow
          BY <4>1 DEF LogRow
        <4> QED  BY <1>3, <2>2, <4>2 DEF LogAttempt
      <3>2. /\ k \in Nat /\ DOMAIN log'[m] = 1 .. (k + 1) /\ Len(log'[m]) = k + 1
            /\ \A i \in 1 .. k : log'[m][i] = log[m][i]
            /\ log'[m][k + 1] = new
        BY <3>1
      <3>3. retries[m] = k /\ tried[m] = k + 1 /\ stage[m] = "logging"
        BY <1>3, <2>2 DEF LogAttempt, InStep
      <3>4. stage'[m] = IF WillRetry(m) THEN "retrying" ELSE "ended"
        BY <1>3, <2>2 DEF LogAttempt
      <3>5. retries'[m] = k /\ tried'[m] = k + 1
        BY <1>3, <3>3 DEF LogAttempt
      <3>6. InStep(m)'
        BY <3>2, <3>3, <3>4, <3>5 DEF InStep, WillRetry
      <3>7. Numbered(m)'
        <4>1. new.attempts = k + 1
          BY <3>3 DEF Attempt
        <4>2. \A i \in 1 .. k : log[m][i].attempts = i
          BY DEF Numbered
        <4> HIDE DEF k, new
        <4>3. ASSUME NEW i \in 1 .. (k + 1) PROVE log'[m][i].attempts = i
          <5>1. CASE i = k + 1
            BY <3>2, <4>1, <5>1
          <5>2. CASE i # k + 1
            <6>1. i \in 1 .. k
              BY <3>2, <5>2
            <6> QED  BY <3>2, <4>2, <6>1
          <5> QED  BY <5>1, <5>2
        <4> QED  BY <3>2, <4>3 DEF Numbered
      <3>8. FinalWhenSettled(m)'
        <4>1. \A i \in 1 .. k : log[m][i].status = "FAILED"
          <5>1. stage[m] # "ended" /\ DOMAIN log[m] = 1 .. k
            BY <3>1, <3>3
          <5>2. FinalWhenSettled(m)
            OBVIOUS
          <5> QED  BY <5>1, <5>2 DEF FinalWhenSettled
        <4>2. new.status # "FAILED" => stage'[m] = "ended"
          BY <3>4 DEF WillRetry
        <4> HIDE DEF k, new
        <4>3. ASSUME NEW i \in 1 .. (k + 1), log'[m][i].status # "FAILED"
              PROVE  stage'[m] = "ended" /\ tried'[m] = i
          <5>1. i = k + 1
            <6> SUFFICES ASSUME i # k + 1 PROVE FALSE
              OBVIOUS
            <6>1. i \in 1 .. k
              BY <3>2
            <6> QED  BY <3>2, <4>1, <4>3, <6>1
          <5> QED  BY <3>2, <3>5, <4>2, <4>3, <5>1
        <4> QED  BY <3>2, <4>3 DEF FinalWhenSettled
      <3> QED  BY <3>6, <3>7, <3>8
    <2> QED  BY <2>1, <2>2
  <1>4. CASE UNCHANGED vars \/ \E verdict \in {"committed", "aborted"} : EndEngine(verdict)
    BY <1>4, Untouched DEF vars, EndEngine
  <1> QED  BY <1>1, <1>2, <1>3, <1>4 DEF Next, WorkerStep

-----------------------------------------------------------------------------
\* A step that ends no job early leaves the bound alone.
LEMMA NoneGivenUp ==
    ASSUME EarlyInv, crashes' = crashes, (GivenUp \ orphaned)' \subseteq GivenUp \ orphaned,
           crashes \in Nat
    PROVE  EarlyInv'
  <1>1. /\ IsFiniteSet((GivenUp \ orphaned)')
        /\ Cardinality((GivenUp \ orphaned)') <= Cardinality(GivenUp \ orphaned)
    BY FS_Subset DEF EarlyInv
  <1>2. /\ Cardinality((GivenUp \ orphaned)') \in Nat
        /\ Cardinality(GivenUp \ orphaned) \in Nat
    BY <1>1, FS_CardinalityType DEF EarlyInv
  <1> QED  BY <1>1, <1>2 DEF EarlyInv, NeverGivenUpEarly

LEMMA EarlyStep == IInv /\ [Next]_vars => EarlyInv'
  <1> SUFFICES ASSUME IInv, [Next]_vars PROVE EarlyInv'
    OBVIOUS
  <1> USE DEF IInv, TypeOK
  <1>1. ASSUME NEW n \in Notifications, NEW result \in Outcome,
               Enqueue(n) \/ Take(n) \/ Send(n, result) \/ Retry(n)
        PROVE  EarlyInv'
    <2>1. (GivenUp \ orphaned)' \subseteq GivenUp \ orphaned
      BY <1>1 DEF Enqueue, Take, Send, Retry, GivenUp, Settled
    <2> QED  BY <1>1, <2>1, NoneGivenUp DEF Enqueue, Take, Send, Retry
  <1>2. ASSUME NEW n \in Notifications, LogAttempt(n) PROVE EarlyInv'
    <2> DEFINE k == Len(log[n])
    <2>1. /\ retries[n] = k /\ tried[n] = k + 1
          /\ log'[n] = Append(log[n], [attempts |-> Attempt(n), status |-> outcome[n]])
      BY <1>2 DEF LogAttempt, LogInv, InStep
    <2>2. k \in Nat /\ k + 1 \in DOMAIN log'[n] /\ log'[n][k + 1].status = outcome[n]
      BY <2>1
    <2>3. n \notin GivenUp'
      <3>1. CASE outcome[n] # "FAILED"
        BY <2>2, <3>1 DEF GivenUp, Settled
      <3>2. CASE outcome[n] = "FAILED" /\ ~WillRetry(n)
        BY <1>2, <2>1, <3>2, NotificationsAssumption
           DEF LogAttempt, WillRetry, GivenUp
      <3>3. CASE WillRetry(n)
        BY <1>2, <3>3 DEF LogAttempt, GivenUp
      <3> QED  BY <3>1, <3>2, <3>3
    <2>4. (GivenUp \ orphaned)' \subseteq GivenUp \ orphaned
      BY <1>2, <2>3 DEF LogAttempt, GivenUp, Settled
    <2> QED  BY <1>2, <2>4, NoneGivenUp DEF LogAttempt
  <1>3. ASSUME NEW n \in Notifications, RefuseLog(n) PROVE EarlyInv'
    <2>1. (GivenUp \ orphaned)' \subseteq GivenUp \ orphaned
      BY <1>3 DEF RefuseLog, GivenUp, Settled
    <2> QED  BY <1>3, <2>1, NoneGivenUp DEF RefuseLog
  <1>4. ASSUME NEW n \in Notifications, Crash(n) PROVE EarlyInv'
    <2> DEFINE S == GivenUp \ orphaned
    <2>1. (GivenUp \ orphaned)' \subseteq S \cup {n}
      BY <1>4 DEF Crash, GivenUp, Settled
    <2>2. IsFiniteSet(S) /\ Cardinality(S) \in Nat /\ Cardinality(S) <= crashes
      BY FS_CardinalityType DEF EarlyInv, NeverGivenUpEarly
    <2> HIDE DEF S
    <2>3. IsFiniteSet(S \cup {n}) /\ Cardinality(S \cup {n}) <= crashes + 1
      <3>1. /\ IsFiniteSet(S \cup {n})
            /\ Cardinality(S \cup {n}) = Cardinality(S)
               \/ Cardinality(S \cup {n}) = Cardinality(S) + 1
        BY <2>2, FS_AddElement
      <3> QED  BY <2>2, <3>1
    <2>4. /\ IsFiniteSet((GivenUp \ orphaned)')
          /\ Cardinality((GivenUp \ orphaned)') <= Cardinality(S \cup {n})
      BY <2>1, <2>3, FS_Subset
    <2>5. /\ Cardinality((GivenUp \ orphaned)') \in Nat
          /\ Cardinality(S \cup {n}) \in Nat
      BY <2>3, <2>4, FS_CardinalityType
    <2> QED  BY <1>4, <2>3, <2>4, <2>5 DEF Crash, EarlyInv, NeverGivenUpEarly
  <1>5. CASE UNCHANGED vars \/ \E verdict \in {"committed", "aborted"} : EndEngine(verdict)
    <2>1. (GivenUp \ orphaned)' \subseteq GivenUp \ orphaned
      BY <1>5 DEF vars, EndEngine, GivenUp, Settled
    <2> QED  BY <1>5, <2>1, NoneGivenUp DEF vars, EndEngine
  <1>6. \E result \in Outcome : TRUE
    BY DEF Outcome
  <1> QED
    BY <1>1, <1>2, <1>3, <1>4, <1>5, <1>6 DEF Next, WorkerStep

-----------------------------------------------------------------------------
LEMMA Invariance == Spec => []IInv
  <1>1. IInv /\ [Next]_vars => IInv'
    BY TypeStep, LogStep, EarlyStep DEF IInv
  <1> QED  BY InitIInv, <1>1, PTL DEF Spec

\* The tables and jobs stay well-typed; in particular no job is retried more
\* than MaxAttempts times.
THEOREM DeliveryTypes == Spec => []TypeOK
  <1>1. IInv => TypeOK
    BY DEF IInv
  <1> QED  BY Invariance, <1>1, PTL

\* The log rows of a notification are numbered without gaps, and only its last
\* attempt may be missing from them.
THEOREM LogCorrect == Spec => []LogTellsTheStory
  <1>1. IInv => LogTellsTheStory
    <2> SUFFICES ASSUME IInv, NEW n \in Notifications
                 PROVE  /\ \A i \in DOMAIN log[n] : log[n][i].attempts = i
                        /\ \/ tried[n] = Len(log[n])
                           \/ tried[n] = Len(log[n]) + 1
                              /\ stage[n] \in {"logging", "ended"}
      BY DEF LogTellsTheStory
    <2> QED  BY DEF IInv, LogInv, InStep, Numbered, TypeOK, Stage
  <1> QED  BY Invariance, <1>1, PTL

\* Nothing is sent after the log shows an outcome other than FAILED.
THEOREM FinalCorrect == Spec => []SettledIsFinal
  <1>1. IInv => SettledIsFinal
    BY DEF IInv, LogInv, FinalWhenSettled, SettledIsFinal
  <1> QED  BY Invariance, <1>1, PTL

\* Every notification that is given up before its MaxAttempts-th attempt, and whose
\* log row was not refused, is owed to a crash of its own.
THEOREM PersistenceCorrect == Spec => []NeverGivenUpEarly
  <1>1. IInv => NeverGivenUpEarly
    BY DEF IInv, EarlyInv
  <1> QED  BY Invariance, <1>1, PTL

-----------------------------------------------------------------------------
(***************************************************************************)
(* Dispatch, for every fleet, any intervals, any number of sweeps and any  *)
(* deaths of them. For every check and every interval, the jobs sent in it *)
(* and those that a sweep is still going to send are accounted for; and as *)
(* long as there is one job more than there were deaths and overlaps,      *)
(* either the check is due after the interval or a sweep that runs will    *)
(* commit such a due time, and no sweep that runs began before the         *)
(* interval, so that none can set the due time back.                       *)
(***************************************************************************)

\* The local variables of a sweep.
SweepRec ==
    [stage : {"idle", "scanning"}, at : Now, rows : [Checks -> DueTime],
     todo : SUBSET SchedDevices, left : SUBSET Checks, flag : BOOLEAN,
     moved : SUBSET (Checks \X DueTime)]

\* An interval of the check c, from time t.
Span(c, t) == {u \in Now : t <= u /\ u < t + Interval[c[2]]}

\* The sweep r will send c, unless it dies: c is due and not yet sent.
WillSend(r, c) ==
    /\ r.stage = "scanning"
    /\ c \in r.left \/ (c[1] \in r.todo /\ r.rows[c] <= r.at)

\* The sweep r will commit a new due time of c, unless it dies.
WillMove(r, c) ==
    /\ r.stage = "scanning"
    /\ WillSend(r, c) \/ \E m \in r.moved : m[1] = c

Senders(c, t) == {s \in Sweepers : WillSend(sweep[s], c) /\ sweep[s].at \in Span(c, t)}
Movers(c, t) == {s \in Sweepers : WillMove(sweep[s], c) /\ sweep[s].at \in Span(c, t)}

\* The jobs of c in the interval from t, those to come included.
Total(c, t) == SumOf(sent[c], Span(c, t)) + Cardinality(Senders(c, t))

\* Nothing can begin to send c once more in the interval from t, before a sweep
\* dies or overlaps another: no sweep that runs began before the interval and
\* would write a due time of the past; and c is due after the interval, or will
\* be when a sweep that runs commits.
Guarded(c, t) ==
    /\ \A s \in Sweeping : t <= sweep[s].at
    /\ dueAt[c] >= t + Interval[c[2]] \/ Movers(c, t) # {}

Accounted(c, t) ==
    /\ Total(c, t) <= 1 + deaths + overlaps
    /\ Total(c, t) <= deaths + overlaps \/ Guarded(c, t)

\* A sweep and its time: not in the future, and its due times an interval on.
SweepInOrder(r) ==
    /\ r.at <= schedNow
    /\ r.left # {} => r.stage = "scanning"
    /\ \A c \in r.left : c[1] \notin r.todo
    /\ \A m \in r.moved : m[2] >= r.at + Interval[m[1][2]]

SchedTypes == SchedTypeOK /\ sweep \in [Sweepers -> SweepRec]

SchedInv ==
    /\ SchedTypes
    /\ \A s \in Sweepers : SweepInOrder(sweep[s])
    /\ \A c \in Checks, u \in Now : sent[c][u] > 0 => u <= schedNow
    /\ \A c \in Checks, t \in Now : Accounted(c, t)

-----------------------------------------------------------------------------
LEMMA TimesFinite == IsFiniteSet(Now)
  BY SchedulerAssumption, FS_Interval DEF Now

\* Max of the intervals bounds each of them.
LEMMA MaxInterval ==
    /\ Max({Interval[k] : k \in CheckKind}) \in Nat
    /\ \A k \in CheckKind : Interval[k] <= Max({Interval[k_1] : k_1 \in CheckKind})
  <1> DEFINE S == {Interval[k] : k \in CheckKind}
  <1>1. PICK a \in Nat, b \in Nat, x \in Nat, y \in Nat :
           a = Interval["ping"] /\ b = Interval["rtsp"] /\ x = Interval["nvr"]
           /\ y = Interval["image"]
    BY SchedulerAssumption DEF CheckKind
  <1>2. S = {a, b, x, y}
    BY <1>1 DEF CheckKind
  <1>3. \E m \in {a, b, x, y} : \A n \in {a, b, x, y} : m >= n
    OBVIOUS
  <1> HIDE DEF S
  <1>4. Max(S) \in S /\ \A n \in S : Max(S) >= n
    BY <1>2, <1>3 DEF Max
  <1>5. \A k \in CheckKind : Interval[k] \in S
    BY DEF S
  <1>6. Max(S) \in Nat
    BY <1>2, <1>4
  <1>7. \A k \in CheckKind : Interval[k] <= Max(S)
    BY <1>4, <1>5, <1>6, SchedulerAssumption
  <1> QED  BY <1>6, <1>7 DEF S

LEMMA CheckParts ==
    ASSUME NEW c \in Checks
    PROVE  /\ c[1] \in SchedDevices /\ c[2] \in CheckKind
           /\ c[2] \in Applicable(Site[c[1]].type) /\ c = <<c[1], c[2]>>
           /\ Interval[c[2]] \in Nat \ {0}
  <1>1. PICK d \in SchedDevices : c \in {d} \X Applicable(Site[d].type)
    BY DEF Checks
  <1>2. c[1] = d /\ c[2] \in Applicable(Site[d].type) /\ c = <<c[1], c[2]>>
    BY <1>1
  <1>3. c[2] \in CheckKind
    BY <1>2 DEF Applicable, CheckKind
  <1> QED  BY <1>2, <1>3, SchedulerAssumption

\* The checks of a device that a visit finds due.
LEMMA DueParts ==
    ASSUME NEW s, NEW d \in SchedDevices, NEW c
    PROVE  c \in DueNow(s, d) <=>
              c \in Checks /\ c[1] = d /\ sweep[s].rows[c] <= sweep[s].at
  <1>1. ASSUME c \in DueNow(s, d)  PROVE c \in Checks /\ c[1] = d /\ sweep[s].rows[c] <= sweep[s].at
    BY <1>1 DEF DueNow, Checks
  <1>2. ASSUME c \in Checks, c[1] = d, sweep[s].rows[c] <= sweep[s].at  PROVE c \in DueNow(s, d)
    <2>1. c \in {d} \X Applicable(Site[d].type)
      BY <1>2, CheckParts
    <2> QED  BY <1>2, <2>1 DEF DueNow
  <1> QED  BY <1>1, <1>2

LEMMA DueTimes ==
    ASSUME NEW u \in Now, NEW c \in Checks, NEW jitter \in 0 .. MaxJitter
    PROVE  u + Interval[c[2]] + jitter \in DueTime
  BY MaxInterval, CheckParts, SchedulerAssumption DEF DueTime, Now

LEMMA NoSweepTyped == NoSweep \in SweepRec
  <1>1. 0 \in Now /\ 0 \in DueTime
    BY SchedulerAssumption, MaxInterval DEF Now, DueTime
  <1> QED  BY <1>1 DEF NoSweep, SweepRec

-----------------------------------------------------------------------------
LEMMA SchedInit_Types == SchedInit => SchedTypes
  <1> SUFFICES ASSUME SchedInit PROVE SchedTypes
    OBVIOUS
  <1>1. 0 \in Now /\ 0 \in DueTime
    BY SchedulerAssumption, MaxInterval DEF Now, DueTime
  <1>2. sweep \in [Sweepers -> SweepRec]
    BY NoSweepTyped DEF SchedInit
  <1>3. \A s \in Sweepers : sweep[s] \in SweepRec
    BY <1>2
  <1>4. dueAt \in [Checks -> DueTime] /\ sent \in [Checks -> [Now -> Nat]]
    BY <1>1 DEF SchedInit
  <1>5. SchedTypeOK
    BY <1>1, <1>3, <1>4, SchedulerAssumption DEF SchedTypeOK, SchedInit, SweepRec
  <1> QED  BY <1>2, <1>5 DEF SchedTypes

LEMMA SweepTypesStep ==
    SchedTypes /\ [SchedNext]_schedVars => sweep' \in [Sweepers -> SweepRec]
  <1> SUFFICES ASSUME SchedTypes, [SchedNext]_schedVars
               PROVE  sweep' \in [Sweepers -> SweepRec]
    OBVIOUS
  <1> USE DEF SchedTypes
  <1>1. ASSUME NEW s \in Sweepers, BeginDispatch(s) PROVE sweep' \in [Sweepers -> SweepRec]
    <2>1. PICK r \in SweepRec : r = [NoSweep EXCEPT !.stage = "scanning", !.at = schedNow,
                                                    !.rows = dueAt, !.todo = enabled]
      BY NoSweepTyped DEF SweepRec, NoSweep, SchedTypeOK
    <2>2. sweep' = [sweep EXCEPT ![s] = r]
      BY <1>1, <2>1 DEF BeginDispatch
    <2> QED  BY <2>2
  <1>2. ASSUME NEW s \in Sweepers, CommitDispatch(s) \/ AbortDispatch(s)
        PROVE  sweep' \in [Sweepers -> SweepRec]
    <2>1. sweep' = [sweep EXCEPT ![s] = NoSweep]
      BY <1>2 DEF CommitDispatch, AbortDispatch
    <2> QED  BY <2>1, NoSweepTyped
  <1>3. ASSUME NEW s \in Sweepers, NEW d \in SchedDevices, VisitDevice(s, d)
        PROVE  sweep' \in [Sweepers -> SweepRec]
    <2>1. DueNow(s, d) \subseteq Checks
      BY DueParts
    <2>2. InMaintenance(d) \in BOOLEAN
      BY DEF InMaintenance
    <2>3. PICK due \in SUBSET Checks, flag \in BOOLEAN :
             due = DueNow(s, d) /\ flag = InMaintenance(d)
      BY <2>1, <2>2
    <2>4. PICK r \in SweepRec : r = [sweep[s] EXCEPT !.todo = sweep[s].todo \ {d},
                                                    !.flag = flag, !.left = due]
      BY DEF SweepRec
    <2>5. sweep' = [sweep EXCEPT ![s] = r]
      BY <1>3, <2>3, <2>4 DEF VisitDevice
    <2> QED  BY <2>5
  <1>4. ASSUME NEW s \in Sweepers, NEW c \in Checks, NEW jitter \in 0 .. MaxJitter,
               SendCheck(s, c, jitter)
        PROVE  sweep' \in [Sweepers -> SweepRec]
    <2>1. sweep[s].at \in Now
      BY DEF SweepRec
    <2>2. PICK next \in DueTime : next = NextDue(s, c, jitter)
      BY <2>1, DueTimes DEF NextDue
    <2>3. PICK moved \in SUBSET (Checks \X DueTime) : moved = sweep[s].moved \cup {<<c, next>>}
      <3>1. sweep[s].moved \subseteq Checks \X DueTime
        BY DEF SchedTypeOK
      <3>2. <<c, next>> \in Checks \X DueTime
        OBVIOUS
      <3> QED  BY <3>1, <3>2
    <2>4. PICK r \in SweepRec : r = [sweep[s] EXCEPT !.left = sweep[s].left \ {c}, !.moved = moved]
      BY DEF SweepRec
    <2>5. sweep' = [sweep EXCEPT ![s] = r]
      BY <1>4, <2>2, <2>3, <2>4 DEF SendCheck
    <2> QED  BY <2>5
  <1>5. CASE UNCHANGED sweep
    BY <1>5
  <1> QED
    BY <1>1, <1>2, <1>3, <1>4, <1>5
       DEF SchedNext, SchedTick, CreateWindow, DeleteWindow, ChangeActive, Change, schedVars

LEMMA TablesStep == SchedTypes /\ [SchedNext]_schedVars => SchedTypes'
  <1> SUFFICES ASSUME SchedTypes, [SchedNext]_schedVars PROVE SchedTypes'
    OBVIOUS
  <1>0. sweep' \in [Sweepers -> SweepRec] /\ \A s \in Sweepers : sweep'[s] \in SweepRec
    BY SweepTypesStep
  <1> USE SchedulerAssumption DEF SchedTypes, SchedTypeOK
  <1>1. schedNow' \in Now
    <2>1. schedNow' = schedNow \/ (schedNow < MaxNow /\ schedNow' = schedNow + 1)
      BY DEF SchedNext, SchedTick, CreateWindow, DeleteWindow, ChangeActive, Change, schedVars,
           BeginDispatch, CommitDispatch, AbortDispatch, VisitDevice, SendCheck
    <2> QED  BY <2>1 DEF Now
  <1>2. changes' \in 0 .. MaxChanges
    <2>1. changes' = changes \/ (changes < MaxChanges /\ changes' = changes + 1)
      BY DEF SchedNext, SchedTick, CreateWindow, DeleteWindow, ChangeActive, Change, schedVars,
           BeginDispatch, CommitDispatch, AbortDispatch, VisitDevice, SendCheck
    <2> QED  BY <2>1
  <1>3. deaths' \in 0 .. MaxDeaths
    <2>1. deaths' = deaths \/ (deaths < MaxDeaths /\ deaths' = deaths + 1)
      BY DEF SchedNext, SchedTick, CreateWindow, DeleteWindow, ChangeActive, Change, schedVars,
           BeginDispatch, CommitDispatch, AbortDispatch, VisitDevice, SendCheck
    <2> QED  BY <2>1
  <1>4. overlaps' \in 0 .. MaxOverlaps
    <2>1. ASSUME NEW s \in Sweepers, BeginDispatch(s)  PROVE overlaps' \in 0 .. MaxOverlaps
      BY <2>1 DEF BeginDispatch
    <2> QED
      BY <2>1 DEF SchedNext, SchedTick, CreateWindow, DeleteWindow, ChangeActive, Change,
           schedVars, CommitDispatch, AbortDispatch, VisitDevice, SendCheck
  <1>5. enabled' \subseteq SchedDevices /\ windows' \subseteq WindowRows
    BY DEF SchedNext, SchedTick, CreateWindow, DeleteWindow, ChangeActive, Change, schedVars,
           BeginDispatch, CommitDispatch, AbortDispatch, VisitDevice, SendCheck
  <1>6. dueAt' \in [Checks -> DueTime]
    <2>1. ASSUME NEW s \in Sweepers, CommitDispatch(s)  PROVE dueAt' \in [Checks -> DueTime]
      <3> SUFFICES ASSUME NEW c \in Checks  PROVE dueAt'[c] \in DueTime
        BY <2>1 DEF CommitDispatch
      <3>1. CASE \E m \in sweep[s].moved : m[1] = c
        <4>1. (CHOOSE m \in sweep[s].moved : m[1] = c) \in sweep[s].moved
          BY <3>1
        <4>2. sweep[s].moved \subseteq Checks \X DueTime
          OBVIOUS
        <4>3. dueAt'[c] = (CHOOSE m \in sweep[s].moved : m[1] = c)[2]
          BY <2>1, <3>1 DEF CommitDispatch
        <4> QED  BY <4>1, <4>2, <4>3
      <3>2. CASE ~ \E m \in sweep[s].moved : m[1] = c
        BY <2>1, <3>2 DEF CommitDispatch
      <3> QED  BY <3>1, <3>2
    <2> QED
      BY <2>1 DEF SchedNext, SchedTick, CreateWindow, DeleteWindow, ChangeActive, Change,
           schedVars, BeginDispatch, AbortDispatch, VisitDevice, SendCheck
  <1>7. sent' \in [Checks -> [Now -> Nat]]
    <2>1. ASSUME NEW s \in Sweepers, NEW c \in Checks, NEW jitter \in 0 .. MaxJitter,
                 SendCheck(s, c, jitter)
          PROVE  sent' \in [Checks -> [Now -> Nat]]
      <3>1. PICK g \in [Now -> Nat], u \in Now : g = sent[c] /\ u = sweep[s].at
        OBVIOUS
      <3>2. PICK f \in [Now -> Nat] : f = [g EXCEPT ![u] = g[u] + 1]
        <4>1. g[u] + 1 \in Nat
          OBVIOUS
        <4> QED  BY <4>1
      <3>3. sent' = [sent EXCEPT ![c] = f]
        BY <2>1, <3>1, <3>2 DEF SendCheck
      <3> QED  BY <3>3
    <2> QED
      BY <2>1 DEF SchedNext, SchedTick, CreateWindow, DeleteWindow, ChangeActive, Change,
           schedVars, BeginDispatch, CommitDispatch, AbortDispatch, VisitDevice
  <1>8. \A s \in Sweepers :
           /\ sweep'[s].stage \in {"idle", "scanning"}
           /\ sweep'[s].at \in Now /\ sweep'[s].rows \in [Checks -> DueTime]
           /\ sweep'[s].todo \subseteq SchedDevices /\ sweep'[s].left \subseteq Checks
           /\ sweep'[s].moved \subseteq Checks \X DueTime
    BY <1>0 DEF SweepRec
  <1> QED  BY <1>0, <1>1, <1>2, <1>3, <1>4, <1>5, <1>6, <1>7, <1>8

-----------------------------------------------------------------------------
LEMMA OrderStep ==
    SchedInv /\ [SchedNext]_schedVars => \A s \in Sweepers : SweepInOrder(sweep[s])'
  <1> SUFFICES ASSUME SchedInv, [SchedNext]_schedVars, NEW w \in Sweepers
               PROVE  SweepInOrder(sweep[w])'
    OBVIOUS
  <1> USE DEF SchedInv, SchedTypes, SweepInOrder
  <1>0. sweep[w].at \in Now /\ schedNow \in Now /\ Now \subseteq Nat
    BY SchedulerAssumption DEF SchedTypeOK, Now
  <1>1. CASE sweep'[w] = sweep[w] /\ (schedNow' = schedNow \/ schedNow' = schedNow + 1)
    <2>1. PICK a \in Nat, n \in Nat : a = sweep[w].at /\ n = schedNow
      BY <1>0
    <2>2. a <= n
      BY <2>1
    <2>3. a <= n /\ a <= n + 1
      BY <2>2
    <2>4. sweep'[w].at <= schedNow'
      BY <1>1, <2>1, <2>3
    <2> QED  BY <1>1, <2>4
  <1>2. ASSUME sweep'[w] = NoSweep, schedNow' = schedNow  PROVE SweepInOrder(sweep[w])'
    BY <1>0, <1>2 DEF NoSweep
  <1>3. ASSUME NEW s \in Sweepers, BeginDispatch(s) PROVE SweepInOrder(sweep[w])'
    <2>1. CASE s = w
      <3>1. sweep'[w] = [NoSweep EXCEPT !.stage = "scanning", !.at = schedNow,
                                        !.rows = dueAt, !.todo = enabled]
        BY <1>3, <2>1 DEF BeginDispatch
      <3>2. sweep'[w].at = schedNow /\ sweep'[w].left = {} /\ sweep'[w].moved = {}
        BY <3>1 DEF NoSweep
      <3> QED  BY <1>0, <1>3, <3>2 DEF BeginDispatch
    <2>2. CASE s # w
      BY <1>1, <1>3, <2>2 DEF BeginDispatch
    <2> QED  BY <2>1, <2>2
  <1>4. ASSUME NEW s \in Sweepers, NEW d \in SchedDevices, VisitDevice(s, d)
        PROVE  SweepInOrder(sweep[w])'
    <2>1. CASE s = w
      <3>1. /\ sweep'[w].todo = sweep[w].todo \ {d} /\ sweep'[w].left = DueNow(w, d)
            /\ sweep'[w].at = sweep[w].at /\ sweep'[w].moved = sweep[w].moved
        BY <1>4, <2>1 DEF VisitDevice, SweepRec
      <3>2. \A c \in sweep'[w].left : c[1] = d
        BY <3>1, DueParts
      <3> QED  BY <1>4, <3>1, <3>2 DEF VisitDevice
    <2>2. CASE s # w
      BY <1>1, <1>4, <2>2 DEF VisitDevice
    <2> QED  BY <2>1, <2>2
  <1>5. ASSUME NEW s \in Sweepers, NEW c \in Checks, NEW jitter \in 0 .. MaxJitter,
               SendCheck(s, c, jitter)
        PROVE  SweepInOrder(sweep[w])'
    <2>1. CASE s = w
      <3>1. /\ sweep'[w].left = sweep[w].left \ {c} /\ sweep'[w].todo = sweep[w].todo
            /\ sweep'[w].at = sweep[w].at
            /\ sweep'[w].moved = sweep[w].moved \cup {<<c, NextDue(w, c, jitter)>>}
        BY <1>5, <2>1 DEF SendCheck, SweepRec
      <3>2. NextDue(w, c, jitter) >= sweep[w].at + Interval[c[2]]
        <4>1. Interval[c[2]] \in Nat /\ sweep[w].at \in Nat /\ jitter \in Nat
          BY <1>0, CheckParts
        <4> QED  BY <4>1 DEF NextDue
      <3>3. \A m \in sweep'[w].moved : m[2] >= sweep'[w].at + Interval[m[1][2]]
        BY <3>1, <3>2
      <3> QED  BY <1>5, <3>1, <3>3 DEF SendCheck
    <2>2. CASE s # w
      BY <1>1, <1>5, <2>2 DEF SendCheck
    <2> QED  BY <2>1, <2>2
  <1>6. ASSUME NEW s \in Sweepers, CommitDispatch(s) \/ AbortDispatch(s)
        PROVE  SweepInOrder(sweep[w])'
    <2>1. sweep' = [sweep EXCEPT ![s] = NoSweep] /\ schedNow' = schedNow
      BY <1>6 DEF CommitDispatch, AbortDispatch
    <2> QED  BY <1>1, <1>2, <2>1
  <1>7. CASE UNCHANGED sweep /\ (schedNow' = schedNow \/ schedNow' = schedNow + 1)
    BY <1>1, <1>7
  <1> QED
    BY <1>3, <1>4, <1>5, <1>6, <1>7
       DEF SchedNext, SchedTick, CreateWindow, DeleteWindow, ChangeActive, Change, schedVars

LEMMA SentStep ==
    SchedInv /\ [SchedNext]_schedVars =>
        \A c \in Checks, u \in Now : sent'[c][u] > 0 => u <= schedNow'
  <1> SUFFICES ASSUME SchedInv, [SchedNext]_schedVars, NEW c \in Checks, NEW u \in Now,
                      sent'[c][u] > 0
               PROVE  u <= schedNow'
    OBVIOUS
  <1> USE DEF SchedInv, SchedTypes
  <1>0. schedNow \in Nat /\ u \in Nat
    BY SchedulerAssumption DEF SchedTypeOK, Now
  <1>1. schedNow' = schedNow \/ schedNow' = schedNow + 1
    BY DEF SchedNext, SchedTick, CreateWindow, DeleteWindow, ChangeActive, Change, schedVars,
           BeginDispatch, CommitDispatch, AbortDispatch, VisitDevice, SendCheck
  <1>2. CASE sent'[c][u] = sent[c][u]
    BY <1>0, <1>1, <1>2
  <1>3. CASE sent'[c][u] # sent[c][u]
    <2>1. PICK s \in Sweepers, k \in Checks, jitter \in 0 .. MaxJitter : SendCheck(s, k, jitter)
      BY <1>3 DEF SchedNext, SchedTick, CreateWindow, DeleteWindow, ChangeActive, Change,
           schedVars, BeginDispatch, CommitDispatch, AbortDispatch, VisitDevice
    <2>2. u = sweep[s].at
      BY <1>3, <2>1 DEF SendCheck, SchedTypeOK
    <2>3. u <= schedNow
      BY <2>2 DEF SweepInOrder
    <2> QED  BY <1>0, <1>1, <2>3
  <1> QED  BY <1>2, <1>3

-----------------------------------------------------------------------------
LEMMA SendersCount ==
    ASSUME NEW S, S \subseteq Sweepers
    PROVE  IsFiniteSet(S) /\ Cardinality(S) \in Nat
  BY SchedulerAssumption, FS_Subset, FS_CardinalityType

\* The account of a check adds up natural numbers.
LEMMA TotalParts ==
    ASSUME SchedTypes, NEW c \in Checks, NEW t \in Now
    PROVE  /\ SumOf(sent[c], Span(c, t)) \in Nat
           /\ IsFiniteSet(Senders(c, t)) /\ Cardinality(Senders(c, t)) \in Nat
           /\ deaths \in Nat /\ overlaps \in Nat
           /\ Span(c, t) \in SUBSET Now
           /\ \A u \in Span(c, t) : u \in Nat /\ t <= u /\ u < t + Interval[c[2]]
           /\ t \in Nat /\ Interval[c[2]] \in Nat \ {0}
  <1>1. sent[c] \in [Now -> Nat] /\ deaths \in Nat /\ overlaps \in Nat
    BY SchedulerAssumption DEF SchedTypes, SchedTypeOK
  <1>2. Span(c, t) \in SUBSET Now
    BY DEF Span
  <1>3. SumOf(sent[c], Span(c, t)) \in Nat
    BY <1>1, <1>2, TimesFinite, TotalTyped
  <1>4. Now \subseteq Nat
    BY SchedulerAssumption DEF Now
  <1>5. Senders(c, t) \subseteq Sweepers
    BY DEF Senders
  <1>6. IsFiniteSet(Senders(c, t)) /\ Cardinality(Senders(c, t)) \in Nat
    BY <1>5, SendersCount
  <1> QED  BY <1>1, <1>2, <1>3, <1>4, <1>6, CheckParts DEF Span

\* What is said of a check depends on its jobs, its due time and the sweeps.
LEMMA AccountKept ==
    ASSUME SchedTypes, NEW c \in Checks, NEW t \in Now, Accounted(c, t),
           sent'[c] = sent[c], dueAt'[c] = dueAt[c], deaths' = deaths, overlaps' = overlaps,
           \A s \in Sweepers :
              /\ sweep'[s].stage = sweep[s].stage /\ sweep'[s].at = sweep[s].at
              /\ WillSend(sweep'[s], c) <=> WillSend(sweep[s], c)
              /\ WillMove(sweep'[s], c) <=> WillMove(sweep[s], c)
    PROVE  Accounted(c, t)'
  <1>1. Senders(c, t)' = Senders(c, t) /\ Movers(c, t)' = Movers(c, t)
    BY DEF Senders, Movers
  <1>2. Sweeping' = Sweeping /\ \A s \in Sweeping : sweep'[s].at = sweep[s].at
    BY DEF Sweeping
  <1>3. Total(c, t)' = Total(c, t)
    BY <1>1 DEF Total
  <1>4. Guarded(c, t)' = Guarded(c, t)
    BY <1>1, <1>2 DEF Guarded
  <1> QED  BY <1>3, <1>4 DEF Accounted

\* A sweep that begins repeats a job only where none was guarded against, or
\* overlaps another.
LEMMA BeginAccount ==
    ASSUME SchedInv, NEW s \in Sweepers, BeginDispatch(s), NEW c \in Checks, NEW t \in Now
    PROVE  Accounted(c, t)'
  <1> DEFINE now == schedNow
             d == deaths
             o == overlaps
             I == Interval[c[2]]
  <1>0. /\ SchedTypes /\ Accounted(c, t) /\ now \in Now /\ now \in Nat
        /\ dueAt[c] \in Nat /\ o' \in Nat
    <2>1. SchedTypes /\ Accounted(c, t) /\ now \in Now
      BY DEF SchedInv, SchedTypes, SchedTypeOK
    <2>2. Now \subseteq Nat /\ DueTime \subseteq Nat
      BY SchedulerAssumption, MaxInterval DEF Now, DueTime
    <2>3. dueAt[c] \in DueTime
      BY <2>1 DEF SchedTypes, SchedTypeOK
    <2>4. o' \in Nat
      BY <2>1, SchedulerAssumption DEF SchedTypes, SchedTypeOK, BeginDispatch
    <2> QED  BY <2>1, <2>2, <2>3, <2>4
  <1>1. /\ SumOf(sent[c], Span(c, t)) \in Nat /\ Cardinality(Senders(c, t)) \in Nat
        /\ IsFiniteSet(Senders(c, t)) /\ d \in Nat /\ o \in Nat /\ t \in Nat /\ I \in Nat
        /\ Span(c, t) \in SUBSET Now
    BY <1>0, TotalParts
  <1>2. sweep[s].stage = "idle" /\ sent' = sent /\ dueAt' = dueAt /\ d' = d
    BY <1>0 DEF BeginDispatch
  <1>3. /\ sweep'[s].stage = "scanning" /\ sweep'[s].at = now /\ sweep'[s].left = {}
        /\ sweep'[s].moved = {} /\ sweep'[s].todo = enabled /\ sweep'[s].rows = dueAt
    BY <1>0 DEF BeginDispatch, NoSweep, SchedTypes
  <1>4. \A x \in Sweepers : x # s => sweep'[x] = sweep[x]
    BY <1>0 DEF BeginDispatch, SchedTypes
  <1>5. s \notin Senders(c, t) /\ s \notin Movers(c, t) /\ s \notin Sweeping
    BY <1>2 DEF Senders, Movers, Sweeping, WillSend, WillMove
  <1>6. Movers(c, t) \subseteq Movers(c, t)'
    BY <1>4, <1>5 DEF Movers
  <1>7. Sweeping' = Sweeping \cup {s} /\ \A x \in Sweeping : sweep'[x].at = sweep[x].at
    BY <1>3, <1>4, <1>5 DEF Sweeping
  <1>8. SumOf(sent[c], Span(c, t))' = SumOf(sent[c], Span(c, t))
    BY <1>2
  <1>9. CASE now < t
    <2>1. \A u \in Span(c, t) : sent[c][u] = 0
      <3> SUFFICES ASSUME NEW u \in Span(c, t)  PROVE sent[c][u] = 0
        OBVIOUS
      <3>1. u \in Now /\ u \in Nat /\ t <= u
        BY <1>1, SchedulerAssumption DEF Span, Now
      <3>2. sent[c][u] \in Nat /\ ~(sent[c][u] > 0)
        BY <1>0, <1>1, <1>9, <3>1 DEF SchedInv, SchedTypes, SchedTypeOK
      <3> QED  BY <3>2
    <2>2. SumOf(sent[c], Span(c, t)) = 0
      <3>1. sent[c] \in [Now -> Nat]
        BY <1>0 DEF SchedTypes, SchedTypeOK
      <3> QED  BY <1>1, <2>1, <3>1, TotalZero, TimesFinite
    <2>3. Senders(c, t)' = {}
      <3> SUFFICES ASSUME NEW x \in Sweepers, sweep'[x].at \in Span(c, t)  PROVE FALSE
        BY DEF Senders
      <3>1. sweep'[x].at <= now
        BY <1>0, <1>3, <1>4 DEF SchedInv, SweepInOrder
      <3>2. sweep'[x].at \in Nat /\ t <= sweep'[x].at
        BY SchedulerAssumption DEF Span, Now
      <3> QED  BY <1>0, <1>1, <1>9, <3>1, <3>2
    <2>4. Total(c, t)' = 0
      BY <1>8, <2>2, <2>3, FS_EmptySet DEF Total
    <2>5. PICK n \in Nat, k \in Nat : n = deaths' /\ k = overlaps'
      BY <1>0, <1>1, <1>2
    <2>6. 0 <= n + k /\ 0 <= 1 + n + k
      OBVIOUS
    <2> QED  BY <2>4, <2>5, <2>6 DEF Accounted
  <1>10. CASE ~(now < t)
    <2>1. t <= now /\ o <= o'
      BY <1>0, <1>1, <1>10 DEF BeginDispatch
    <2>2. Guarded(c, t) => Guarded(c, t)'
      BY <1>2, <1>3, <1>6, <1>7, <2>1 DEF Guarded
    <2>3. CASE s \notin Senders(c, t)'
      <3>1. Senders(c, t)' = Senders(c, t)
        BY <1>4, <1>5, <2>3 DEF Senders
      <3>2. Total(c, t)' = Total(c, t) /\ Total(c, t) \in Nat
        BY <1>1, <1>8, <3>1 DEF Total
      <3> QED  BY <1>0, <1>1, <1>2, <2>1, <2>2, <3>2 DEF Accounted
    <2>4. CASE s \in Senders(c, t)'
      <3>1. Senders(c, t)' = Senders(c, t) \cup {s}
        BY <1>4, <1>5, <2>4 DEF Senders
      <3>2. Total(c, t)' = Total(c, t) + 1 /\ Total(c, t) \in Nat
        <4>1. Cardinality(Senders(c, t)') = Cardinality(Senders(c, t)) + 1
          BY <1>1, <1>5, <3>1, FS_AddElement
        <4> QED  BY <1>1, <1>8, <4>1 DEF Total
      <3>3. CASE Sweeping = {}
        <4>1. Movers(c, t) = {}
          BY <3>3 DEF Movers, Sweeping, WillMove
        <4>2. dueAt[c] <= now /\ now < t + I
          BY <1>3, <2>4 DEF Senders, WillSend, Span
        <4>3. ~Guarded(c, t)
          BY <4>1, <4>2, <1>0, <1>1 DEF Guarded
        <4>4. Total(c, t) <= d + o
          BY <1>0, <4>3 DEF Accounted
        <4>5. s \in Movers(c, t)'
          BY <2>4 DEF Senders, Movers, WillSend, WillMove
        <4>6. Guarded(c, t)'
          BY <1>3, <1>7, <2>1, <3>3, <4>5 DEF Guarded
        <4> QED  BY <1>0, <1>1, <1>2, <2>1, <3>2, <4>4, <4>6 DEF Accounted
      <3>4. CASE Sweeping # {}
        <4>1. o' = o + 1
          BY <3>4 DEF BeginDispatch
        <4> QED  BY <1>0, <1>1, <1>2, <2>2, <3>2, <4>1 DEF Accounted
      <3> QED  BY <3>3, <3>4
    <2> QED  BY <2>3, <2>4
  <1> QED  BY <1>9, <1>10

LEMMA VisitAccount ==
    ASSUME SchedInv, NEW s \in Sweepers, NEW d \in SchedDevices, VisitDevice(s, d),
           NEW c \in Checks, NEW t \in Now
    PROVE  Accounted(c, t)'
  <1>0. SchedTypes /\ Accounted(c, t)
    BY DEF SchedInv
  <1>1. /\ sweep'[s].stage = sweep[s].stage /\ sweep'[s].at = sweep[s].at
        /\ sweep'[s].rows = sweep[s].rows /\ sweep'[s].moved = sweep[s].moved
        /\ sweep'[s].todo = sweep[s].todo \ {d} /\ sweep'[s].left = DueNow(s, d)
    BY <1>0 DEF VisitDevice, SchedTypes, SweepRec
  <1>2. WillSend(sweep'[s], c) <=> WillSend(sweep[s], c)
    <2>1. c \in DueNow(s, d) <=> c[1] = d /\ sweep[s].rows[c] <= sweep[s].at
      BY DueParts
    <2> QED  BY <1>1, <2>1 DEF VisitDevice, WillSend
  <1>3. WillMove(sweep'[s], c) <=> WillMove(sweep[s], c)
    BY <1>1, <1>2 DEF WillMove
  <1>4. \A x \in Sweepers : x # s => sweep'[x] = sweep[x]
    BY <1>0 DEF VisitDevice, SchedTypes
  <1>5. \A x \in Sweepers :
           /\ sweep'[x].stage = sweep[x].stage /\ sweep'[x].at = sweep[x].at
           /\ WillSend(sweep'[x], c) <=> WillSend(sweep[x], c)
           /\ WillMove(sweep'[x], c) <=> WillMove(sweep[x], c)
    BY <1>1, <1>2, <1>3, <1>4
  <1> QED  BY <1>0, <1>5, AccountKept DEF VisitDevice

\* A job that is sent was counted as one to come.
LEMMA SendAccount ==
    ASSUME SchedInv, NEW s \in Sweepers, NEW k \in Checks, NEW jitter \in 0 .. MaxJitter,
           SendCheck(s, k, jitter), NEW c \in Checks, NEW t \in Now
    PROVE  Accounted(c, t)'
  <1> DEFINE next == NextDue(s, k, jitter)
             at == sweep[s].at
  <1>0. SchedTypes /\ Accounted(c, t) /\ SweepInOrder(sweep[s])
    BY DEF SchedInv
  <1>1. /\ sweep'[s].stage = sweep[s].stage /\ sweep'[s].at = at
        /\ sweep'[s].rows = sweep[s].rows /\ sweep'[s].moved = sweep[s].moved \cup {<<k, next>>}
        /\ sweep'[s].todo = sweep[s].todo /\ sweep'[s].left = sweep[s].left \ {k}
    BY <1>0 DEF SendCheck, SchedTypes, SweepRec
  <1>2. \A x \in Sweepers : x # s => sweep'[x] = sweep[x]
    BY <1>0 DEF SendCheck, SchedTypes
  <1>3. CASE k # c
    <2>1. WillSend(sweep'[s], c) <=> WillSend(sweep[s], c)
      BY <1>1, <1>3 DEF WillSend
    <2>2. WillMove(sweep'[s], c) <=> WillMove(sweep[s], c)
      BY <1>1, <1>3, <2>1 DEF WillMove
    <2>3. sent'[c] = sent[c]
      BY <1>0, <1>3 DEF SendCheck, SchedTypes, SchedTypeOK
    <2>4. \A x \in Sweepers :
             /\ sweep'[x].stage = sweep[x].stage /\ sweep'[x].at = sweep[x].at
             /\ WillSend(sweep'[x], c) <=> WillSend(sweep[x], c)
             /\ WillMove(sweep'[x], c) <=> WillMove(sweep[x], c)
      BY <1>1, <1>2, <2>1, <2>2
    <2> QED  BY <1>0, <2>3, <2>4, AccountKept DEF SendCheck
  <1>4. CASE k = c
    <2>0. sweep[s].stage = "scanning"
      <3>1. c \in sweep[s].left
        BY <1>4 DEF SendCheck
      <3> QED  BY <1>0, <3>1 DEF SweepInOrder
    <2>1. WillSend(sweep[s], c) /\ ~WillSend(sweep'[s], c)
      BY <1>0, <1>1, <1>4, <2>0 DEF SendCheck, WillSend, SweepInOrder
    <2>2. WillMove(sweep[s], c) /\ WillMove(sweep'[s], c)
      <3>1. <<k, next>> \in sweep'[s].moved /\ <<k, next>>[1] = c
        BY <1>1, <1>4
      <3> QED  BY <1>1, <2>0, <2>1, <3>1 DEF WillMove
    <2>3. Movers(c, t)' = Movers(c, t)
      BY <1>1, <1>2, <2>2 DEF Movers
    <2>4. Sweeping' = Sweeping /\ \A x \in Sweeping : sweep'[x].at = sweep[x].at
      BY <1>1, <1>2 DEF Sweeping
    <2>5. Guarded(c, t)' = Guarded(c, t)
      BY <2>3, <2>4 DEF Guarded, SendCheck
    <2>6. /\ SumOf(sent[c], Span(c, t)) \in Nat /\ Cardinality(Senders(c, t)) \in Nat
          /\ IsFiniteSet(Senders(c, t)) /\ Span(c, t) \in SUBSET Now
      BY <1>0, TotalParts
    <2>7. SumOf(sent'[c], Span(c, t)) = SumOf(sent[c], Span(c, t))
                                        + (IF at \in Span(c, t) THEN 1 ELSE 0)
      <3>1. PICK f \in [Now -> Nat], u \in Now : f = sent[c] /\ u = at
        BY <1>0 DEF SchedTypes, SchedTypeOK
      <3>2. PICK h \in [Now -> Nat] : h = [f EXCEPT ![u] = f[u] + 1]
        <4>1. f[u] + 1 \in Nat
          OBVIOUS
        <4> QED  BY <4>1
      <3>3. sent'[c] = h
        BY <1>0, <1>4, <3>1, <3>2 DEF SendCheck, SchedTypes, SchedTypeOK
      <3>4. h[u] = f[u] + 1 /\ \A v \in Now : v # u => h[v] = f[v]
        BY <3>2
      <3>5. SumOf(h, Span(c, t)) = SumOf(f, Span(c, t)) + (IF u \in Span(c, t) THEN 1 ELSE 0)
        BY <2>6, <3>4, TotalOneMore, TimesFinite
      <3> QED  BY <3>1, <3>3, <3>5
    <2>8. Total(c, t)' = Total(c, t)
      <3>1. CASE at \in Span(c, t)
        <4>1. Senders(c, t)' = Senders(c, t) \ {s} /\ s \in Senders(c, t)
          BY <1>1, <1>2, <2>1, <3>1 DEF Senders
        <4>2. Cardinality(Senders(c, t)') = Cardinality(Senders(c, t)) - 1
          BY <2>6, <4>1, FS_RemoveElement
        <4> QED  BY <2>6, <2>7, <3>1, <4>2 DEF Total
      <3>2. CASE at \notin Span(c, t)
        <4>1. Senders(c, t)' = Senders(c, t)
          BY <1>1, <1>2, <3>2 DEF Senders
        <4> QED  BY <2>6, <2>7, <3>2, <4>1 DEF Total
      <3> QED  BY <3>1, <3>2
    <2> QED  BY <1>0, <2>5, <2>8 DEF Accounted, SendCheck
  <1> QED  BY <1>3, <1>4

\* A commit writes due times that are an interval after the jobs it sent.
LEMMA CommitAccount ==
    ASSUME SchedInv, NEW s \in Sweepers, CommitDispatch(s), NEW c \in Checks, NEW t \in Now
    PROVE  Accounted(c, t)'
  <1>0. SchedTypes /\ Accounted(c, t) /\ SweepInOrder(sweep[s])
    BY DEF SchedInv
  <1>1. sweep'[s] = NoSweep /\ \A x \in Sweepers : x # s => sweep'[x] = sweep[x]
    BY <1>0 DEF CommitDispatch, SchedTypes
  <1>2. ~WillSend(sweep[s], c) /\ ~WillSend(sweep'[s], c) /\ ~WillMove(sweep'[s], c)
    BY <1>1 DEF CommitDispatch, WillSend, WillMove, NoSweep
  <1>3. Senders(c, t)' = Senders(c, t)
    BY <1>1, <1>2 DEF Senders
  <1>4. Total(c, t)' = Total(c, t)
    BY <1>3 DEF Total, CommitDispatch
  <1>5. Sweeping' = Sweeping \ {s} /\ s \in Sweeping
    BY <1>1 DEF Sweeping, CommitDispatch, NoSweep
  <1>6. ASSUME Guarded(c, t)  PROVE Guarded(c, t)'
    <2>1. \A x \in Sweeping' : t <= sweep'[x].at
      BY <1>1, <1>5, <1>6 DEF Guarded, Sweeping
    <2>2. CASE \E m \in sweep[s].moved : m[1] = c
      <3> DEFINE m == CHOOSE m \in sweep[s].moved : m[1] = c
      <3>1. m \in sweep[s].moved /\ m[1] = c
        BY <2>2
      <3>2. dueAt'[c] = m[2]
        BY <2>2 DEF CommitDispatch
      <3> HIDE DEF m
      <3>3. m \in Checks \X DueTime
        BY <1>0, <3>1 DEF SchedTypes, SchedTypeOK
      <3>4. m[2] >= sweep[s].at + Interval[c[2]]
        BY <1>0, <3>1 DEF SweepInOrder
      <3>5. t <= sweep[s].at
        BY <1>5, <1>6 DEF Guarded
      <3>6. m[2] \in Nat /\ sweep[s].at \in Nat /\ t \in Nat /\ Interval[c[2]] \in Nat
        <4>1. Now \subseteq Nat /\ DueTime \subseteq Nat
          BY SchedulerAssumption, MaxInterval DEF Now, DueTime
        <4>2. sweep[s].at \in Now
          BY <1>0 DEF SchedTypes, SchedTypeOK
        <4> QED  BY <3>3, <4>1, <4>2, CheckParts
      <3>7. dueAt'[c] >= t + Interval[c[2]]
        BY <3>2, <3>4, <3>5, <3>6
      <3> QED  BY <2>1, <3>7 DEF Guarded
    <2>3. CASE ~ \E m \in sweep[s].moved : m[1] = c
      <3>1. dueAt'[c] = dueAt[c]
        BY <2>3 DEF CommitDispatch
      <3>2. ~WillMove(sweep[s], c)
        BY <1>2, <2>3 DEF WillMove
      <3>3. Movers(c, t)' = Movers(c, t)
        BY <1>1, <1>2, <3>2 DEF Movers
      <3> QED  BY <1>6, <2>1, <3>1, <3>3 DEF Guarded
    <2> QED  BY <2>2, <2>3
  <1> QED  BY <1>0, <1>4, <1>6 DEF Accounted, CommitDispatch

\* A sweep that dies leaves one job more to be sent again, and one death.
LEMMA AbortAccount ==
    ASSUME SchedInv, NEW s \in Sweepers, AbortDispatch(s), NEW c \in Checks, NEW t \in Now
    PROVE  Accounted(c, t)'
  <1>0. SchedTypes /\ Accounted(c, t)
    BY DEF SchedInv
  <1>1. sweep'[s] = NoSweep /\ \A x \in Sweepers : x # s => sweep'[x] = sweep[x]
    BY <1>0 DEF AbortDispatch, SchedTypes
  <1>2. ~WillSend(sweep'[s], c)
    BY <1>1 DEF WillSend, NoSweep
  <1>3. Senders(c, t)' \subseteq Senders(c, t)
    BY <1>1, <1>2 DEF Senders
  <1>4. /\ SumOf(sent[c], Span(c, t)) \in Nat /\ Cardinality(Senders(c, t)) \in Nat
        /\ IsFiniteSet(Senders(c, t)) /\ deaths \in Nat /\ overlaps \in Nat
    BY <1>0, TotalParts
  <1>5. Cardinality(Senders(c, t)') <= Cardinality(Senders(c, t)) /\ Cardinality(Senders(c, t)') \in Nat
    BY <1>3, <1>4, FS_Subset, FS_CardinalityType
  <1>6. Total(c, t)' <= Total(c, t) /\ Total(c, t)' \in Nat /\ Total(c, t) \in Nat
    BY <1>4, <1>5 DEF Total, AbortDispatch
  <1>7. Total(c, t)' <= deaths' + overlaps'
    BY <1>0, <1>4, <1>6 DEF Accounted, AbortDispatch
  <1>8. Total(c, t)' <= 1 + deaths' + overlaps'
    BY <1>4, <1>6, <1>7 DEF AbortDispatch
  <1> QED  BY <1>7, <1>8 DEF Accounted

LEMMA AccountStep ==
    SchedInv /\ [SchedNext]_schedVars => \A c \in Checks, t \in Now : Accounted(c, t)'
  <1> SUFFICES ASSUME SchedInv, [SchedNext]_schedVars, NEW c \in Checks, NEW t \in Now
               PROVE  Accounted(c, t)'
    OBVIOUS
  <1>1. CASE UNCHANGED <<sweep, sent, dueAt, deaths, overlaps>>
    BY <1>1, AccountKept DEF SchedInv
  <1> QED
    BY <1>1, BeginAccount, VisitAccount, SendAccount, CommitAccount, AbortAccount
       DEF SchedNext, SchedTick, CreateWindow, DeleteWindow, ChangeActive, Change, schedVars

-----------------------------------------------------------------------------
LEMMA SchedInit_Inv == SchedInit => SchedInv
  <1> SUFFICES ASSUME SchedInit PROVE SchedInv
    OBVIOUS
  <1>0. SchedTypes
    BY SchedInit_Types
  <1>1. \A s \in Sweepers : SweepInOrder(sweep[s])
    BY DEF SchedInit, SweepInOrder, NoSweep
  <1>2. \A c \in Checks, u \in Now : sent[c][u] = 0
    BY DEF SchedInit
  <1>3. ASSUME NEW c \in Checks, NEW t \in Now  PROVE Accounted(c, t)
    <2>1. Senders(c, t) = {}
      BY DEF Senders, WillSend, SchedInit, NoSweep
    <2>2. sent[c] \in [Now -> Nat] /\ Span(c, t) \in SUBSET Now
      BY <1>0, TotalParts DEF SchedTypes, SchedTypeOK
    <2>3. SumOf(sent[c], Span(c, t)) = 0
      BY <1>2, <2>2, TotalZero, TimesFinite
    <2>4. Total(c, t) = 0
      BY <2>1, <2>3, FS_EmptySet DEF Total
    <2> QED  BY <2>4 DEF Accounted, SchedInit
  <1> QED  BY <1>0, <1>1, <1>2, <1>3 DEF SchedInv

LEMMA SchedStep_Inv == SchedInv /\ [SchedNext]_schedVars => SchedInv'
  <1> SUFFICES ASSUME SchedInv, [SchedNext]_schedVars PROVE SchedInv'
    OBVIOUS
  <1>1. SchedTypes'
    BY TablesStep DEF SchedInv
  <1> QED  BY <1>1, OrderStep, SentStep, AccountStep DEF SchedInv

LEMMA SchedInvariant == SchedSpec => []SchedInv
  BY SchedInit_Inv, SchedStep_Inv, PTL DEF SchedSpec

\* Every table, row and local variable of a sweep is one the code can hold.
THEOREM SchedulerTypes == SchedSpec => []SchedTypeOK
  <1>1. SchedInv => SchedTypeOK
    BY DEF SchedInv, SchedTypes
  <1> QED  BY <1>1, SchedInvariant, PTL

\* However sweeps overlap, die and commit, a check is sent once in an interval,
\* and once more per death and per overlap (enqueue_due_checks).
THEOREM RepeatsAccounted == SchedSpec => []RepeatsAreExplained
  <1>1. SchedInv => RepeatsAreExplained
    <2> SUFFICES ASSUME SchedInv, NEW c \in Checks, NEW t \in Now
                 PROVE  MapThenSumSet(LAMBDA u : sent[c][u],
                            {u \in Now : t <= u /\ u < t + Interval[c[2]]})
                          <= 1 + deaths + overlaps
      BY Zenon DEF RepeatsAreExplained
    <2>1. SumOf(sent[c], Span(c, t)) + Cardinality(Senders(c, t)) <= 1 + deaths + overlaps
      BY DEF SchedInv, Accounted, Total
    <2>2. SumOf(sent[c], Span(c, t)) <= 1 + deaths + overlaps
      BY <2>1, TotalParts DEF SchedInv
    <2> QED  BY <2>2, Zenon DEF SumOf, Span
  <1> QED  BY <1>1, SchedInvariant, PTL

-----------------------------------------------------------------------------
(***************************************************************************)
(* The dashboard. While no push or fetch was lost and no push was passed   *)
(* over by a first load, a change is on its way to the page: it is         *)
(* unpublished, in the inbox, or read by the fetch that runs.              *)
(***************************************************************************)

\* Nothing is on its way to the page: no push, no fetch, and none was lost or
\* passed over.
Quiet == fetch.stage = "none" /\ inbox = 0 /\ unpublished = 0 /\ ~missed /\ ~passedOver

QuietPageIsCurrent == Quiet => Current

\* A push that is unpublished or in the inbox, or that was lost, will have the
\* page fetched; when there is none, the fetch that runs has read the last change.
NothingOnItsWay == ~missed /\ ~passedOver /\ unpublished = 0 /\ inbox = 0

\* What a fetch is: a request, with what the server has read for it.
FetchRec == [stage : {"none", "sent", "counted", "answered"},
             overall : Version, grouped : Version, tries : 0 .. 1]

LEMMA Fetches ==
    /\ NoFetch \in FetchRec /\ NoFetch.stage = "none"
    /\ NewFetch \in FetchRec /\ NewFetch.stage = "sent"
    /\ [NewFetch EXCEPT !.tries = 1] \in FetchRec
    /\ [NewFetch EXCEPT !.tries = 1].stage = "sent"
  <1>1. 0 \in Version
    BY DashboardAssumption DEF Version
  <1>2. NoFetch \in FetchRec /\ NoFetch.stage = "none"
    BY <1>1 DEF NoFetch, FetchRec
  <1>3. NewFetch \in FetchRec /\ NewFetch.stage = "sent"
    BY <1>2 DEF NewFetch, FetchRec
  <1>4. [NewFetch EXCEPT !.tries = 1] \in FetchRec
    BY <1>3 DEF FetchRec
  <1>5. [NewFetch EXCEPT !.tries = 1].stage = "sent"
    BY <1>3 DEF FetchRec
  <1> QED  BY <1>2, <1>3, <1>4, <1>5

\* What the two counts make of a fetch.
LEMMA Counts ==
    ASSUME NEW f \in FetchRec, NEW v \in Version
    PROVE  /\ [f EXCEPT !.stage = "counted", !.overall = v] \in FetchRec
           /\ [f EXCEPT !.stage = "counted", !.overall = v].stage = "counted"
           /\ [f EXCEPT !.stage = "counted", !.overall = v].overall = v
           /\ [f EXCEPT !.stage = "answered", !.grouped = v] \in FetchRec
           /\ [f EXCEPT !.stage = "answered", !.grouped = v].stage = "answered"
           /\ [f EXCEPT !.stage = "answered", !.grouped = v].grouped = v
           /\ [f EXCEPT !.stage = "answered", !.grouped = v].overall = f.overall
  <1>1. [f EXCEPT !.stage = "counted", !.overall = v] \in FetchRec
    BY DEF FetchRec
  <1>2. [f EXCEPT !.stage = "answered", !.grouped = v] \in FetchRec
    BY DEF FetchRec
  <1> QED  BY <1>1, <1>2 DEF FetchRec

DashTypes ==
    /\ db \in Version /\ unpublished \in Nat /\ inbox \in Nat /\ unpublished + inbox <= db
    /\ socket \in SocketState
    /\ fetch \in FetchRec
    /\ shown \in [overall : Version, grouped : Version, loaded : BOOLEAN]
    /\ fetchErrors \in 0 .. MaxFetchErrors /\ missed \in BOOLEAN /\ passedOver \in BOOLEAN

DashInv ==
    /\ DashTypes
    /\ NothingOnItsWay =>
          /\ fetch.stage = "none" => Current
          /\ fetch.stage = "counted" => fetch.overall = db
          /\ fetch.stage = "answered" => fetch.overall = db /\ fetch.grouped = db

LEMMA DashTypesOK == DashTypes => DashTypeOK
  <1> SUFFICES ASSUME DashTypes  PROVE DashTypeOK
    OBVIOUS
  <1>1. unpublished \in Version /\ inbox \in Version
    BY DashboardAssumption DEF DashTypes, Version
  <1> QED  BY <1>1 DEF DashTypes, DashTypeOK, FetchRec

LEMMA DashInitInv == DashInit => DashInv
  <1> SUFFICES ASSUME DashInit  PROVE DashInv
    OBVIOUS
  <1>1. 0 \in Version /\ 0 \in 0 .. MaxFetchErrors
    BY DashboardAssumption DEF Version
  <1>2. DashTypes
    <2>1. db \in Version /\ unpublished \in Nat /\ inbox \in Nat /\ unpublished + inbox <= db
      BY <1>1 DEF DashInit
    <2>2. /\ socket \in SocketState /\ missed \in BOOLEAN /\ passedOver \in BOOLEAN
          /\ fetchErrors \in 0 .. MaxFetchErrors
      BY <1>1 DEF DashInit, SocketState
    <2>3. fetch \in FetchRec /\ shown \in [overall : Version, grouped : Version, loaded : BOOLEAN]
      BY <1>1, Fetches DEF DashInit
    <2> QED  BY <2>1, <2>2, <2>3 DEF DashTypes
  <1>3. CASE shown.loaded
    <2>1. Current /\ fetch.stage = "none"
      BY <1>3, Fetches DEF DashInit, Current
    <2> QED  BY <1>2, <2>1 DEF DashInv
  <1>4. CASE ~shown.loaded
    <2>1. fetch.stage = "sent"
      BY <1>4, Fetches DEF DashInit
    <2> QED  BY <1>2, <2>1 DEF DashInv
  <1> QED  BY <1>3, <1>4

LEMMA DashStepInv == DashInv /\ [DashNext]_dashVars => DashInv'
  <1> SUFFICES ASSUME DashInv, [DashNext]_dashVars  PROVE DashInv'
    OBVIOUS
  <1>1. CASE CommitState
    <2>1. db + 1 \in Version /\ db \in Nat
      BY <1>1, DashboardAssumption DEF CommitState, DashInv, DashTypes, Version
    <2>2. DashTypes' /\ unpublished' # 0
      BY <1>1, <2>1 DEF CommitState, DashInv, DashTypes
    <2> QED  BY <2>2 DEF DashInv, NothingOnItsWay
  <1>2. CASE Publish
    <2>1. db \in Nat /\ unpublished \in Nat /\ inbox \in Nat /\ unpublished + inbox <= db
      BY DashboardAssumption DEF DashInv, DashTypes, Version
    <2>2. /\ unpublished' \in Nat /\ inbox' \in Nat /\ unpublished' + inbox' <= db
          /\ missed' \in BOOLEAN /\ (inbox' # 0 \/ missed')
      <3>1. CASE socket = "subscribed"
        BY <1>2, <2>1, <3>1 DEF Publish, DashInv, DashTypes
      <3>2. CASE socket # "subscribed"
        BY <1>2, <2>1, <3>2 DEF Publish
      <3> QED  BY <3>1, <3>2
    <2>3. DashTypes'
      BY <1>2, <2>2 DEF Publish, DashInv, DashTypes
    <2> QED  BY <2>2, <2>3 DEF DashInv, NothingOnItsWay
  <1>3. CASE LosePush
    <2>1. DashTypes' /\ missed'
      BY <1>3, DashboardAssumption DEF LosePush, DashInv, DashTypes, Version
    <2> QED  BY <2>1 DEF DashInv, NothingOnItsWay
  <1>4. CASE Connect \/ Subscribe \/ NoticeClose
    <2>1. \E next \in SocketState : SetSocket(next)
      BY <1>4 DEF Connect, Subscribe, NoticeClose, SocketState
    <2>2. DashTypes'
      BY <2>1 DEF SetSocket, DashInv, DashTypes
    <2> QED  BY <2>1, <2>2 DEF SetSocket, DashInv, NothingOnItsWay, Current
  <1>5. CASE BreakSocket
    <2>1. db \in Nat /\ unpublished \in Nat /\ inbox \in Nat /\ unpublished + inbox <= db
      BY DashboardAssumption DEF DashInv, DashTypes, Version
    <2>2. DashTypes'
      <3>1. unpublished' \in Nat /\ inbox' \in Nat /\ unpublished' + inbox' <= db'
        BY <1>5, <2>1 DEF BreakSocket
      <3>2. socket' \in SocketState /\ missed' \in BOOLEAN
        BY <1>5 DEF BreakSocket, SocketState, DashInv, DashTypes
      <3> QED  BY <1>5, <3>1, <3>2 DEF BreakSocket, DashInv, DashTypes
    <2>3. NothingOnItsWay' => NothingOnItsWay
      <3>1. CASE inbox = 0
        BY <1>5, <3>1, Zenon DEF BreakSocket, NothingOnItsWay
      <3>2. CASE inbox # 0
        <4>1. inbox > 0
          BY <2>1, <3>2
        <4> QED  BY <1>5, <4>1, Zenon DEF BreakSocket, NothingOnItsWay
      <3> QED  BY <3>1, <3>2
    <2> QED  BY <1>5, <2>2, <2>3 DEF BreakSocket, DashInv, Current
  <1>6. CASE Invalidate
    <2>1. DashTypes'
      <3>1. db \in Nat /\ unpublished \in Nat /\ inbox \in Nat /\ unpublished + inbox <= db
        BY DashboardAssumption DEF DashInv, DashTypes, Version
      <3>2. inbox' \in Nat /\ unpublished + inbox' <= db
        BY <1>6, <3>1 DEF Invalidate
      <3>3. missed' \in BOOLEAN /\ passedOver' \in BOOLEAN
        BY <1>6 DEF Invalidate
      <3>4. fetch' \in FetchRec
        BY <1>6, Fetches DEF Invalidate, DashInv, DashTypes
      <3> QED  BY <1>6, <3>2, <3>3, <3>4 DEF Invalidate, DashInv, DashTypes
    \* Only a first load is left running, and one that has counted is remembered.
    <2>2. CASE fetch.stage # "none" /\ ~shown.loaded
      <3>1. fetch' = fetch /\ (~passedOver' => fetch.stage \notin {"counted", "answered"})
        BY <1>6, <2>2 DEF Invalidate
      <3> QED  BY <2>1, <2>2, <3>1 DEF DashInv, NothingOnItsWay
    <2>3. CASE ~(fetch.stage # "none" /\ ~shown.loaded)
      <3>1. fetch' = NewFetch
        BY <1>6, <2>3 DEF Invalidate
      <3> QED  BY <2>1, <3>1, Fetches DEF DashInv
    <2> QED  BY <2>2, <2>3
  <1>7. CASE Poll \/ OpenPage
    <2>0. shown' \in [overall : Version, grouped : Version, loaded : BOOLEAN]
      <3>1. CASE Poll
        BY <3>1 DEF Poll, DashInv, DashTypes
      <3>2. CASE OpenPage
        <4>1. PICK kept \in BOOLEAN : shown' = [shown EXCEPT !.loaded = @ /\ kept]
          BY <3>2 DEF OpenPage
        <4>2. PICK b \in BOOLEAN : b = (shown.loaded /\ kept)
          OBVIOUS
        <4> QED  BY <4>1, <4>2 DEF DashInv, DashTypes
      <3> QED  BY <1>7, <3>1, <3>2
    <2>1. DashTypes'
      BY <1>7, <2>0, Fetches DEF Poll, OpenPage, StartFetch, DashInv, DashTypes
    <2> QED  BY <1>7, <2>1, Fetches DEF Poll, OpenPage, StartFetch, DashInv
  <1>8. CASE CountOverall
    <2>1. fetch' \in FetchRec /\ fetch'.stage = "counted" /\ fetch'.overall = db
      BY <1>8, Counts DEF CountOverall, DashInv, DashTypes
    <2>2. DashTypes'
      BY <1>8, <2>1 DEF CountOverall, DashInv, DashTypes
    <2> QED  BY <1>8, <2>1, <2>2 DEF CountOverall, DashInv
  <1>9. CASE CountByBuilding
    <2>1. /\ fetch' \in FetchRec /\ fetch'.stage = "answered"
          /\ fetch'.grouped = db /\ fetch'.overall = fetch.overall
      BY <1>9, Counts DEF CountByBuilding, DashInv, DashTypes
    <2>2. DashTypes'
      BY <1>9, <2>1 DEF CountByBuilding, DashInv, DashTypes
    <2> QED  BY <1>9, <2>1, <2>2 DEF CountByBuilding, DashInv, NothingOnItsWay
  <1>10. CASE Show
    <2>1. fetch.overall \in Version /\ fetch.grouped \in Version
      BY DEF DashInv, DashTypes, FetchRec
    <2>2. shown' \in [overall : Version, grouped : Version, loaded : BOOLEAN]
      BY <1>10, <2>1 DEF Show
    <2>3. DashTypes'
      BY <1>10, <2>2, Fetches DEF Show, DashInv, DashTypes
    <2>4. shown'.overall = fetch.overall /\ shown'.grouped = fetch.grouped /\ shown'.loaded
      BY <1>10 DEF Show
    <2> QED  BY <1>10, <2>3, <2>4, Fetches DEF Show, DashInv, NothingOnItsWay, Current
  <1>11. CASE FetchFails
    <2>1. fetch.tries \in 0 .. 1
      BY DEF DashInv, DashTypes, FetchRec
    <2>2. fetchErrors' \in 0 .. MaxFetchErrors
      BY <1>11, DashboardAssumption DEF FetchFails, DashInv, DashTypes
    <2>3. /\ fetch' \in FetchRec /\ missed' \in BOOLEAN
          /\ fetch'.stage = "sent" \/ missed'
      <3>1. CASE fetch.tries = 0
        <4>1. fetch' = [NewFetch EXCEPT !.tries = 1] /\ missed' = missed
          <5>1. fetch.tries # 1
            BY <3>1
          <5> QED  BY <1>11, <3>1, <5>1 DEF FetchFails, DashInv, DashTypes
        <4> QED  BY <4>1, Fetches DEF DashInv, DashTypes
      <3>2. CASE fetch.tries = 1
        <4>1. fetch' = NoFetch /\ missed' = TRUE
          <5>1. fetch.tries # 0
            BY <3>2
          <5> QED  BY <1>11, <3>2, <5>1 DEF FetchFails
        <4> QED  BY <4>1, Fetches
      <3> QED  BY <2>1, <3>1, <3>2
    <2>4. DashTypes'
      BY <1>11, <2>2, <2>3 DEF FetchFails, DashInv, DashTypes
    <2> QED  BY <2>3, <2>4 DEF DashInv, NothingOnItsWay
  <1>12. CASE UNCHANGED dashVars
    BY <1>12 DEF dashVars, DashInv, DashTypes, NothingOnItsWay, Current
  <1> QED
    BY <1>1, <1>2, <1>3, <1>4, <1>5, <1>6, <1>7, <1>8, <1>9, <1>10, <1>11, <1>12
       DEF DashNext, FetchStep

LEMMA DashInvariant == DashSpec => []DashInv
  <1> QED  BY DashInitInv, DashStepInv, PTL DEF DashSpec

\* The socket, the fetch and the page are what their types say, in every
\* behaviour of the push channel; no more pushes are on their way than changes
\* were committed (realtime.py publish_status_change, frontend/src/api/ws.ts).
THEOREM DashboardTypes == DashSpec => []DashTypeOK
  <1>1. DashInv => DashTypeOK
    BY DashTypesOK DEF DashInv
  <1> QED  BY <1>1, DashInvariant, PTL

\* When nothing is on its way to the page, nothing was lost and no push came in the
\* middle of the page's first load, both queries of the summary on it show the last
\* change: a push that finds another fetch under way cancels it (invalidateQueries).
THEOREM QuietIsCurrent == DashSpec => []QuietPageIsCurrent
  <1>1. DashInv => QuietPageIsCurrent
    BY DEF DashInv, NothingOnItsWay, Quiet, QuietPageIsCurrent
  <1> QED  BY <1>1, DashInvariant, PTL

-----------------------------------------------------------------------------
(***************************************************************************)
(* The components side by side, as the runs check them: a step of one is a *)
(* step or a stutter of each.                                              *)
(***************************************************************************)

LEMMA OperationsInitSplit ==
    OperationsInit => focus \in Focus /\ IInv /\ SchedInv /\ DashInv /\ EscInv
  <1> QED  BY InitIInv, SchedInit_Inv, DashInitInv, EscInit_Inv DEF OperationsInit

LEMMA OperationsStepSplit ==
    [OperationsNext]_operations =>
        /\ [Next]_vars /\ [SchedNext]_schedVars /\ [DashNext]_dashVars
        /\ [EscNext]_escVars /\ UNCHANGED focus
  <1> SUFFICES ASSUME [OperationsNext]_operations
               PROVE  /\ [Next]_vars /\ [SchedNext]_schedVars
                      /\ [DashNext]_dashVars /\ [EscNext]_escVars /\ UNCHANGED focus
    OBVIOUS
  <1>1. CASE Delivery(Next)
    BY <1>1 DEF Delivery
  <1>2. CASE Dispatch(SchedNext)
    BY <1>2 DEF Dispatch
  <1>3. CASE Pushing(DashNext)
    BY <1>3 DEF Pushing
  <1>4. CASE Escalating(EscNext)
    BY <1>4 DEF Escalating
  <1>5. CASE UNCHANGED operations
    BY <1>5 DEF operations
  <1> QED  BY <1>1, <1>2, <1>3, <1>4, <1>5 DEF OperationsNext

LEMMA OperationsInvariant ==
    OperationsSpec => [](focus \in Focus) /\ []IInv /\ []SchedInv /\ []DashInv /\ []EscInv
  <1>1. IInv /\ [Next]_vars => IInv'
    BY TypeStep, LogStep, EarlyStep DEF IInv
  <1>2. focus \in Focus /\ UNCHANGED focus => (focus \in Focus)'
    BY DEF Focus
  <1> QED
    BY <1>1, <1>2, OperationsInitSplit, OperationsStepSplit, SchedStep_Inv, DashStepInv,
       EscStep_Inv, PTL
       DEF OperationsSpec

\* Every worker, job and table of the four components is what its type says,
\* in the specification that the run checks.
THEOREM OperationsTypes == OperationsSpec => []OperationsTypeOK
  <1>1. (focus \in Focus) /\ IInv /\ SchedInv /\ DashInv /\ EscInv => OperationsTypeOK
    BY DashTypesOK
       DEF OperationsTypeOK, IInv, SchedInv, DashInv, SchedTypes, SchedTypeOK, EscInv, SweepInv
  <1> QED  BY <1>1, OperationsInvariant, PTL
=============================================================================
