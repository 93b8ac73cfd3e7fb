-------------------------- MODULE EvaluatorProofs ---------------------------
(***************************************************************************)
(* Proofs about Evaluator, for every set of devices and workers, every     *)
(* parent relation, all thresholds, all bounds and any crashes: the        *)
(* counters compute the reference definition, every worker works on the    *)
(* row as it is, and the events are a chain that the row ends.             *)
(***************************************************************************)
EXTENDS Evaluator, FiniteSetTheorems, TLAPS

-----------------------------------------------------------------------------
(***************************************************************************)
(* The counters that the evaluator keeps on a device row compute the       *)
(* reference definition of CheckHistory: if row and history agree before a *)
(* check result, they agree after it, for all thresholds.                  *)
(***************************************************************************)

\* What CheckHistory shows for a history that does not end in maintenance.
Shown(h) ==
    IF InOutage(h) THEN "DOWN"
    ELSE IF LooksUp(h) THEN "UP"
    ELSE IF LooksDegraded(h) THEN "DEGRADED"
    ELSE "UNKNOWN"

\* The row carries the history's verdict and, outside maintenance, its runs.
Agrees(r, h) ==
    /\ r.state = Verdict(h)
    /\ r.state # "MAINTENANCE" => TrailingFails(h, r.fail) /\ TrailingOks(h, r.ok)

\* Appending e to h, element by element.
LEMMA Appended ==
    ASSUME NEW h \in Seq(Entry), NEW e \in Entry
    PROVE  /\ Append(h, e) \in Seq(Entry)
           /\ Len(h) \in Nat
           /\ Len(Append(h, e)) = Len(h) + 1
           /\ \A k \in 1 .. Len(h) : Append(h, e)[k] = h[k] /\ h[k] \in Entry
           /\ Append(h, e)[Len(h) + 1] = e
  OBVIOUS

\* A failure extends the run of its kind at the end, anything else ends it.
LEMMA FailRunStep ==
    ASSUME NEW h \in Seq(Entry), NEW e \in Entry, NEW n \in Nat,
           TrailingFails(h, n)
    PROVE  /\ IsFail(e) => TrailingFails(Append(h, e), n + 1)
           /\ ~IsFail(e) => TrailingFails(Append(h, e), 0)
  <1> DEFINE g == Append(h, e)
  <1>1. /\ Len(h) \in Nat
        /\ Len(g) = Len(h) + 1
        /\ \A k \in 1 .. Len(h) : g[k] = h[k]
        /\ g[Len(h) + 1] = e
    BY Appended
  <1> HIDE DEF g
  <1>2. IsFail(e) => TrailingFails(g, n + 1)
    BY <1>1 DEF TrailingFails
  <1>3. ~IsFail(e) => TrailingFails(g, 0)
    BY <1>1 DEF TrailingFails
  <1> QED  BY <1>2, <1>3 DEF g

\* A success extends the run of its kind at the end, anything else ends it.
LEMMA OkRunStep ==
    ASSUME NEW h \in Seq(Entry), NEW e \in Entry, NEW n \in Nat,
           TrailingOks(h, n)
    PROVE  /\ IsOk(e) => TrailingOks(Append(h, e), n + 1)
           /\ ~IsOk(e) => TrailingOks(Append(h, e), 0)
  <1> DEFINE g == Append(h, e)
  <1>1. /\ Len(h) \in Nat
        /\ Len(g) = Len(h) + 1
        /\ \A k \in 1 .. Len(h) : g[k] = h[k]
        /\ g[Len(h) + 1] = e
    BY Appended
  <1> HIDE DEF g
  <1>2. IsOk(e) => TrailingOks(g, n + 1)
    BY <1>1 DEF TrailingOks
  <1>3. ~IsOk(e) => TrailingOks(g, 0)
    BY <1>1 DEF TrailingOks
  <1> QED  BY <1>2, <1>3 DEF g

-----------------------------------------------------------------------------
(***************************************************************************)
(* One more result and the outage that a history is in.                    *)
(***************************************************************************)

\* A failure begins an outage exactly when it completes a long enough run,
\* and never ends one.
LEMMA OutageAfterFail ==
    ASSUME NEW h \in Seq(Entry), NEW e \in Entry, NEW n \in Nat,
           IsFail(e), TrailingFails(h, n)
    PROVE  InOutage(Append(h, e)) <=> (InOutage(h) \/ n + 1 >= DownThreshold)
  <1> DEFINE g == Append(h, e)
  <1>1. /\ Len(h) \in Nat
        /\ Len(g) = Len(h) + 1
        /\ \A k \in 1 .. Len(h) : g[k] = h[k]
        /\ g[Len(h) + 1] = e
    BY Appended
  <1>2. ~e.flag /\ ~IsOk(e)
    BY DEF IsFail, IsOk, HardFail
  <1>3. DownThreshold \in Nat \ {0} /\ UpThreshold \in Nat \ {0}
    BY ThresholdAssumption
  <1> HIDE DEF g
  <1>4. ASSUME InOutage(h) PROVE InOutage(g)
    <2>1. PICK i \in 1 .. Len(h) :
             /\ OutageBegins(h, i)
             /\ \A k \in (i + 1) .. Len(h) : ~h[k].flag
             /\ \A j \in (i + 1) .. Len(h) : ~Recovered(h, i, j)
      BY <1>4 DEF InOutage
    <2>2. OutageBegins(g, i)
      BY <1>1, <1>3, <2>1 DEF OutageBegins
    <2>3. \A k \in (i + 1) .. Len(g) : ~g[k].flag
      BY <1>1, <1>2, <2>1
    <2>4. ASSUME NEW j \in (i + 1) .. Len(g), Recovered(g, i, j)
          PROVE  FALSE
      <3>1. CASE j = Len(g)
        BY <1>1, <1>2, <1>3, <2>4, <3>1 DEF Recovered
      <3>2. CASE j # Len(g)
        <4>1. Recovered(h, i, j)
          BY <1>1, <1>3, <2>1, <2>4, <3>2 DEF Recovered
        <4> QED  BY <1>1, <2>1, <2>4, <3>2, <4>1
      <3> QED  BY <3>1, <3>2
    <2> QED  BY <1>1, <2>1, <2>2, <2>3, <2>4 DEF InOutage
  <1>5. ASSUME n + 1 >= DownThreshold PROVE InOutage(g)
    <2>1. OutageBegins(g, Len(g))
      BY <1>1, <1>3, <1>5 DEF OutageBegins, TrailingFails
    <2> QED  BY <1>1, <2>1 DEF InOutage
  <1>6. ASSUME InOutage(g), n + 1 < DownThreshold PROVE InOutage(h)
    <2>1. PICK i \in 1 .. Len(g) :
             /\ OutageBegins(g, i)
             /\ \A k \in (i + 1) .. Len(g) : ~g[k].flag
             /\ \A j \in (i + 1) .. Len(g) : ~Recovered(g, i, j)
      BY <1>6 DEF InOutage
    <2>2. i # Len(g)
      <3> SUFFICES ASSUME i = Len(g) PROVE FALSE
        OBVIOUS
      <3>1. Len(g) - (n + 1) \in (i - DownThreshold + 1) .. i
        BY <1>1, <1>3, <1>6, <2>1 DEF OutageBegins, TrailingFails
      <3>2. IsFail(g[Len(g) - (n + 1)])
        BY <2>1, <3>1 DEF OutageBegins
      <3>3. Len(g) - (n + 1) >= 1 /\ n < Len(h)
        BY <1>1, <1>3, <1>6, <2>1 DEF OutageBegins
      <3>4. ~IsFail(h[Len(h) - n])
        BY <3>3 DEF TrailingFails
      <3> QED  BY <1>1, <3>2, <3>3, <3>4
    <2>3. i \in 1 .. Len(h) /\ OutageBegins(h, i)
      BY <1>1, <1>3, <2>1, <2>2 DEF OutageBegins
    <2>4. \A k \in (i + 1) .. Len(h) : ~h[k].flag
      BY <1>1, <2>1, <2>3
    <2>5. ASSUME NEW j \in (i + 1) .. Len(h), Recovered(h, i, j)
          PROVE  FALSE
      <3>1. Recovered(g, i, j)
        BY <1>1, <1>3, <2>3, <2>5 DEF Recovered
      <3> QED  BY <1>1, <2>1, <2>5, <3>1
    <2> QED  BY <2>3, <2>4, <2>5 DEF InOutage
  <1>7. n + 1 >= DownThreshold \/ n + 1 < DownThreshold
    BY <1>3
  <1> QED  BY <1>4, <1>5, <1>6, <1>7 DEF g

\* A result that is not a failure begins no outage; it ends the present one
\* exactly when it completes a long enough run of successes.
LEMMA OutageAfterSoft ==
    ASSUME NEW h \in Seq(Entry), NEW e \in Entry, NEW n \in Nat,
           ~IsFail(e), ~e.flag, TrailingOks(h, n)
    PROVE  InOutage(Append(h, e)) <=>
             (InOutage(h) /\ ~(IsOk(e) /\ n + 1 >= UpThreshold))
  <1> DEFINE g == Append(h, e)
  <1>1. /\ Len(h) \in Nat
        /\ Len(g) = Len(h) + 1
        /\ \A k \in 1 .. Len(h) : g[k] = h[k]
        /\ g[Len(h) + 1] = e
    BY Appended
  <1>2. /\ DownThreshold \in Nat \ {0} /\ UpThreshold \in Nat \ {0}
        /\ \A x : ~(IsFail(x) /\ IsOk(x))
    BY ThresholdAssumption DEF IsFail, IsOk, HardFail
  <1> HIDE DEF g
  <1>3. ASSUME InOutage(g)
        PROVE  InOutage(h) /\ ~(IsOk(e) /\ n + 1 >= UpThreshold)
    <2>1. PICK i \in 1 .. Len(g) :
             /\ OutageBegins(g, i)
             /\ \A k \in (i + 1) .. Len(g) : ~g[k].flag
             /\ \A j \in (i + 1) .. Len(g) : ~Recovered(g, i, j)
      BY <1>3 DEF InOutage
    <2>2. IsFail(g[i])
      BY <1>2, <2>1 DEF OutageBegins
    <2>3. i \in 1 .. Len(h) /\ OutageBegins(h, i) /\ IsFail(h[i])
      BY <1>1, <1>2, <2>1, <2>2 DEF OutageBegins
    <2>4. \A k \in (i + 1) .. Len(h) : ~h[k].flag
      BY <1>1, <2>1, <2>3
    <2>5. ASSUME NEW j \in (i + 1) .. Len(h), Recovered(h, i, j)
          PROVE  FALSE
      <3>1. Recovered(g, i, j)
        BY <1>1, <1>2, <2>3, <2>5 DEF Recovered
      <3> QED  BY <1>1, <2>1, <2>5, <3>1
    <2>6. ASSUME IsOk(e), n + 1 >= UpThreshold PROVE FALSE
      <3>1. \A k \in (Len(g) - UpThreshold + 1) .. Len(g) : IsOk(g[k])
        BY <1>1, <1>2, <2>6 DEF TrailingOks
      <3>2. i < Len(g) - UpThreshold + 1
        BY <1>1, <1>2, <2>1, <2>2, <3>1
      <3>3. Recovered(g, i, Len(g))
        BY <1>1, <1>2, <2>1, <3>1, <3>2 DEF Recovered
      <3> QED  BY <1>1, <2>1, <2>3, <3>3
    <2> QED  BY <2>3, <2>4, <2>5, <2>6 DEF InOutage
  <1>4. ASSUME InOutage(h), ~(IsOk(e) /\ n + 1 >= UpThreshold)
        PROVE  InOutage(g)
    <2>1. PICK i \in 1 .. Len(h) :
             /\ OutageBegins(h, i)
             /\ \A k \in (i + 1) .. Len(h) : ~h[k].flag
             /\ \A j \in (i + 1) .. Len(h) : ~Recovered(h, i, j)
      BY <1>4 DEF InOutage
    <2>2. OutageBegins(g, i)
      BY <1>1, <1>2, <2>1 DEF OutageBegins
    <2>3. \A k \in (i + 1) .. Len(g) : ~g[k].flag
      BY <1>1, <2>1
    <2>4. ASSUME NEW j \in (i + 1) .. Len(g), Recovered(g, i, j)
          PROVE  FALSE
      <3>1. CASE j = Len(g)
        <4>1. /\ IsOk(e)
              /\ \A k \in (Len(g) - UpThreshold + 1) .. Len(g) : IsOk(g[k])
              /\ i + UpThreshold <= Len(g)
          BY <1>1, <1>2, <2>4, <3>1 DEF Recovered
        <4>2. n + 1 < UpThreshold /\ n < Len(h)
          BY <1>1, <1>2, <1>4, <4>1
        <4>3. Len(h) - n \in (Len(g) - UpThreshold + 1) .. Len(g)
          BY <1>1, <1>2, <4>2
        <4>4. Len(h) - n \in 1 .. Len(h)
          BY <1>1, <4>2 DEF TrailingOks
        <4>5. IsOk(h[Len(h) - n])
          BY <1>1, <4>1, <4>3, <4>4
        <4> QED  BY <4>2, <4>5 DEF TrailingOks
      <3>2. CASE j # Len(g)
        <4>1. Recovered(h, i, j)
          BY <1>1, <1>2, <2>1, <2>4, <3>2 DEF Recovered
        <4> QED  BY <1>1, <2>1, <2>4, <3>2, <4>1
      <3> QED  BY <3>1, <3>2
    <2> QED  BY <1>1, <2>1, <2>2, <2>3, <2>4 DEF InOutage
  <1> QED  BY <1>3, <1>4 DEF g

\* A failure leaves the last other result where it is ...
LEMMA LooksAfterFail ==
    ASSUME NEW h \in Seq(Entry), NEW e \in Entry, IsFail(e)
    PROVE  /\ LooksUp(Append(h, e)) <=> LooksUp(h)
           /\ LooksDegraded(Append(h, e)) <=> LooksDegraded(h)
  <1> DEFINE g == Append(h, e)
  <1>1. /\ Len(h) \in Nat
        /\ Len(g) = Len(h) + 1
        /\ \A k \in 1 .. Len(h) : g[k] = h[k]
        /\ g[Len(h) + 1] = e
    BY Appended
  <1> HIDE DEF g
  <1>2. \A k \in 1 .. Len(g) : LastSoft(g, k) <=> (k \in 1 .. Len(h) /\ LastSoft(h, k))
    <2> SUFFICES ASSUME NEW k \in 1 .. Len(g)
                 PROVE  LastSoft(g, k) <=> (k \in 1 .. Len(h) /\ LastSoft(h, k))
      OBVIOUS
    <2>1. CASE k = Len(g)
      BY <1>1, <2>1 DEF LastSoft
    <2>2. CASE k # Len(g)
      <3>1. k \in 1 .. Len(h)
        BY <1>1, <2>2
      <3>2. (\A m \in (k + 1) .. Len(g) : IsFail(g[m]))
              <=> (\A m \in (k + 1) .. Len(h) : IsFail(h[m]))
        BY <1>1, <3>1
      <3> QED  BY <1>1, <3>1, <3>2 DEF LastSoft
    <2> QED  BY <2>1, <2>2
  <1>3. 1 .. Len(h) \subseteq 1 .. Len(g)
    BY <1>1
  <1> QED  BY <1>1, <1>2, <1>3 DEF g, LooksUp, LooksDegraded

\* ... and any other result is itself the last one.
LEMMA LooksAfterSoft ==
    ASSUME NEW h \in Seq(Entry), NEW e \in Entry, ~IsFail(e)
    PROVE  /\ LooksUp(Append(h, e)) <=> IsOk(e)
           /\ LooksDegraded(Append(h, e)) <=> (~e.flag /\ ~IsOk(e))
  <1> DEFINE g == Append(h, e)
  <1>1. /\ Len(h) \in Nat
        /\ Len(g) = Len(h) + 1
        /\ g[Len(h) + 1] = e
    BY Appended
  <1> HIDE DEF g
  <1>2. \A k \in 1 .. Len(g) : LastSoft(g, k) <=> k = Len(g)
    BY <1>1 DEF LastSoft
  <1>3. Len(g) \in 1 .. Len(g) /\ g[Len(g)] = e
    BY <1>1
  <1> QED  BY <1>2, <1>3 DEF g, LooksUp, LooksDegraded

-----------------------------------------------------------------------------
\* A history that ends in maintenance starts over: no outage, no runs.
LEMMA MaintenanceForgets ==
    ASSUME NEW h \in Seq(Entry), UnderMaintenance(h)
    PROVE  Shown(h) = "UNKNOWN" /\ TrailingFails(h, 0) /\ TrailingOks(h, 0)
  <1>1. Len(h) \in Nat \ {0} /\ h[Len(h)].flag
    BY DEF UnderMaintenance
  <1>2. ~IsFail(h[Len(h)]) /\ ~IsOk(h[Len(h)])
    BY <1>1 DEF IsFail, IsOk
  <1>3. ~InOutage(h)
    <2> SUFFICES ASSUME NEW i \in 1 .. Len(h), OutageBegins(h, i),
                        \A k \in (i + 1) .. Len(h) : ~h[k].flag
                 PROVE  FALSE
      BY DEF InOutage
    <2>1. i = Len(h)
      BY <1>1
    <2> QED  BY <1>1, <1>2, <2>1, ThresholdAssumption DEF OutageBegins
  <1>4. \A k \in 1 .. Len(h) : LastSoft(h, k) => k = Len(h)
    BY <1>1, <1>2 DEF LastSoft
  <1>5. ~LooksUp(h) /\ ~LooksDegraded(h)
    BY <1>1, <1>2, <1>4 DEF LooksUp, LooksDegraded
  <1>6. TrailingFails(h, 0) /\ TrailingOks(h, 0)
    BY <1>1, <1>2 DEF TrailingFails, TrailingOks
  <1> QED  BY <1>3, <1>5, <1>6 DEF Shown

\* Counting touches the two counters only, and each one as its run demands.
LEMMA CountedFields ==
    ASSUME NEW r \in Row, NEW s
    PROVE  /\ Counted(r, s) \in Row
           /\ Counted(r, s).state = r.state /\ Counted(r, s).active = r.active
           /\ Counted(r, s).fail = IF s \in HardFail THEN r.fail + 1 ELSE 0
           /\ Counted(r, s).ok = IF s = "OK" THEN r.ok + 1 ELSE 0
  <1>1. Counted(r, s) \in Row
    <2> DEFINE x == IF s \in HardFail THEN r.fail + 1 ELSE 0
               y == IF s = "OK" THEN r.ok + 1 ELSE 0
    <2>1. x \in Nat /\ y \in Nat
      BY DEF Row
    <2> HIDE DEF x, y
    <2>2. [r EXCEPT !.fail = x, !.ok = y] \in Row
      BY <2>1 DEF Row
    <2> QED  BY <2>2 DEF x, y, Counted
  <1>2. Counted(r, s).state = r.state /\ Counted(r, s).active = r.active
    BY DEF Counted, Row
  <1>3. Counted(r, s).fail = IF s \in HardFail THEN r.fail + 1 ELSE 0
    BY DEF Counted, Row
  <1>4. Counted(r, s).ok = IF s = "OK" THEN r.ok + 1 ELSE 0
    BY DEF Counted, Row
  <1> QED  BY <1>1, <1>2, <1>3, <1>4

\* Before an untagged result is counted, the row shows the history's runs.
LEMMA ReenteredAgrees ==
    ASSUME NEW r \in Row, NEW h \in Seq(Entry), Agrees(r, h)
    PROVE  /\ Reentered(r, FALSE) \in Row
           /\ Reentered(r, FALSE).state = Shown(h)
           /\ TrailingFails(h, Reentered(r, FALSE).fail)
           /\ TrailingOks(h, Reentered(r, FALSE).ok)
  <1>1. CASE UnderMaintenance(h)
    BY <1>1, MaintenanceForgets DEF Agrees, Verdict, Reentered, Row, DeviceState
  <1>2. CASE ~UnderMaintenance(h)
    <2>1. r.state = Shown(h)
      BY <1>2 DEF Agrees, Verdict, Shown
    <2>2. r.state # "MAINTENANCE"
      BY <2>1 DEF Shown
    <2>3. Reentered(r, FALSE) = r
      BY <2>2 DEF Reentered
    <2> QED  BY <2>1, <2>2, <2>3 DEF Agrees
  <1> QED  BY <1>1, <1>2

(***************************************************************************)
(* evaluate() keeps the device row in agreement with the check results:    *)
(* what its two counters decide is what the reference definition reads off *)
(* the whole history.                                                      *)
(***************************************************************************)
THEOREM EvaluateAgrees ==
    ASSUME NEW r \in Row, NEW h \in Seq(Entry), NEW e \in Entry, Agrees(r, h)
    PROVE  /\ EvaluatedRow(r, e.status, e.flag) \in Row
           /\ Agrees(EvaluatedRow(r, e.status, e.flag), Append(h, e))
  <1> DEFINE g == Append(h, e)
             b == Reentered(r, FALSE)
             new == EvaluatedRow(r, e.status, e.flag)
  <1>1. /\ Len(g) = Len(h) + 1 /\ Len(h) \in Nat /\ g[Len(g)] = e
        /\ e.flag \in BOOLEAN /\ e.status \in CheckStatus
    BY Appended DEF Entry
  <1>2. UnderMaintenance(g) <=> e.flag
    BY <1>1 DEF UnderMaintenance
  <1>3. CASE e.flag
    BY <1>1, <1>2, <1>3 DEF EvaluatedRow, Agrees, Verdict, Row, DeviceState
  <1>4. CASE ~e.flag
    <2>1. /\ b \in Row
          /\ b.state = Shown(h)
          /\ TrailingFails(h, b.fail) /\ TrailingOks(h, b.ok)
          /\ b.fail \in Nat /\ b.ok \in Nat
      BY ReenteredAgrees DEF Row
    <2>2. b.state # "MAINTENANCE"
      BY <2>1 DEF Shown
    <2>3. new = NextState(b, e.status)
      BY <1>1, <1>4 DEF EvaluatedRow
    <2>4. Verdict(g) = Shown(g)
      BY <1>2, <1>4 DEF Verdict, Shown
    <2>5. /\ IsFail(e) <=> e.status \in HardFail
          /\ IsOk(e) <=> e.status = "OK"
          /\ ~(IsFail(e) /\ IsOk(e))
      BY <1>4 DEF IsFail, IsOk, HardFail
    <2> HIDE DEF g, b, new
    <2>6. LET c == Counted(b, e.status)
          IN  /\ c \in Row /\ c.state = b.state /\ c.active = b.active
              /\ c.fail = IF e.status \in HardFail THEN b.fail + 1 ELSE 0
              /\ c.ok = IF e.status = "OK" THEN b.ok + 1 ELSE 0
      BY <2>1, CountedFields
    <2>7. new = [Counted(b, e.status) EXCEPT
                   !.state = Decide(Counted(b, e.status), e.status)]
      BY <2>2, <2>3 DEF NextState
    <2>8. /\ new.fail = IF IsFail(e) THEN b.fail + 1 ELSE 0
          /\ new.ok = IF IsOk(e) THEN b.ok + 1 ELSE 0
          /\ new.state = Decide(Counted(b, e.status), e.status)
          /\ new.active = b.active
      BY <2>5, <2>6, <2>7 DEF Row
    <2>9. TrailingFails(g, new.fail) /\ TrailingOks(g, new.ok)
      BY <2>1, <2>8, FailRunStep, OkRunStep DEF g
    <2>10. new.state = Shown(g)
      <3>1. CASE IsFail(e)
        <4>1. new.state = IF b.fail + 1 >= DownThreshold THEN "DOWN" ELSE b.state
          BY <2>5, <2>6, <2>8, <3>1 DEF Decide
        <4>2. InOutage(g) <=> (InOutage(h) \/ b.fail + 1 >= DownThreshold)
          BY <2>1, <3>1, OutageAfterFail DEF g
        <4>3. (LooksUp(g) <=> LooksUp(h)) /\ (LooksDegraded(g) <=> LooksDegraded(h))
          BY <3>1, LooksAfterFail DEF g
        <4> QED  BY <2>1, <4>1, <4>2, <4>3 DEF Shown
      <3>2. CASE ~IsFail(e)
        <4>1. InOutage(g) <=>
                (InOutage(h) /\ ~(IsOk(e) /\ b.ok + 1 >= UpThreshold))
          BY <1>4, <2>1, <3>2, OutageAfterSoft DEF g
        <4>2. (LooksUp(g) <=> IsOk(e)) /\ (LooksDegraded(g) <=> ~IsOk(e))
          BY <1>4, <3>2, LooksAfterSoft DEF g
        <4>3. InOutage(h) <=> b.state = "DOWN"
          BY <2>1 DEF Shown
        <4>4. e.status \in {"OK", "DEGRADED"}
          BY <1>1, <2>5, <3>2 DEF CheckStatus, HardFail
        <4>5. new.state =
                IF b.state = "DOWN" /\ ~(IsOk(e) /\ b.ok + 1 >= UpThreshold)
                THEN "DOWN" ELSE IF IsOk(e) THEN "UP" ELSE "DEGRADED"
          BY <2>1, <2>5, <2>6, <2>8, <3>2, <4>4, ThresholdAssumption DEF Decide
        <4> QED  BY <4>1, <4>2, <4>3, <4>5 DEF Shown
      <3> QED  BY <3>1, <3>2
    <2>11. new.state \in DeviceState
      BY <2>10 DEF Shown, DeviceState
    <2>12. new \in Row
      BY <2>6, <2>7, <2>8, <2>11 DEF Row
    <2> QED  BY <2>4, <2>9, <2>10, <2>12 DEF Agrees, new, g
  <1> QED  BY <1>1, <1>3, <1>4

-----------------------------------------------------------------------------
(***************************************************************************)
(* The argument: a worker that is between its lock and its commit holds    *)
(* the lock of its device's row, so that what it read of the row is what   *)
(* the row still holds when it commits; hence a commit applies evaluate()  *)
(* to the committed row, and EvaluateAgrees says that this agrees with the *)
(* reference definition.                                                   *)
(***************************************************************************)

\* A lock is held from the FOR UPDATE read to the commit, and by nobody else.
Holds(w, d) == pc[w] \in {"locked", "evaluated"} /\ Dev(w) = d

LockDiscipline ==
    /\ \A w \in Workers : pc[w] # "idle" => job[w] \in Job
    /\ \A w \in Workers, d \in Devices : Holds(w, d) <=> rowLock[d] = w

\* What a worker read under the lock, and evaluated, is still the row.
TxnIsFresh ==
    \A w \in Workers :
        /\ pc[w] = "locked" => txn[w].row = row[Dev(w)]
        /\ pc[w] = "evaluated" =>
              txn[w].row = EvaluatedRow(row[Dev(w)], txn[w].entry.status,
                                        txn[w].entry.flag)

RowsAgree == \A d \in Devices : Agrees(row[d], results[d])

IInv == TypeOK /\ LockDiscipline /\ TxnIsFresh /\ RowsAgree

-----------------------------------------------------------------------------
LEMMA ReenteredRow ==
    ASSUME NEW r \in Row, NEW flag \in BOOLEAN
    PROVE  /\ Reentered(r, flag) \in Row
           /\ Reentered(r, flag).active = r.active
  BY DEF Reentered, Row, DeviceState

\* evaluate() maps rows to rows and leaves active alone.
LEMMA EvaluatedRowType ==
    ASSUME NEW r \in Row, NEW s \in CheckStatus, NEW flag \in BOOLEAN
    PROVE  EvaluatedRow(r, s, flag) \in Row
  <1>1. CASE flag
    BY <1>1 DEF EvaluatedRow, Row, DeviceState
  <1>2. CASE ~flag
    <2> DEFINE b == Reentered(r, flag)
               c == Counted(b, s)
    <2>1. b \in Row
      BY ReenteredRow
    <2>2. c \in Row
      BY <2>1, CountedFields
    <2> HIDE DEF b, c
    <2>3. Decide(c, s) \in DeviceState
      BY <2>2 DEF Decide, Row, DeviceState
    <2>4. [c EXCEPT !.state = Decide(c, s)] \in Row
      BY <2>2, <2>3 DEF Row
    <2>5. NextState(b, s) \in Row
      BY <2>1, <2>4 DEF NextState, c
    <2> QED  BY <1>2, <2>5 DEF EvaluatedRow, b
  <1> QED  BY <1>1, <1>2

\* Writing an event, and the end of the outage it ends, gives events again.
LEMMA EventsWithType ==
    ASSUME NEW es \in Seq(Event), NEW e \in Event
    PROVE  EventsWith(es, e) \in Seq(Event)
  <1> DEFINE i == LastDown(es)
             closed == [es EXCEPT ![i].ended = TRUE]
  <1> HIDE DEF i
  <1>1. closed \in Seq(Event)
    <2>1. es \in [1 .. Len(es) -> Event] /\ Len(es) \in Nat
      OBVIOUS
    <2>2. ASSUME NEW x \in Event PROVE [x EXCEPT !.ended = TRUE] \in Event
      BY DEF Event
    <2>3. i \in 1 .. Len(es) => [es[i] EXCEPT !.ended = TRUE] \in Event
      BY <2>1, <2>2
    <2>4. closed \in [1 .. Len(es) -> Event]
      BY <2>1, <2>3
    <2> HIDE DEF closed
    <2> QED  BY <2>1, <2>4
  <1>2. Append(closed, e) \in Seq(Event) /\ Append(es, e) \in Seq(Event)
    BY <1>1
  <1> QED  BY <1>2 DEF EventsWith, i

-----------------------------------------------------------------------------
(***************************************************************************)
(* The invariant is inductive: one lemma for type correctness and one for  *)
(* the locks and what they protect.                                        *)
(***************************************************************************)
LEMMA InitIInv == Init => IInv
  <1> SUFFICES ASSUME Init PROVE IInv
    OBVIOUS
  <1>1. NewDevice \in Row
    BY DEF NewDevice, Row, DeviceState
  <1>2. NoTxn \in Txn
    BY <1>1 DEF NoTxn, Txn, NoEntry, Entry, NoEvent, Event, DeviceState,
                CheckStatus
  <1>3. TypeOK
    BY <1>1, <1>2 DEF Init, TypeOK, Stage
  <1>4. LockDiscipline /\ TxnIsFresh
    BY EvaluatorAssumption DEF Init, LockDiscipline, TxnIsFresh, Holds
  <1>5. Verdict(<< >>) = "UNKNOWN"
    BY DEF Verdict, UnderMaintenance, InOutage, LooksUp, LooksDegraded
  <1>6. TrailingFails(<< >>, 0) /\ TrailingOks(<< >>, 0)
    BY DEF TrailingFails, TrailingOks
  <1>7. RowsAgree
    BY <1>5, <1>6 DEF Init, RowsAgree, Agrees, NewDevice
  <1> QED  BY <1>3, <1>4, <1>7 DEF IInv

LEMMA TypeStep == IInv /\ [Next]_vars => TypeOK'
  <1> SUFFICES ASSUME IInv, [Next]_vars PROVE TypeOK'
    OBVIOUS
  <1> USE DEF TypeOK, IInv, database, broker
  <1>1. NewDevice \in Row /\ NoTxn \in Txn /\ NoEvent \in Event
    BY DEF NewDevice, Row, DeviceState, NoTxn, Txn, NoEntry, Entry, NoEvent,
           Event, CheckStatus
  <1>2. ASSUME NEW d \in Devices, EnqueueDueCheck(d) PROVE TypeOK'
    <2>1. [device |-> d, flag |-> window[d]] \in Job
      BY DEF Job
    <2>2. queue' \in [Job -> Nat]
      BY <1>2, <2>1 DEF EnqueueDueCheck
    <2> QED  BY <1>2, <2>2 DEF EnqueueDueCheck
  <1>3. ASSUME NEW d \in Devices, ChangeWindow(d) PROVE TypeOK'
    BY <1>3 DEF ChangeWindow
  <1>4. ASSUME NEW d \in Devices, NEW a \in BOOLEAN, SetActive(d, a) PROVE TypeOK'
    <2>1. [row[d] EXCEPT !.active = a] \in Row
      BY DEF Row
    <2> QED  BY <1>4, <2>1 DEF SetActive
  <1>5. ASSUME NEW w \in Workers, NEW j \in Job, TakeJob(w, j) PROVE TypeOK'
    <2>1. queue' \in [Job -> Nat]
      BY <1>5 DEF TakeJob
    <2>2. pc' \in [Workers -> Stage] /\ job' \in [Workers -> Job \cup {NoJob}]
      BY <1>5 DEF TakeJob, Stage
    <2> QED  BY <1>5, <2>1, <2>2 DEF TakeJob
  <1>6. ASSUME NEW w \in Workers, NEW o \in Outcomes, LockRow(w, o) PROVE TypeOK'
    <2>1. Dev(w) \in Devices /\ job[w].flag \in BOOLEAN
      BY <1>6 DEF LockRow, LockDiscipline, Dev, Job
    <2>2. [row   |-> row[Dev(w)],
           entry |-> [status |-> o, flag |-> job[w].flag],
           event |-> NoEvent, id |-> 0] \in Txn
      BY <1>1, <2>1, EvaluatorAssumption DEF Txn, Entry
    <2> QED  BY <1>6, <2>1, <2>2 DEF LockRow, Stage
  <1>7. ASSUME NEW w \in Workers, Evaluate(w) PROVE TypeOK'
    <2> DEFINE t == txn[w]
               old == Reentered(t.row, t.entry.flag).state
               new == EvaluatedRow(t.row, t.entry.status, t.entry.flag)
               ev == IF new.state = old THEN NoEvent
                     ELSE [old |-> old, new |-> new.state,
                           suppressed |-> SuppressedByParent(Dev(w), new.state),
                           ended |-> FALSE]
    <2>1. /\ t \in Txn /\ t.row \in Row /\ t.entry.status \in CheckStatus
          /\ t.entry.flag \in BOOLEAN
      BY DEF Txn, Entry
    <2>2. new \in Row /\ old \in DeviceState /\ new.state \in DeviceState
      BY <2>1, EvaluatedRowType, ReenteredRow DEF Row
    <2>3. SuppressedByParent(Dev(w), new.state) \in BOOLEAN
      BY DEF SuppressedByParent
    <2>4. txn' = [txn EXCEPT ![w] = [t EXCEPT !.row = new, !.event = ev]]
      BY <1>7 DEF Evaluate
    <2> HIDE DEF t, old, new
    <2>5. ev \in Event
      BY <1>1, <2>2, <2>3 DEF Event
    <2> HIDE DEF ev
    <2>6. [t EXCEPT !.row = new, !.event = ev] \in Txn
      BY <2>1, <2>2, <2>5 DEF Txn
    <2>7. txn' \in [Workers -> Txn]
      BY <2>4, <2>6
    <2> QED  BY <1>7, <2>7 DEF Evaluate, Stage
  <1>8. ASSUME NEW w \in Workers, Commit(w) PROVE TypeOK'
    <2> DEFINE d == Dev(w)
               t == txn[w]
    <2>1. d \in Devices /\ t.row \in Row /\ t.entry \in Entry /\ t.event \in Event
      BY <1>8 DEF Commit, LockDiscipline, Dev, Job, Txn
    <2>2. row' \in [Devices -> Row] /\ rowLock' \in [Devices -> Workers \cup {NoWorker}]
      BY <1>8, <2>1 DEF Commit
    <2>3. results' \in [Devices -> Seq(Entry)]
      BY <1>8, <2>1 DEF Commit
    <2>4. EventsWith(events[d], t.event) \in Seq(Event)
      BY <2>1, EventsWithType
    <2>5. events' \in [Devices -> Seq(Event)]
      BY <1>8, <2>1, <2>4 DEF Commit
    <2>6. pc' \in [Workers -> Stage] /\ job' \in [Workers -> Job \cup {NoJob}]
      BY <1>8 DEF Commit, Stage
    <2>7. \A n \in Nat : [NoTxn EXCEPT !.id = n] \in Txn
      BY <1>1 DEF Txn
    <2>8. Len(events'[d]) \in Nat
      BY <2>1, <2>5
    <2>9. txn' \in [Workers -> Txn]
      BY <1>1, <1>8, <2>7, <2>8 DEF Commit
    <2> QED  BY <1>8, <2>2, <2>3, <2>5, <2>6, <2>9 DEF Commit
  <1>9. ASSUME NEW w \in Workers, HandleTransition(w) PROVE TypeOK'
    <2>1. txn[w].id \in Nat
      BY DEF Txn
    <2>2. handed' \in [Devices -> SUBSET Nat]
      BY <1>9, <2>1 DEF HandleTransition
    <2> QED  BY <1>1, <1>9, <2>2 DEF HandleTransition, Stage
  <1>10. ASSUME NEW w \in Workers, Crash(w) PROVE TypeOK'
    BY <1>1, <1>10 DEF Crash, Stage
  <1>11. CASE UNCHANGED vars
    BY <1>11 DEF vars
  <1> QED
    BY <1>2, <1>3, <1>4, <1>5, <1>6, <1>7, <1>8, <1>9, <1>10, <1>11
       DEF Next, Environment, WorkerStep, TakeSomeJob, LockWithOutcome

\* A worker holds the lock of one device; two workers never hold the same.
LEMMA LockStep == IInv /\ [Next]_vars => LockDiscipline'
  <1> SUFFICES ASSUME IInv, [Next]_vars PROVE LockDiscipline'
    OBVIOUS
  <1> USE EvaluatorAssumption DEF TypeOK, IInv, LockDiscipline, Holds, Dev
  <1>1. ASSUME NEW d \in Devices, EnqueueDueCheck(d) PROVE LockDiscipline'
    BY <1>1 DEF EnqueueDueCheck
  <1>2. ASSUME NEW d \in Devices, ChangeWindow(d) PROVE LockDiscipline'
    BY <1>2 DEF ChangeWindow
  <1>3. ASSUME NEW d \in Devices, NEW a \in BOOLEAN, SetActive(d, a)
        PROVE  LockDiscipline'
    BY <1>3 DEF SetActive
  <1>4. ASSUME NEW w \in Workers, NEW j \in Job, TakeJob(w, j)
        PROVE  LockDiscipline'
    <2>1. CASE row[j.device].active
      <3>1. \A v \in Workers : v # w => pc'[v] = pc[v] /\ job'[v] = job[v]
        BY <1>4, <2>1 DEF TakeJob
      <3>2. pc'[w] = "checking" /\ job'[w] = j /\ pc[w] = "idle"
        BY <1>4, <2>1 DEF TakeJob
      <3>3. \A v \in Workers : pc'[v] # "idle" => job'[v] \in Job
        BY <3>1, <3>2
      <3>4. ASSUME NEW v \in Workers, NEW d \in Devices
            PROVE  Holds(v, d)' <=> rowLock'[d] = v
        <4>1. rowLock' = rowLock
          BY <1>4 DEF TakeJob
        <4>2. CASE v = w
          BY <3>2, <4>1, <4>2
        <4>3. CASE v # w
          BY <3>1, <4>1, <4>3
        <4> QED  BY <4>2, <4>3
      <3> QED  BY <3>3, <3>4
    <2>2. CASE ~row[j.device].active
      BY <1>4, <2>2 DEF TakeJob
    <2> QED  BY <2>1, <2>2
  <1>5. ASSUME NEW w \in Workers, NEW o \in Outcomes, LockRow(w, o)
        PROVE  LockDiscipline'
    BY <1>5 DEF LockRow, Job
  <1>6. ASSUME NEW w \in Workers, Evaluate(w) PROVE LockDiscipline'
    BY <1>6 DEF Evaluate
  <1>7. ASSUME NEW w \in Workers, Commit(w) PROVE LockDiscipline'
    <2>1. /\ \A v \in Workers : v # w => pc'[v] = pc[v] /\ job'[v] = job[v]
          /\ pc[w] = "evaluated" /\ job[w] \in Job /\ job[w].device \in Devices
          /\ rowLock' = [rowLock EXCEPT ![job[w].device] = NoWorker]
      BY <1>7 DEF Commit, Job
    <2>2. \/ pc'[w] = "committed" /\ job'[w] = job[w]
          \/ pc'[w] = "idle"
      BY <1>7 DEF Commit
    <2>3. \A v \in Workers : pc'[v] # "idle" => job'[v] \in Job
      BY <2>1, <2>2
    <2>4. ASSUME NEW v \in Workers, NEW d \in Devices
          PROVE  Holds(v, d)' <=> rowLock'[d] = v
      <3>1. CASE v = w
        BY <2>1, <2>2, <3>1
      <3>2. CASE v # w
        BY <2>1, <3>2
      <3> QED  BY <3>1, <3>2
    <2> QED  BY <2>3, <2>4
  <1>8. ASSUME NEW w \in Workers, HandleTransition(w) PROVE LockDiscipline'
    BY <1>8 DEF HandleTransition
  <1>9. ASSUME NEW w \in Workers, Crash(w) PROVE LockDiscipline'
    BY <1>9 DEF Crash
  <1>10. CASE UNCHANGED vars
    BY <1>10 DEF vars
  <1> QED
    BY <1>1, <1>2, <1>3, <1>4, <1>5, <1>6, <1>7, <1>8, <1>9, <1>10
       DEF Next, Environment, WorkerStep, TakeSomeJob, LockWithOutcome

\* Nobody writes a row that is locked, so what was read under a lock stays.
LEMMA FreshStep == IInv /\ [Next]_vars => TxnIsFresh'
  <1> SUFFICES ASSUME IInv, [Next]_vars, NEW v \in Workers
               PROVE  /\ pc'[v] = "locked" => txn'[v].row = row'[job'[v].device]
                      /\ pc'[v] = "evaluated" =>
                           txn'[v].row =
                             EvaluatedRow(row'[job'[v].device],
                                          txn'[v].entry.status, txn'[v].entry.flag)
    BY DEF TxnIsFresh, Dev
  <1> USE EvaluatorAssumption DEF TypeOK, IInv, LockDiscipline, Holds, Dev,
                                  TxnIsFresh, database, broker
  <1>1. ASSUME NEW d \in Devices, EnqueueDueCheck(d) \/ ChangeWindow(d)
        PROVE  UNCHANGED <<row, pc, job, txn>>
    BY <1>1 DEF EnqueueDueCheck, ChangeWindow
  <1>2. ASSUME NEW d \in Devices, NEW a \in BOOLEAN, SetActive(d, a)
        PROVE  /\ UNCHANGED <<pc, job, txn>>
               /\ pc[v] \in {"locked", "evaluated"} => row'[Dev(v)] = row[Dev(v)]
    BY <1>2 DEF SetActive, Job
  <1>3. ASSUME NEW w \in Workers, NEW j \in Job, TakeJob(w, j)
        PROVE  /\ UNCHANGED <<row, txn>>
               /\ pc'[v] \in {"locked", "evaluated"} => pc'[v] = pc[v] /\ job'[v] = job[v]
    BY <1>3 DEF TakeJob
  <1>4. ASSUME NEW w \in Workers, NEW o \in Outcomes, LockRow(w, o)
        PROVE  /\ UNCHANGED <<row, job>>
               /\ IF v = w
                  THEN pc'[v] = "locked" /\ txn'[v].row = row[Dev(v)]
                  ELSE pc'[v] = pc[v] /\ txn'[v] = txn[v]
    BY <1>4 DEF LockRow
  <1>5. ASSUME NEW w \in Workers, Evaluate(w)
        PROVE  /\ UNCHANGED <<row, job>>
               /\ IF v = w
                  THEN /\ pc'[v] = "evaluated"
                       /\ txn'[v].entry = txn[v].entry
                       /\ txn'[v].row = EvaluatedRow(row[Dev(v)], txn[v].entry.status,
                                                     txn[v].entry.flag)
                  ELSE pc'[v] = pc[v] /\ txn'[v] = txn[v]
    <2>1. txn[w] \in Txn
      OBVIOUS
    <2> QED  BY <1>5, <2>1 DEF Evaluate, Txn
  <1>6. ASSUME NEW w \in Workers, Commit(w)
        PROVE  pc'[v] \in {"locked", "evaluated"} =>
                  /\ pc'[v] = pc[v] /\ job'[v] = job[v] /\ txn'[v] = txn[v]
                  /\ row'[Dev(v)] = row[Dev(v)]
    <2>1. pc'[w] \notin {"locked", "evaluated"}
      BY <1>6 DEF Commit
    <2>2. v # w => pc'[v] = pc[v] /\ job'[v] = job[v] /\ txn'[v] = txn[v]
      BY <1>6 DEF Commit
    <2>3. ASSUME v # w, pc[v] \in {"locked", "evaluated"}
          PROVE  Dev(v) # Dev(w) /\ Dev(v) \in Devices
      BY <1>6, <2>3 DEF Commit, Job
    <2>4. Dev(w) \in Devices /\ row' = [row EXCEPT ![Dev(w)] = txn[w].row]
      BY <1>6 DEF Commit, Job
    <2> QED  BY <2>1, <2>2, <2>3, <2>4
  <1>7. ASSUME NEW w \in Workers, HandleTransition(w) \/ Crash(w)
        PROVE  /\ UNCHANGED row
               /\ pc'[v] \in {"locked", "evaluated"} =>
                    pc'[v] = pc[v] /\ job'[v] = job[v] /\ txn'[v] = txn[v]
    BY <1>7 DEF HandleTransition, Crash
  <1>8. CASE UNCHANGED vars
    BY <1>8 DEF vars
  <1> QED
    BY <1>1, <1>2, <1>3, <1>4, <1>5, <1>6, <1>7, <1>8
       DEF Next, Environment, WorkerStep, TakeSomeJob, LockWithOutcome

\* active plays no part in the agreement of a row with its history.
LEMMA ActiveIsIndependent ==
    ASSUME NEW r \in Row, NEW h, NEW a, Agrees(r, h)
    PROVE  Agrees([r EXCEPT !.active = a], h)
  BY DEF Agrees, Row

\* A commit enters one result and applies evaluate() to the committed row.
LEMMA CommitRecords ==
    ASSUME IInv, NEW w \in Workers, Commit(w)
    PROVE  LET d == Dev(w)
               e == txn[w].entry
           IN  /\ d \in Devices /\ e \in Entry
               /\ row' = [row EXCEPT ![d] = EvaluatedRow(row[d], e.status, e.flag)]
               /\ results' = [results EXCEPT ![d] = Append(results[d], e)]
               /\ Agrees(row'[d], results'[d])
  <1> DEFINE d == Dev(w)
             e == txn[w].entry
  <1>1. d \in Devices /\ e \in Entry
    BY DEF IInv, TypeOK, LockDiscipline, Commit, Dev, Job, Txn
  <1>2. /\ row' = [row EXCEPT ![d] = EvaluatedRow(row[d], e.status, e.flag)]
        /\ results' = [results EXCEPT ![d] = Append(results[d], e)]
    BY DEF IInv, TxnIsFresh, Commit
  <1>3. row[d] \in Row /\ results[d] \in Seq(Entry) /\ Agrees(row[d], results[d])
    BY <1>1 DEF IInv, TypeOK, RowsAgree
  <1>4. Agrees(EvaluatedRow(row[d], e.status, e.flag), Append(results[d], e))
    BY <1>1, <1>3, EvaluateAgrees
  <1>5. /\ row'[d] = EvaluatedRow(row[d], e.status, e.flag)
        /\ results'[d] = Append(results[d], e)
    BY <1>1, <1>2 DEF IInv, TypeOK
  <1> QED  BY <1>1, <1>2, <1>4, <1>5

LEMMA AgreeStep == IInv /\ [Next]_vars => RowsAgree'
  <1> SUFFICES ASSUME IInv, [Next]_vars PROVE RowsAgree'
    OBVIOUS
  <1>1. ASSUME UNCHANGED <<row, results>> PROVE RowsAgree'
    BY <1>1 DEF IInv, RowsAgree
  <1>2. ASSUME NEW d \in Devices, NEW a \in BOOLEAN, SetActive(d, a)
        PROVE  RowsAgree'
    BY <1>2, ActiveIsIndependent DEF IInv, TypeOK, RowsAgree, SetActive
  <1>3. ASSUME NEW w \in Workers, Commit(w) PROVE RowsAgree'
    BY <1>3, CommitRecords DEF IInv, TypeOK, RowsAgree
  <1>4. ASSUME NEW d \in Devices, EnqueueDueCheck(d) \/ ChangeWindow(d)
        PROVE  UNCHANGED <<row, results>>
    BY <1>4 DEF EnqueueDueCheck, ChangeWindow, database
  <1>5. ASSUME NEW w \in Workers,
               \/ TakeSomeJob(w)
               \/ LockWithOutcome(w)
               \/ Evaluate(w)
               \/ HandleTransition(w)
               \/ Crash(w)
        PROVE  UNCHANGED <<row, results>>
    BY <1>5 DEF TakeSomeJob, TakeJob, LockWithOutcome, LockRow, Evaluate,
                HandleTransition, Crash, database
  <1>6. UNCHANGED vars => UNCHANGED <<row, results>>
    BY DEF vars
  <1> QED
    BY <1>1, <1>2, <1>3, <1>4, <1>5, <1>6 DEF Next, Environment, WorkerStep

-----------------------------------------------------------------------------
LEMMA Invariance == Spec => []IInv
  <1>1. IInv /\ [Next]_vars => IInv'
    BY TypeStep, LockStep, FreshStep, AgreeStep DEF IInv
  <1> QED  BY InitIInv, <1>1, PTL DEF Spec

\* The tables, the broker and the workers' local state stay well-typed.
THEOREM TypeCorrect == Spec => []TypeOK
  <1>1. IInv => TypeOK
    BY DEF IInv
  <1> QED  BY Invariance, <1>1, PTL

\* The persisted counters are the runs of results that end the history: no
\* result is lost or counted twice, whatever the workers do to each other.
THEOREM CountersCorrect == Spec => []CountersMatchResults
  <1>1. IInv => CountersMatchResults
    BY DEF IInv, RowsAgree, Agrees, CountersMatchResults
  <1> QED  BY Invariance, <1>1, PTL

\* The row lock is exclusive, and is held exactly from the FOR UPDATE read to
\* the commit: no end of a check leaves a row locked.
THEOREM LocksCorrect == Spec => []LockDiscipline
  <1>1. IInv => LockDiscipline
    BY DEF IInv
  <1> QED  BY Invariance, <1>1, PTL

-----------------------------------------------------------------------------
(***************************************************************************)
(* Refinement: the workers, with their locks, counters and crashes,        *)
(* implement the ledger, in which a result is entered and judged at once.  *)
(***************************************************************************)
LEMMA PromiseVerdict == ASSUME NEW h PROVE Promise!Verdict(h) = Verdict(h)
  BY DEF Promise!Verdict, Promise!UnderMaintenance, Promise!InOutage,
         Promise!OutageBegins, Promise!Recovered, Promise!LooksUp,
         Promise!LooksDegraded, Promise!LastSoft, Promise!IsFail,
         Promise!IsOk, Promise!HardFail,
         Verdict, UnderMaintenance, InOutage, OutageBegins, Recovered, LooksUp,
         LooksDegraded, LastSoft, IsFail, IsOk, HardFail

shown == [d \in Devices |-> row[d].state]

LEMMA RefinementInit == Init => Promise!LedgerInit
  BY DEF Init, NewDevice, Promise!LedgerInit

LEMMA RefinementStep ==
    IInv /\ [Next]_vars => [Promise!LedgerNext]_<<results, shown>>
  <1> SUFFICES ASSUME IInv, [Next]_vars
               PROVE  Promise!LedgerNext \/ UNCHANGED <<results, shown>>
    OBVIOUS
  <1>1. ASSUME NEW w \in Workers, Commit(w) PROVE Promise!LedgerNext
    <2>1. PICK d \in Devices, e \in Entry :
             /\ row' = [row EXCEPT ![d] = EvaluatedRow(row[d], e.status, e.flag)]
             /\ results' = [results EXCEPT ![d] = Append(results[d], e)]
             /\ Agrees(row'[d], results'[d])
      BY <1>1, CommitRecords
    <2>2. row'[d].state = Promise!Verdict(results'[d])
      BY <2>1, PromiseVerdict DEF Agrees
    <2>3. shown' = [shown EXCEPT ![d] = Promise!Verdict(results'[d])]
      BY <2>1, <2>2 DEF shown, IInv, TypeOK
    <2>4. e \in Promise!Entry
      BY <2>1 DEF Entry, CheckStatus, Promise!Entry, Promise!CheckStatus
    <2>5. Promise!Record(d, e)
      BY <2>1, <2>3 DEF Promise!Record, shown
    <2> QED  BY <2>4, <2>5 DEF Promise!LedgerNext
  <1>2. ASSUME NEW d \in Devices, NEW a \in BOOLEAN, SetActive(d, a)
        PROVE  UNCHANGED <<results, shown>>
    BY <1>2 DEF SetActive, shown, IInv, TypeOK, Row
  <1>3. ASSUME NEW d \in Devices, EnqueueDueCheck(d) \/ ChangeWindow(d)
        PROVE  UNCHANGED <<results, shown>>
    BY <1>3 DEF EnqueueDueCheck, ChangeWindow, database, shown
  <1>4. ASSUME NEW w \in Workers,
               \/ TakeSomeJob(w)
               \/ LockWithOutcome(w)
               \/ Evaluate(w)
               \/ HandleTransition(w)
               \/ Crash(w)
        PROVE  UNCHANGED <<results, shown>>
    BY <1>4 DEF TakeSomeJob, TakeJob, LockWithOutcome, LockRow, Evaluate,
                HandleTransition, Crash, database, shown
  <1>5. UNCHANGED vars => UNCHANGED <<results, shown>>
    BY DEF vars, shown
  <1> QED
    BY <1>1, <1>2, <1>3, <1>4, <1>5 DEF Next, Environment, WorkerStep

\* The state of every device is a function of its check results alone.
THEOREM Refinement == Spec => StateFollowsResults
  <1>1. IInv /\ [Next]_vars => [Promise!LedgerNext]_<<results, shown>>
    BY RefinementStep
  <1> QED
    BY RefinementInit, <1>1, Invariance, PTL
       DEF Spec, StateFollowsResults, Promise!LedgerSpec, shown

-----------------------------------------------------------------------------
(***************************************************************************)
(* The argument for the events: the lock makes the event that a worker is  *)
(* about to commit start from the state the row shows, so that the chain   *)
(* of events ends in that state; hence the outage an event ends is the     *)
(* last event, and a parent that is DOWN has a DOWN event; and every event *)
(* the alert engine has not seen is with the worker that committed it, or  *)
(* its worker died.                                                        *)
(***************************************************************************)

\* The state after the first i events of d.
After(d, i) == IF i = 0 THEN "UNKNOWN" ELSE events[d][i].new

Chain(d) ==
    /\ \A i \in DOMAIN events[d] : Follows(After(d, i - 1), events[d][i].old)
    /\ Follows(After(d, Len(events[d])), row[d].state)

Outages(d) ==
    \A i \in DOMAIN events[d] :
        events[d][i].new = "DOWN" =>
            (events[d][i].ended <=> i < Len(events[d]) /\ EndsOutage(events[d][i + 1]))

HasDown(d) == d \in Devices /\ \E k \in DOMAIN events[d] : events[d][k].new = "DOWN"

Suppressions(d) == \A i \in DOMAIN events[d] : events[d][i].suppressed => HasDown(Parent[d])

\* The state from which a result moves a device, given the state of its row.
From(state, flag) == IF state = "MAINTENANCE" /\ ~flag THEN "UNKNOWN" ELSE state

\* What a worker is about to commit starts from the state of the row.
Judged(w) ==
    pc[w] = "evaluated" =>
        LET old == From(row[Dev(w)].state, txn[w].entry.flag)
        IN  IF IsTransition(txn[w].event)
            THEN /\ txn[w].event.old = old /\ txn[w].event.new = txn[w].row.state
                 /\ ~txn[w].event.ended
                 /\ txn[w].event.suppressed => HasDown(Parent[Dev(w)])
            ELSE txn[w].row.state = old

ChainInv ==
    /\ IInv
    /\ \A w \in Workers : Judged(w)
    /\ \A d \in Devices : Chain(d) /\ Outages(d) /\ Suppressions(d)

\* Each worker has an event of its own in hand that was not handed over yet.
InHandInv ==
    /\ \A d \in Devices : handed[d] \subseteq DOMAIN events[d]
    /\ \A w \in Workers : pc[w] = "committed" =>
         txn[w].id \in (DOMAIN events[Dev(w)]) \ handed[Dev(w)]
    /\ \A v, w \in Workers : v # w /\ pc[v] = "committed" /\ pc[w] = "committed" =>
         <<Dev(v), txn[v].id>> # <<Dev(w), txn[w].id>>

Unseen == Unhanded \ InHand

UnseenInv == IsFiniteSet(Unseen) /\ Cardinality(Unseen) <= crashes

-----------------------------------------------------------------------------
\* The last DOWN event is the last event, if that is a DOWN event.
LEMMA LastDownIsLast ==
    ASSUME NEW es \in Seq(Event), NEW n \in Nat \ {0}, n = Len(es), es[n].new = "DOWN"
    PROVE  LastDown(es) = n
  <1>1. n \in DOMAIN es /\ \A k \in (n + 1) .. n : FALSE
    OBVIOUS
  <1>2. ASSUME NEW i \in DOMAIN es, \A k \in (i + 1) .. n : es[k].new # "DOWN" PROVE i = n
    <2>1. i \in 1 .. n
      OBVIOUS
    <2>2. n \notin (i + 1) .. n
      BY <1>2
    <2> QED  BY <2>1, <2>2
  <1> QED  BY <1>1, <1>2 DEF LastDown

\* Entering an event leaves the n earlier ones as they are, but for the end
\* of the outage that it ends.
Entered(es, new, e, n) ==
    /\ n \in Nat /\ n = Len(es) /\ DOMAIN es = 1 .. n
    /\ DOMAIN new = 1 .. n + 1 /\ Len(new) = n + 1 /\ new[n + 1] = e
    /\ \A i \in 1 .. n : /\ new[i].new = es[i].new /\ new[i].old = es[i].old
                         /\ new[i].suppressed = es[i].suppressed
    /\ ~EndsOutage(e) => \A i \in 1 .. n : new[i].ended = es[i].ended
    /\ EndsOutage(e) /\ n # 0 /\ es[n].new = "DOWN" =>
         \A i \in 1 .. n : new[i].ended <=> i = n \/ es[i].ended

LEMMA EventsWithEffect ==
    ASSUME NEW es \in Seq(Event), NEW e \in Event, NEW n, n = Len(es),
           NEW new, new = EventsWith(es, e)
    PROVE  Entered(es, new, e, n)
  <1> USE DEF Entered
  <1>1. n \in Nat /\ DOMAIN es = 1 .. n /\ es \in [1 .. n -> Event]
    OBVIOUS
  <1>2. ASSUME new = Append(es, e)
        PROVE  /\ DOMAIN new = 1 .. n + 1 /\ Len(new) = n + 1 /\ new[n + 1] = e
               /\ \A i \in 1 .. n : new[i] = es[i]
    BY <1>2
  <1>3. ASSUME NEW k, NEW x, x = [es EXCEPT ![k].ended = TRUE], new = Append(x, e)
        PROVE  /\ DOMAIN new = 1 .. n + 1 /\ Len(new) = n + 1 /\ new[n + 1] = e
               /\ \A i \in 1 .. n :
                    /\ new[i].new = es[i].new /\ new[i].old = es[i].old
                    /\ new[i].suppressed = es[i].suppressed
                    /\ k \in 1 .. n => (new[i].ended <=> i = k \/ es[i].ended)
    <2>1. \A i \in 1 .. n :
            /\ x[i].new = es[i].new /\ x[i].old = es[i].old
            /\ x[i].suppressed = es[i].suppressed
            /\ x[i] \in Event
            /\ x[i].ended <=> i = k \/ es[i].ended
      BY <1>1, <1>3 DEF Event
    <2>2. DOMAIN x = 1 .. n
      BY <1>1, <1>3
    <2>3. x \in [1 .. n -> Event]
      BY <1>1, <1>3, <2>1, <2>2
    <2>4. x \in Seq(Event) /\ Len(x) = n
      BY <1>1, <2>3
    <2>5. DOMAIN new = 1 .. n + 1 /\ Len(new) = n + 1 /\ new[n + 1] = e
          /\ \A i \in 1 .. n : new[i] = x[i]
      BY <1>3, <2>4
    <2> QED  BY <2>1, <2>5
  <1>4. CASE EndsOutage(e) /\ \E i \in DOMAIN es : es[i].new = "DOWN"
    <2>1. new = Append([es EXCEPT ![LastDown(es)].ended = TRUE], e)
      BY <1>4 DEF EventsWith
    <2>2. n # 0 /\ es[n].new = "DOWN" => LastDown(es) = n /\ n \in 1 .. n
      BY <1>1, LastDownIsLast
    <2> QED  BY <1>1, <1>3, <1>4, <2>1, <2>2
  <1>5. CASE ~(EndsOutage(e) /\ \E i \in DOMAIN es : es[i].new = "DOWN")
    <2>1. new = Append(es, e)
      BY <1>5 DEF EventsWith
    <2>2. n # 0 => n \in DOMAIN es
      BY <1>1
    <2> QED  BY <1>1, <1>2, <1>5, <2>1, <2>2
  <1> QED  BY <1>4, <1>5

-----------------------------------------------------------------------------
LEMMA FromReentered ==
    ASSUME NEW r \in Row, NEW f \in BOOLEAN
    PROVE  Reentered(r, f).state = From(r.state, f)
  BY DEF Reentered, From, Row, DeviceState

LEMMA FollowsFrom ==
    ASSUME NEW x, NEW s, NEW f, Follows(x, s)
    PROVE  Follows(x, From(s, f))
  BY DEF Follows, From

\* What a commit that enters event e as number n + 1 of device d changes.
Records(w, d, n, e) ==
    /\ pc[w] = "evaluated" /\ Dev(w) = d /\ d \in Devices /\ n \in Nat /\ e \in Event
    /\ IsTransition(e) /\ ~e.ended /\ Follows(After(d, n), e.old)
    /\ e.suppressed => HasDown(Parent[d])
    /\ \A x \in Devices \ {d} : events'[x] = events[x] /\ row'[x] = row[x]
    /\ row'[d].state = e.new
    /\ Entered(events[d], events'[d], e, n)
    /\ EndsOutage(e) => n # 0 /\ events[d][n].new = "DOWN"
    /\ \A v \in Workers \ {w} : pc'[v] = pc[v] /\ job'[v] = job[v] /\ txn'[v] = txn[v]
    /\ pc'[w] = "committed" /\ job'[w] = job[w] /\ txn'[w].id = n + 1
    /\ handed' = handed /\ crashes' = crashes

\* What a commit without an event changes: the silent restart at most.
Silent(w, d) ==
    /\ pc[w] = "evaluated" /\ Dev(w) = d /\ d \in Devices
    /\ events' = events /\ handed' = handed /\ crashes' = crashes
    /\ \A x \in Devices \ {d} : row'[x] = row[x]
    /\ \A x : Follows(x, row[d].state) => Follows(x, row'[d].state)
    /\ \A v \in Workers \ {w} : pc'[v] = pc[v] /\ job'[v] = job[v] /\ txn'[v] = txn[v]
    /\ pc'[w] = "idle"

LEMMA CommitEffect ==
    ASSUME ChainInv, NEW w \in Workers, Commit(w)
    PROVE  \E d, n, e : Silent(w, d) \/ Records(w, d, n, e)
  <1> USE EvaluatorAssumption
  <1>1. PICK d : d = Dev(w)
    OBVIOUS
  <1>2. PICK n : n = Len(events[d])
    OBVIOUS
  <1>3. PICK e : e = txn[w].event
    OBVIOUS
  <1>4. PICK f : f = txn[w].entry.flag
    OBVIOUS
  <1>5. /\ d \in Devices /\ n \in Nat /\ e \in Event /\ events[d] \in Seq(Event)
        /\ pc[w] = "evaluated" /\ txn[w].row \in Row
    BY <1>1, <1>2, <1>3 DEF ChainInv, IInv, TypeOK, LockDiscipline, Commit, Dev, Job, Txn
  <1>6. /\ handed' = handed /\ crashes' = crashes
        /\ row' = [row EXCEPT ![d] = txn[w].row]
        /\ \A v \in Workers \ {w} : pc'[v] = pc[v] /\ job'[v] = job[v] /\ txn'[v] = txn[v]
    BY <1>1 DEF ChainInv, IInv, TypeOK, Commit, broker
  <1>7. row'[d] = txn[w].row /\ \A x \in Devices \ {d} : row'[x] = row[x]
    BY <1>5, <1>6 DEF ChainInv, IInv, TypeOK
  <1>8. Follows(After(d, n), row[d].state)
    BY <1>2, <1>5 DEF ChainInv, Chain
  <1>9. Judged(w)
    BY DEF ChainInv
  <1>10. CASE ~IsTransition(e)
    <2>1. events' = events /\ pc'[w] = "idle"
      BY <1>3, <1>5, <1>10 DEF Commit, ChainInv, IInv, TypeOK
    <2>2. row'[d].state = From(row[d].state, f)
      BY <1>1, <1>3, <1>4, <1>5, <1>7, <1>9, <1>10 DEF Judged
    <2>3. \A x : Follows(x, row[d].state) => Follows(x, row'[d].state)
      BY <2>2, FollowsFrom
    <2>4. Silent(w, d)
      BY <1>1, <1>5, <1>6, <1>7, <2>1, <2>3 DEF Silent
    <2> QED  BY <2>4
  <1>11. CASE IsTransition(e)
    <2>1. /\ events' = [events EXCEPT ![d] = EventsWith(events[d], e)]
          /\ pc'[w] = "committed" /\ job'[w] = job[w]
      BY <1>1, <1>3, <1>5, <1>11 DEF Commit, ChainInv, IInv, TypeOK
    <2>2. /\ events'[d] = EventsWith(events[d], e)
          /\ \A x \in Devices \ {d} : events'[x] = events[x]
      BY <1>5, <2>1 DEF ChainInv, IInv, TypeOK
    <2>3. txn'[w].id = Len(events'[d])
      <3>1. NoTxn.id = 0 /\ [NoTxn EXCEPT !.id = Len(events'[d])].id = Len(events'[d])
        BY DEF NoTxn
      <3> QED  BY <1>1, <1>3, <1>11, <3>1 DEF Commit, ChainInv, IInv, TypeOK
    <2>4. /\ e.old = From(row[d].state, f) /\ e.new = txn[w].row.state /\ ~e.ended
          /\ e.suppressed => HasDown(Parent[d])
      BY <1>1, <1>3, <1>4, <1>5, <1>9, <1>11 DEF Judged
    <2>5. Follows(After(d, n), e.old)
      BY <1>8, <2>4, FollowsFrom
    <2>6. EndsOutage(e) => n # 0 /\ events[d][n].new = "DOWN"
      BY <2>5 DEF EndsOutage, Follows, After
    <2>7. Entered(events[d], events'[d], e, n)
      BY <1>2, <1>5, <2>2, EventsWithEffect
    <2>8. row'[d].state = e.new
      BY <1>7, <2>4
    <2>9. Records(w, d, n, e)
      <3>1. pc[w] = "evaluated" /\ Dev(w) = d /\ d \in Devices /\ n \in Nat /\ e \in Event
        BY <1>1, <1>5
      <3>2. /\ \A v \in Workers \ {w} : pc'[v] = pc[v] /\ job'[v] = job[v] /\ txn'[v] = txn[v]
            /\ pc'[w] = "committed" /\ job'[w] = job[w] /\ txn'[w].id = n + 1
            /\ handed' = handed /\ crashes' = crashes
        BY <1>6, <2>1, <2>3, <2>7 DEF Entered
      <3> QED
        BY <1>7, <1>11, <2>2, <2>4, <2>5, <2>6, <2>7, <2>8, <3>1, <3>2 DEF Records
    <2> QED  BY <2>9
  <1> QED  BY <1>10, <1>11

-----------------------------------------------------------------------------
\* The steps that are neither an evaluation nor a commit touch no event and
\* no state, and nobody touches the row of a device that a worker has locked.
LEMMA QuietSteps ==
    ASSUME ChainInv, [Next]_vars, \A w \in Workers : ~Evaluate(w) /\ ~Commit(w)
    PROVE  /\ events' = events
           /\ \A d \in Devices : row'[d].state = row[d].state
           /\ \A v \in Workers : pc'[v] = "evaluated" =>
                pc[v] = "evaluated" /\ job'[v] = job[v] /\ txn'[v] = txn[v]
  <1> USE EvaluatorAssumption DEF ChainInv, IInv, TypeOK, database, broker
  <1> DEFINE Quiet == /\ events' = events
                      /\ \A d \in Devices : row'[d].state = row[d].state
                      /\ \A v \in Workers : pc'[v] = "evaluated" =>
                           pc[v] = "evaluated" /\ job'[v] = job[v] /\ txn'[v] = txn[v]
  <1> SUFFICES Quiet
    OBVIOUS
  <1>1. ASSUME NEW d \in Devices, EnqueueDueCheck(d) \/ ChangeWindow(d) PROVE Quiet
    BY <1>1 DEF EnqueueDueCheck, ChangeWindow
  <1>2. ASSUME NEW d \in Devices, NEW a \in BOOLEAN, SetActive(d, a) PROVE Quiet
    BY <1>2 DEF SetActive, Row
  <1>3. ASSUME NEW w \in Workers, NEW j \in Job, TakeJob(w, j) PROVE Quiet
    BY <1>3 DEF TakeJob
  <1>4. ASSUME NEW w \in Workers, NEW o \in Outcomes, LockRow(w, o) PROVE Quiet
    BY <1>4 DEF LockRow
  <1>5. ASSUME NEW w \in Workers, HandleTransition(w) \/ Crash(w) PROVE Quiet
    BY <1>5 DEF HandleTransition, Crash
  <1>6. CASE UNCHANGED vars
    BY <1>6 DEF vars
  <1> HIDE DEF Quiet
  <1> QED
    BY <1>1, <1>2, <1>3, <1>4, <1>5, <1>6
       DEF Next, Environment, WorkerStep, TakeSomeJob, LockWithOutcome

\* A device that is DOWN has a DOWN event.
LEMMA DownOnRecord ==
    ASSUME ChainInv, NEW p \in Devices, row[p].state = "DOWN"
    PROVE  HasDown(p)
  <1>1. After(p, Len(events[p])) = "DOWN"
    BY DEF ChainInv, Chain, Follows
  <1>2. Len(events[p]) # 0 /\ events[p][Len(events[p])].new = "DOWN"
    BY <1>1 DEF After
  <1>3. Len(events[p]) \in DOMAIN events[p]
    BY <1>2 DEF ChainInv, IInv, TypeOK
  <1> QED  BY <1>2, <1>3 DEF HasDown

LEMMA EvaluateJudges ==
    ASSUME ChainInv, NEW w \in Workers, Evaluate(w)
    PROVE  /\ Judged(w)'
           /\ events' = events /\ row' = row /\ handed' = handed /\ crashes' = crashes
           /\ \A v \in Workers \ {w} : pc'[v] = pc[v] /\ job'[v] = job[v] /\ txn'[v] = txn[v]
           /\ pc[w] = "locked" /\ pc'[w] = "evaluated"
  <1>1. PICK d : d = Dev(w)
    OBVIOUS
  <1>2. PICK t : t = txn[w]
    OBVIOUS
  <1>3. PICK new : new = EvaluatedRow(t.row, t.entry.status, t.entry.flag)
    OBVIOUS
  <1>4. PICK old : old = From(row[d].state, t.entry.flag)
    OBVIOUS
  <1>5. /\ events' = events /\ row' = row /\ handed' = handed /\ crashes' = crashes /\ job' = job
        /\ \A v \in Workers \ {w} : pc'[v] = pc[v] /\ txn'[v] = txn[v]
        /\ pc[w] = "locked" /\ pc'[w] = "evaluated"
    BY DEF Evaluate, ChainInv, IInv, TypeOK, database, broker
  <1>6. /\ d \in Devices /\ t \in Txn /\ t.entry.flag \in BOOLEAN
        /\ t.row = row[d] /\ row[d] \in Row
    BY <1>1, <1>2, <1>5 DEF ChainInv, IInv, TypeOK, LockDiscipline, TxnIsFresh, Dev, Job, Txn, Entry
  <1>7. Reentered(t.row, t.entry.flag).state = old
    BY <1>4, <1>6, FromReentered
  <1>8. PICK ev : ev = IF new.state = old THEN NoEvent
                       ELSE [old |-> old, new |-> new.state,
                             suppressed |-> SuppressedByParent(d, new.state),
                             ended |-> FALSE]
    OBVIOUS
  <1>9. txn'[w] = [t EXCEPT !.row = new, !.event = ev]
    BY <1>1, <1>2, <1>3, <1>7, <1>8 DEF Evaluate, ChainInv, IInv, TypeOK
  <1>10. txn'[w].row = new /\ txn'[w].event = ev /\ txn'[w].entry = t.entry
    BY <1>6, <1>9 DEF Txn
  <1>11. ev.suppressed => HasDown(Parent[d])
    <2> SUFFICES ASSUME ev.suppressed PROVE HasDown(Parent[d])
      OBVIOUS
    <2>1. SuppressedByParent(d, new.state)
      BY <1>8 DEF NoEvent
    <2>2. Parent[d] \in Devices /\ row[Parent[d]].state = "DOWN"
      BY <1>6, <2>1, EvaluatorAssumption DEF SuppressedByParent
    <2> QED  BY <2>2, DownOnRecord
  <1>12. HasDown(Parent[d]) => HasDown(Parent[d])'
    BY <1>5 DEF HasDown
  <1>13. IF IsTransition(ev)
         THEN /\ ev.old = old /\ ev.new = new.state /\ ~ev.ended
              /\ ev.suppressed => HasDown(Parent[d])'
         ELSE new.state = old
    BY <1>8, <1>11, <1>12 DEF NoEvent, IsTransition
  <1>14. Dev(w)' = d /\ row'[d].state = row[d].state
    BY <1>1, <1>5 DEF Dev
  <1>15. Judged(w)'
    BY <1>4, <1>10, <1>13, <1>14 DEF Judged
  <1> QED  BY <1>5, <1>15

LEMMA HasDownKept ==
    ASSUME NEW w, NEW d, NEW n, NEW e, Records(w, d, n, e), NEW p, HasDown(p)
    PROVE  HasDown(p)'
  <1>1. PICK k : k \in DOMAIN events[p] /\ events[p][k].new = "DOWN"
    BY DEF HasDown
  <1>2. k \in DOMAIN events'[p] /\ events'[p][k].new = "DOWN"
    BY <1>1 DEF Records, Entered, HasDown
  <1> QED  BY <1>2 DEF HasDown

\* What another worker has judged is kept if its row, txn and job are.
LEMMA JudgedKept ==
    ASSUME NEW v, Judged(v), row'[Dev(v)].state = row[Dev(v)].state,
           pc'[v] = "evaluated" => pc[v] = "evaluated" /\ job'[v] = job[v] /\ txn'[v] = txn[v],
           HasDown(Parent[Dev(v)]) => HasDown(Parent[Dev(v)])'
    PROVE  Judged(v)'
  BY DEF Judged, Dev

LEMMA JudgedStep ==
    ASSUME ChainInv, [Next]_vars
    PROVE  \A v \in Workers : Judged(v)'
  <1> SUFFICES ASSUME NEW v \in Workers, pc'[v] = "evaluated" PROVE Judged(v)'
    BY DEF Judged
  <1>0. Judged(v) /\ (pc[v] = "evaluated" => Dev(v) \in Devices)
    BY DEF ChainInv, IInv, LockDiscipline, Dev, Job
  <1>1. CASE \A w \in Workers : ~Evaluate(w) /\ ~Commit(w)
    <2>1. /\ events' = events /\ pc[v] = "evaluated" /\ job'[v] = job[v] /\ txn'[v] = txn[v]
          /\ row'[Dev(v)].state = row[Dev(v)].state
      BY <1>0, <1>1, QuietSteps
    <2>2. HasDown(Parent[Dev(v)]) => HasDown(Parent[Dev(v)])'
      BY <2>1 DEF HasDown, Dev
    <2> QED  BY <1>0, <2>1, <2>2, JudgedKept
  <1>2. ASSUME NEW w \in Workers, Evaluate(w) PROVE Judged(v)'
    <2>1. CASE v = w
      BY <1>2, <2>1, EvaluateJudges
    <2>2. CASE v # w
      <3>1. /\ events' = events /\ row' = row
            /\ pc'[v] = pc[v] /\ job'[v] = job[v] /\ txn'[v] = txn[v]
        BY <1>2, <2>2, EvaluateJudges
      <3>2. HasDown(Parent[Dev(v)]) => HasDown(Parent[Dev(v)])'
        BY <3>1 DEF HasDown, Dev
      <3> QED  BY <1>0, <3>1, <3>2, JudgedKept
    <2> QED  BY <2>1, <2>2
  <1>3. ASSUME NEW w \in Workers, Commit(w) PROVE Judged(v)'
    <2>1. PICK d, n, e : Silent(w, d) \/ Records(w, d, n, e)
      BY <1>3, CommitEffect
    <2>2. pc'[w] # "evaluated" /\ pc[w] = "evaluated" /\ Dev(w) = d /\ d \in Devices
      BY <2>1 DEF Silent, Records
    <2>3. v # w /\ pc'[v] = pc[v] /\ job'[v] = job[v] /\ txn'[v] = txn[v]
      BY <2>1, <2>2 DEF Silent, Records
    <2>4. Dev(v) # d /\ Dev(v) \in Devices
      BY <1>0, <2>2, <2>3, EvaluatorAssumption DEF ChainInv, IInv, LockDiscipline, Holds
    <2>5. row'[Dev(v)] = row[Dev(v)]
      BY <2>1, <2>4 DEF Silent, Records
    <2>6. HasDown(Parent[Dev(v)]) => HasDown(Parent[Dev(v)])'
      <3>1. PICK p : p = Parent[Dev(v)]
        OBVIOUS
      <3>2. p = Parent[Dev(v)]'
        BY <2>3, <3>1 DEF Dev
      <3>3. CASE Silent(w, d)
        BY <3>1, <3>2, <3>3 DEF Silent, HasDown
      <3>4. CASE Records(w, d, n, e)
        BY <3>1, <3>2, <3>4, HasDownKept
      <3> QED  BY <2>1, <3>3, <3>4
    <2> QED  BY <1>0, <2>3, <2>5, <2>6, JudgedKept
  <1> QED  BY <1>1, <1>2, <1>3

LEMMA ChainKept ==
    ASSUME ChainInv, NEW d \in Devices, events'[d] = events[d],
           \A x : Follows(x, row[d].state) => Follows(x, row'[d].state),
           \A p : HasDown(p) => HasDown(p)'
    PROVE  Chain(d)' /\ Outages(d)' /\ Suppressions(d)'
  BY DEF ChainInv, Chain, Outages, Suppressions, After

\* The event that a commit enters lengthens the chain and closes the outage.
LEMMA ChainRecords ==
    ASSUME ChainInv, NEW w, NEW d, NEW n, NEW e, Records(w, d, n, e)
    PROVE  Chain(d)' /\ Outages(d)' /\ Suppressions(d)'
  <1> USE DEF Records
  <1>1. /\ n \in Nat /\ n = Len(events[d]) /\ DOMAIN events[d] = 1 .. n
        /\ DOMAIN events'[d] = 1 .. n + 1 /\ Len(events'[d]) = n + 1
        /\ events'[d][n + 1] = e
        /\ \A i \in 1 .. n : /\ events'[d][i].new = events[d][i].new
                             /\ events'[d][i].old = events[d][i].old
                             /\ events'[d][i].suppressed = events[d][i].suppressed
    BY DEF Entered
  <1>2. Chain(d)'
    <2>1. \A i \in 0 .. n : After(d, i)' = After(d, i)
      BY <1>1 DEF After
    <2>2. After(d, n + 1)' = e.new /\ Follows(e.new, row'[d].state)
      BY <1>1 DEF After, Follows
    <2>3. ASSUME NEW i \in 1 .. n + 1 PROVE Follows(After(d, i - 1)', events'[d][i].old)
      <3>1. i - 1 \in 0 .. n /\ (i = n + 1 \/ i \in 1 .. n)
        BY <1>1
      <3>2. CASE i = n + 1
        BY <1>1, <2>1, <3>1, <3>2
      <3>3. CASE i \in 1 .. n
        BY <1>1, <2>1, <3>1, <3>3 DEF ChainInv, Chain
      <3> QED  BY <3>1, <3>2, <3>3
    <2> QED  BY <1>1, <2>2, <2>3 DEF Chain, Follows
  <1>3. Outages(d)'
    <2> SUFFICES ASSUME NEW i \in 1 .. n + 1, events'[d][i].new = "DOWN"
                 PROVE  events'[d][i].ended <=> i < n + 1 /\ EndsOutage(events'[d][i + 1])
      BY <1>1 DEF Outages, EndsOutage
    <2>1. CASE i = n + 1
      BY <1>1, <2>1
    <2>2. CASE i \in 1 .. n /\ i # n
      <3>1. i < n /\ i + 1 \in 1 .. n /\ i < n + 1 /\ i \in DOMAIN events[d]
        BY <1>1, <2>2
      <3>2. events'[d][i].ended <=> events[d][i].ended
        BY <1>1, <2>2 DEF Entered
      <3>3. EndsOutage(events'[d][i + 1]) <=> EndsOutage(events[d][i + 1])
        BY <1>1, <3>1 DEF EndsOutage
      <3>4. events[d][i].ended <=> EndsOutage(events[d][i + 1])
        BY <1>1, <2>2, <3>1 DEF ChainInv, Outages
      <3> QED  BY <3>1, <3>2, <3>3, <3>4
    <2>3. CASE i = n /\ n # 0
      <3>1. n \in 1 .. n /\ n < n + 1 /\ ~(n < n)
        BY <1>1, <2>3
      <3>2. ~events[d][n].ended
        BY <1>1, <2>3, <3>1 DEF ChainInv, Outages
      <3>3. events'[d][n].ended <=> EndsOutage(e)
        BY <1>1, <3>1, <3>2 DEF Entered
      <3> QED  BY <1>1, <2>3, <3>1, <3>3
    <2> QED  BY <1>1, <2>1, <2>2, <2>3
  <1>4. Suppressions(d)'
    <2> SUFFICES ASSUME NEW i \in 1 .. n + 1, events'[d][i].suppressed PROVE HasDown(Parent[d])'
      BY <1>1 DEF Suppressions, HasDown
    <2>1. HasDown(Parent[d])
      BY <1>1 DEF ChainInv, Suppressions
    <2> QED  BY <2>1, HasDownKept
  <1> QED  BY <1>2, <1>3, <1>4

LEMMA ChainStep ==
    ASSUME ChainInv, [Next]_vars
    PROVE  ChainInv'
  <1>1. IInv'
    BY TypeStep, LockStep, FreshStep, AgreeStep DEF ChainInv, IInv
  <1>2. ASSUME NEW d \in Devices PROVE Chain(d)' /\ Outages(d)' /\ Suppressions(d)'
    <2>1. CASE /\ events' = events
               /\ \A x : Follows(x, row[d].state) => Follows(x, row'[d].state)
      <3>1. \A p : HasDown(p) => HasDown(p)'
        BY <2>1 DEF HasDown
      <3> QED  BY <2>1, <3>1, ChainKept
    <2>2. CASE \A w \in Workers : ~Evaluate(w) /\ ~Commit(w)
      BY <2>1, <2>2, QuietSteps
    <2>3. ASSUME NEW w \in Workers, Evaluate(w) PROVE events' = events /\ row' = row
      BY <2>3, EvaluateJudges
    <2>4. ASSUME NEW w \in Workers, Commit(w)
          PROVE  Chain(d)' /\ Outages(d)' /\ Suppressions(d)'
      <3>1. PICK c, n, e : Silent(w, c) \/ Records(w, c, n, e)
        BY <2>4, CommitEffect
      <3>2. CASE Silent(w, c)
        BY <2>1, <3>2 DEF Silent
      <3>3. CASE Records(w, c, n, e) /\ c = d
        BY <3>3, ChainRecords
      <3>4. CASE Records(w, c, n, e) /\ c # d
        <4>1. events'[d] = events[d] /\ row'[d] = row[d]
          BY <3>4 DEF Records
        <4>2. \A p : HasDown(p) => HasDown(p)'
          BY <3>4, HasDownKept
        <4> QED  BY <4>1, <4>2, ChainKept
      <3> QED  BY <3>1, <3>2, <3>3, <3>4
    <2> QED  BY <2>1, <2>2, <2>3, <2>4
  <1> QED  BY <1>1, <1>2, JudgedStep DEF ChainInv

-----------------------------------------------------------------------------
(***************************************************************************)
(* From the commit to the alert engine: what the steps do to the events    *)
(* that are in hand.                                                       *)
(***************************************************************************)
Idles(w) ==
    /\ events' = events /\ pc'[w] = "idle"
    /\ \A v \in Workers \ {w} : pc'[v] = pc[v] /\ job'[v] = job[v] /\ txn'[v] = txn[v]

Handles(w) ==
    /\ Idles(w) /\ pc[w] = "committed" /\ crashes' = crashes
    /\ handed' = [handed EXCEPT ![Dev(w)] = @ \cup {txn[w].id}]

Dies(w) == Idles(w) /\ handed' = handed /\ crashes' = crashes + 1

Neutral ==
    /\ events' = events /\ handed' = handed /\ crashes' = crashes
    /\ \A v \in Workers : (pc'[v] = "committed" <=> pc[v] = "committed")
    /\ \A v \in Workers : pc[v] = "committed" => job'[v] = job[v] /\ txn'[v] = txn[v]

LEMMA HandingSteps ==
    ASSUME ChainInv, [Next]_vars
    PROVE  \/ Neutral
           \/ \E w \in Workers : Handles(w)
           \/ \E w \in Workers : Dies(w)
           \/ \E w \in Workers : \E d, n, e : Records(w, d, n, e)
  <1> USE EvaluatorAssumption DEF ChainInv, IInv, TypeOK, database, broker
  <1>1. ASSUME NEW d \in Devices, EnqueueDueCheck(d) \/ ChangeWindow(d) PROVE Neutral
    BY <1>1 DEF EnqueueDueCheck, ChangeWindow, Neutral
  <1>2. ASSUME NEW d \in Devices, NEW a \in BOOLEAN, SetActive(d, a) PROVE Neutral
    BY <1>2 DEF SetActive, Neutral
  <1>3. ASSUME NEW w \in Workers, NEW j \in Job, TakeJob(w, j) PROVE Neutral
    BY <1>3 DEF TakeJob, Neutral
  <1>4. ASSUME NEW w \in Workers, NEW o \in Outcomes, LockRow(w, o) PROVE Neutral
    BY <1>4 DEF LockRow, Neutral
  <1>5. ASSUME NEW w \in Workers, Evaluate(w) PROVE Neutral
    BY <1>5 DEF Evaluate, Neutral
  <1>6. ASSUME NEW w \in Workers, HandleTransition(w) PROVE Handles(w)
    BY <1>6 DEF HandleTransition, Handles, Idles
  <1>7. ASSUME NEW w \in Workers, Crash(w) PROVE Dies(w)
    BY <1>7 DEF Crash, Dies, Idles
  <1>8. ASSUME NEW w \in Workers, Commit(w)
        PROVE  Neutral \/ \E d, n, e : Records(w, d, n, e)
    <2>1. PICK d, n, e : Silent(w, d) \/ Records(w, d, n, e)
      BY <1>8, CommitEffect
    <2>2. Silent(w, d) => Neutral
      BY DEF Silent, Neutral
    <2> QED  BY <2>1, <2>2
  <1>9. CASE UNCHANGED vars
    BY <1>9 DEF vars, Neutral
  <1> QED
    BY <1>1, <1>2, <1>3, <1>4, <1>5, <1>6, <1>7, <1>8, <1>9
       DEF Next, Environment, WorkerStep, TakeSomeJob, LockWithOutcome

LEMMA InHandStep ==
    ASSUME ChainInv, InHandInv, [Next]_vars
    PROVE  InHandInv'
  <1> USE DEF InHandInv
  <1>0. /\ \A w \in Workers : pc[w] = "committed" => Dev(w) \in Devices
        /\ handed \in [Devices -> SUBSET Nat]
    BY DEF ChainInv, IInv, TypeOK, LockDiscipline, Dev, Job
  <1>1. CASE Neutral
    BY <1>1 DEF Neutral, Dev
  <1>2. ASSUME NEW w \in Workers, Handles(w) PROVE InHandInv'
    <2>1. PICK c : c = Dev(w)
      OBVIOUS
    <2>2. PICK k : k = txn[w].id
      OBVIOUS
    <2>3. /\ c \in Devices /\ k \in DOMAIN events[c]
          /\ handed' = [handed EXCEPT ![c] = @ \cup {k}] /\ events' = events
          /\ pc'[w] = "idle" /\ pc[w] = "committed"
          /\ \A v \in Workers \ {w} : pc'[v] = pc[v] /\ job'[v] = job[v] /\ txn'[v] = txn[v]
      BY <1>0, <1>2, <2>1, <2>2 DEF Handles, Idles
    <2>4. /\ handed'[c] = handed[c] \cup {k}
          /\ \A d \in Devices \ {c} : handed'[d] = handed[d]
      BY <1>0, <2>3
    <2>5. \A d \in Devices : handed'[d] \subseteq DOMAIN events'[d]
      BY <2>3, <2>4
    <2>6. ASSUME NEW v \in Workers, pc'[v] = "committed"
          PROVE  /\ v # w /\ pc[v] = "committed" /\ Dev(v)' = Dev(v) /\ txn'[v].id = txn[v].id
                 /\ txn'[v].id \in (DOMAIN events'[Dev(v)']) \ handed'[Dev(v)']
      <3>1. /\ v # w /\ pc[v] = "committed" /\ job'[v] = job[v] /\ txn'[v] = txn[v]
            /\ Dev(v)' = Dev(v) /\ Dev(v) \in Devices
        BY <1>0, <2>3, <2>6 DEF Dev
      <3>2. <<Dev(v), txn[v].id>> # <<c, k>>
        BY <2>1, <2>2, <2>3, <3>1
      <3>3. txn[v].id \in (DOMAIN events[Dev(v)]) \ handed[Dev(v)]
        BY <3>1
      <3> QED  BY <2>3, <2>4, <3>1, <3>2, <3>3
    <2> QED  BY <2>5, <2>6
  <1>3. ASSUME NEW w \in Workers, Dies(w) PROVE InHandInv'
    BY <1>3 DEF Dies, Idles, Dev
  <1>4. ASSUME NEW w \in Workers, NEW c, NEW n, NEW e, Records(w, c, n, e) PROVE InHandInv'
    <2>1. /\ c \in Devices /\ n \in Nat /\ DOMAIN events[c] = 1 .. n
          /\ DOMAIN events'[c] = 1 .. n + 1
          /\ \A d \in Devices \ {c} : events'[d] = events[d]
          /\ handed' = handed /\ Dev(w)' = c /\ txn'[w].id = n + 1
          /\ \A v \in Workers \ {w} : pc'[v] = pc[v] /\ job'[v] = job[v] /\ txn'[v] = txn[v]
      BY <1>4 DEF Records, Entered, Dev
    <2>2. n + 1 \in DOMAIN events'[c] /\ n + 1 \notin DOMAIN events[c]
          /\ DOMAIN events[c] \subseteq DOMAIN events'[c]
      BY <2>1
    <2>3. \A d \in Devices : handed'[d] \subseteq DOMAIN events'[d]
      BY <2>1, <2>2
    <2>4. n + 1 \in (DOMAIN events'[c]) \ handed'[c]
      BY <2>1, <2>2
    <2>5. ASSUME NEW v \in Workers, v # w, pc'[v] = "committed"
          PROVE  /\ pc[v] = "committed" /\ Dev(v)' = Dev(v) /\ txn'[v].id = txn[v].id
                 /\ txn'[v].id \in (DOMAIN events'[Dev(v)']) \ handed'[Dev(v)']
                 /\ <<Dev(v)', txn'[v].id>> # <<c, n + 1>>
      <3>1. /\ pc[v] = "committed" /\ job'[v] = job[v] /\ txn'[v] = txn[v]
            /\ Dev(v)' = Dev(v) /\ Dev(v) \in Devices
        BY <1>0, <2>1, <2>5 DEF Dev
      <3>2. txn[v].id \in (DOMAIN events[Dev(v)]) \ handed[Dev(v)]
        BY <3>1
      <3> QED  BY <2>1, <2>2, <3>1, <3>2
    <2> QED  BY <2>1, <2>3, <2>4, <2>5
  <1> QED  BY <1>1, <1>2, <1>3, <1>4, HandingSteps

\* The event numbered k of d was committed, and nobody will hand it over.
IsUnseen(d, k) ==
    /\ d \in Devices /\ k \in DOMAIN events[d] /\ k \notin handed[d]
    /\ ~\E w \in Workers : pc[w] = "committed" /\ Dev(w) = d /\ txn[w].id = k

LEMMA UnseenMeans ==
    ASSUME NEW d, NEW k
    PROVE  (<<d, k>> \in Unseen <=> IsUnseen(d, k)) /\ (<<d, k>> \in Unseen <=> IsUnseen(d, k))'
  <1>1. <<d, k>> \in Unhanded <=> d \in Devices /\ k \in (DOMAIN events[d]) \ handed[d]
    BY DEF Unhanded
  <1>2. <<d, k>> \in Unhanded' <=> d \in Devices /\ k \in (DOMAIN events'[d]) \ handed'[d]
    BY DEF Unhanded
  <1>3. <<d, k>> \in InHand <=>
          \E w \in Workers : pc[w] = "committed" /\ Dev(w) = d /\ txn[w].id = k
    BY DEF InHand
  <1>4. <<d, k>> \in InHand' <=>
          \E w \in Workers : pc'[w] = "committed" /\ Dev(w)' = d /\ txn'[w].id = k
    BY DEF InHand
  <1> QED  BY <1>1, <1>2, <1>3, <1>4 DEF Unseen, IsUnseen

LEMMA UnseenArePairs == \A x \in Unseen' : \E d, k : x = <<d, k>>
  BY DEF Unseen, Unhanded

\* A step loses no event but the one in the hands of a worker that dies.
LEMMA UnseenKept ==
    ASSUME ChainInv, InHandInv, [Next]_vars
    PROVE  \/ Unseen' \subseteq Unseen /\ crashes' = crashes
           \/ crashes' = crashes + 1 /\ \E x : Unseen' \subseteq Unseen \cup {x}
  <1>0. /\ \A w \in Workers : pc[w] = "committed" => Dev(w) \in Devices
        /\ handed \in [Devices -> SUBSET Nat]
    BY DEF ChainInv, IInv, TypeOK, LockDiscipline, Dev, Job
  <1>1. CASE Neutral
    <2>1. ASSUME NEW d, NEW k, IsUnseen(d, k)' PROVE IsUnseen(d, k)
      BY <1>1, <2>1 DEF Neutral, IsUnseen, Dev
    <2>2. Unseen' \subseteq Unseen
      BY <2>1, UnseenMeans, UnseenArePairs
    <2> QED  BY <1>1, <2>2 DEF Neutral
  <1>2. ASSUME NEW w \in Workers, Handles(w)
        PROVE  Unseen' \subseteq Unseen /\ crashes' = crashes
    <2>1. PICK c : c = Dev(w)
      OBVIOUS
    <2>2. PICK i : i = txn[w].id
      OBVIOUS
    <2>3. /\ c \in Devices /\ handed' = [handed EXCEPT ![c] = @ \cup {i}] /\ events' = events
          /\ \A v \in Workers \ {w} : pc'[v] = pc[v] /\ job'[v] = job[v] /\ txn'[v] = txn[v]
      BY <1>0, <1>2, <2>1, <2>2 DEF Handles, Idles
    <2>4. ASSUME NEW d, NEW k, IsUnseen(d, k)' PROVE IsUnseen(d, k)
      <3>1. d \in Devices /\ k \in DOMAIN events[d] /\ k \notin handed'[d]
        BY <2>3, <2>4 DEF IsUnseen
      <3>2. k \notin handed[d] /\ ~(c = d /\ i = k)
        BY <1>0, <2>3, <3>1
      <3>3. ASSUME NEW v \in Workers, pc[v] = "committed", Dev(v) = d, txn[v].id = k PROVE FALSE
        <4>1. v # w
          BY <2>1, <2>2, <3>2, <3>3
        <4>2. pc'[v] = "committed" /\ Dev(v)' = d /\ txn'[v].id = k
          BY <2>3, <3>3, <4>1 DEF Dev
        <4> QED  BY <2>4, <4>2 DEF IsUnseen
      <3> QED  BY <3>1, <3>2, <3>3 DEF IsUnseen
    <2>5. Unseen' \subseteq Unseen
      BY <2>4, UnseenMeans, UnseenArePairs
    <2> QED  BY <1>2, <2>5 DEF Handles
  <1>3. ASSUME NEW w \in Workers, Dies(w)
        PROVE  crashes' = crashes + 1 /\ \E x : Unseen' \subseteq Unseen \cup {x}
    <2>1. PICK x : x = <<Dev(w), txn[w].id>>
      OBVIOUS
    <2>2. /\ events' = events /\ handed' = handed
          /\ \A v \in Workers \ {w} : pc'[v] = pc[v] /\ job'[v] = job[v] /\ txn'[v] = txn[v]
      BY <1>3 DEF Dies, Idles
    <2>3. ASSUME NEW d, NEW k, IsUnseen(d, k)', <<d, k>> # x PROVE IsUnseen(d, k)
      <3>1. ASSUME NEW v \in Workers, pc[v] = "committed", Dev(v) = d, txn[v].id = k PROVE FALSE
        <4>1. v # w
          BY <2>1, <2>3, <3>1
        <4>2. pc'[v] = "committed" /\ Dev(v)' = d /\ txn'[v].id = k
          BY <2>2, <3>1, <4>1 DEF Dev
        <4> QED  BY <2>3, <4>2 DEF IsUnseen
      <3> QED  BY <2>2, <2>3, <3>1 DEF IsUnseen
    <2>4. Unseen' \subseteq Unseen \cup {x}
      BY <2>3, UnseenMeans, UnseenArePairs
    <2> QED  BY <1>3, <2>4 DEF Dies
  <1>4. ASSUME NEW w \in Workers, NEW c, NEW n, NEW e, Records(w, c, n, e)
        PROVE  Unseen' \subseteq Unseen /\ crashes' = crashes
    <2>1. /\ c \in Devices /\ n \in Nat /\ DOMAIN events[c] = 1 .. n
          /\ DOMAIN events'[c] = 1 .. n + 1 /\ pc[w] = "evaluated"
          /\ \A d \in Devices \ {c} : events'[d] = events[d]
          /\ handed' = handed /\ Dev(w)' = c /\ txn'[w].id = n + 1 /\ pc'[w] = "committed"
          /\ \A v \in Workers \ {w} : pc'[v] = pc[v] /\ job'[v] = job[v] /\ txn'[v] = txn[v]
      BY <1>4 DEF Records, Entered, Dev
    <2>2. ASSUME NEW d, NEW k, IsUnseen(d, k)' PROVE IsUnseen(d, k)
      <3>1. d \in Devices /\ k \in DOMAIN events'[d] /\ k \notin handed[d] /\ ~(d = c /\ k = n + 1)
        BY <2>1, <2>2 DEF IsUnseen
      <3>2. k \in DOMAIN events[d]
        BY <2>1, <3>1
      <3>3. ASSUME NEW v \in Workers, pc[v] = "committed", Dev(v) = d, txn[v].id = k PROVE FALSE
        <4>1. v # w /\ pc'[v] = "committed" /\ Dev(v)' = d /\ txn'[v].id = k
          BY <2>1, <3>3 DEF Dev
        <4> QED  BY <2>2, <4>1 DEF IsUnseen
      <3> QED  BY <3>1, <3>2, <3>3 DEF IsUnseen
    <2>3. Unseen' \subseteq Unseen
      BY <2>2, UnseenMeans, UnseenArePairs
    <2> QED  BY <1>4, <2>3 DEF Records
  <1> QED  BY <1>1, <1>2, <1>3, <1>4, HandingSteps

LEMMA UnseenStep ==
    ASSUME ChainInv, InHandInv, UnseenInv, [Next]_vars
    PROVE  UnseenInv'
  <1>0. crashes \in Nat /\ Cardinality(Unseen) \in Nat /\ Cardinality(Unseen) <= crashes
    BY FS_CardinalityType DEF ChainInv, IInv, TypeOK, UnseenInv
  <1>1. IsFiniteSet(Unseen)
    BY DEF UnseenInv
  <1>2. CASE Unseen' \subseteq Unseen /\ crashes' = crashes
    <2>1. IsFiniteSet(Unseen') /\ Cardinality(Unseen') \in Nat
          /\ Cardinality(Unseen') <= Cardinality(Unseen)
      BY <1>1, <1>2, FS_Subset, FS_CardinalityType
    <2>2. Cardinality(Unseen') <= crashes'
      BY <1>0, <1>2, <2>1
    <2> QED  BY <2>1, <2>2 DEF UnseenInv
  <1>3. CASE crashes' = crashes + 1 /\ \E x : Unseen' \subseteq Unseen \cup {x}
    <2>1. PICK x : Unseen' \subseteq Unseen \cup {x}
      BY <1>3
    <2>2. /\ IsFiniteSet(Unseen \cup {x})
          /\ \/ Cardinality(Unseen \cup {x}) = Cardinality(Unseen)
             \/ Cardinality(Unseen \cup {x}) = Cardinality(Unseen) + 1
      BY <1>1, FS_AddElement
    <2>3. IsFiniteSet(Unseen') /\ Cardinality(Unseen') \in Nat
          /\ Cardinality(Unseen') <= Cardinality(Unseen \cup {x})
      BY <2>1, <2>2, FS_Subset, FS_CardinalityType
    <2>4. Cardinality(Unseen') <= crashes'
      BY <1>0, <1>3, <2>2, <2>3
    <2> QED  BY <2>3, <2>4 DEF UnseenInv
  <1> QED  BY <1>2, <1>3, UnseenKept

-----------------------------------------------------------------------------
EventsInv == ChainInv /\ InHandInv /\ UnseenInv

LEMMA EventsInvariant == Spec => []EventsInv
  <1>1. Init => EventsInv
    <2> SUFFICES ASSUME Init PROVE EventsInv
      OBVIOUS
    <2>1. IInv
      BY InitIInv
    <2>2. /\ \A d \in Devices : events[d] = << >> /\ handed[d] = {} /\ row[d].state = "UNKNOWN"
          /\ \A w \in Workers : pc[w] = "idle"
          /\ crashes = 0
      BY DEF Init, NewDevice
    <2>3. \A d \in Devices : DOMAIN events[d] = {} /\ Len(events[d]) = 0
      BY <2>2
    <2>4. ChainInv
      BY <2>1, <2>2, <2>3 DEF ChainInv, Judged, Chain, Outages, Suppressions, After, Follows
    <2>5. InHandInv
      BY <2>2, <2>3 DEF InHandInv
    <2>6. Unseen = {}
      BY <2>3 DEF Unseen, Unhanded
    <2>7. UnseenInv
      BY <2>2, <2>6, FS_EmptySet DEF UnseenInv
    <2> QED  BY <2>4, <2>5, <2>7 DEF EventsInv
  <1>2. EventsInv /\ [Next]_vars => EventsInv'
    BY ChainStep, InHandStep, UnseenStep DEF EventsInv
  <1> QED  BY <1>1, <1>2, PTL DEF Spec

\* The status events of a device are an unbroken chain that ends in the state
\* its row shows, with the silent restart after maintenance as the one gap.
THEOREM ChainCorrect == Spec => []EventsAreAChain
  <1>1. EventsInv => EventsAreAChain
    BY DEF EventsInv, ChainInv, Chain, After, EventsAreAChain
  <1> QED  BY EventsInvariant, <1>1, PTL

\* A DOWN event is ended exactly by the recovery that comes next.
THEOREM OutagesCorrect == Spec => []OutagesEndWithRecovery
  <1>1. EventsInv => OutagesEndWithRecovery
    BY DEF EventsInv, ChainInv, Outages, OutagesEndWithRecovery
  <1> QED  BY EventsInvariant, <1>1, PTL

\* The committed events that the alert engine will not see are no more than
\* the workers that died.
THEOREM AlertsCorrect == Spec => []OnlyCrashesLoseAlerts
  <1>1. EventsInv => OnlyCrashesLoseAlerts
    <2> SUFFICES ASSUME EventsInv PROVE OnlyCrashesLoseAlerts
      OBVIOUS
    <2>1. \A w \in Workers : pc[w] = "committed" => Dev(w) \in Devices
      BY DEF EventsInv, ChainInv, IInv, LockDiscipline, Dev, Job
    <2>2. InHand \subseteq Unhanded
      BY <2>1 DEF EventsInv, InHandInv, InHand, Unhanded
    <2> QED  BY <2>2 DEF EventsInv, UnseenInv, Unseen, OnlyCrashesLoseAlerts
  <1> QED  BY EventsInvariant, <1>1, PTL

\* A child's outage is kept quiet only in favour of an outage of its parent
\* that is on record and reaches the alert engine, unless a worker died.
THEOREM SuppressionCorrect == Spec => []SuppressionIsCovered
  <1>1. EventsInv => SuppressionIsCovered
    <2> SUFFICES ASSUME EventsInv, NEW d \in Devices, NEW i \in DOMAIN events[d],
                        events[d][i].suppressed
                 PROVE  \E k \in DOMAIN events[Parent[d]] :
                            /\ events[Parent[d]][k].new = "DOWN"
                            /\ \/ k \in handed[Parent[d]]
                               \/ <<Parent[d], k>> \in InHand
                               \/ crashes > 0
      BY DEF SuppressionIsCovered
    <2>1. HasDown(Parent[d])
      BY DEF EventsInv, ChainInv, Suppressions
    <2>2. PICK k \in DOMAIN events[Parent[d]] : events[Parent[d]][k].new = "DOWN"
      BY <2>1 DEF HasDown
    <2>3. ASSUME k \notin handed[Parent[d]], <<Parent[d], k>> \notin InHand PROVE crashes > 0
      <3>1. <<Parent[d], k>> \in Unseen
        BY <2>1, <2>2, <2>3 DEF Unseen, Unhanded, HasDown
      <3>2. Cardinality(Unseen) # 0 /\ Cardinality(Unseen) \in Nat
        BY <3>1, FS_EmptySet, FS_CardinalityType DEF EventsInv, UnseenInv
      <3>3. Cardinality(Unseen) <= crashes /\ crashes \in Nat
        BY DEF EventsInv, UnseenInv, ChainInv, IInv, TypeOK
      <3> QED  BY <3>2, <3>3
    <2> QED  BY <2>2, <2>3
  <1> QED  BY EventsInvariant, <1>1, PTL
=============================================================================
