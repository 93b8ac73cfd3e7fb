-------------------------- MODULE EscalationProofs --------------------------
(***************************************************************************)
(* Proofs about Escalation, for any alerts, policies, users, operators and *)
(* number of overlapping sweeps, and any deaths of sweeps.                 *)
(*                                                                         *)
(* The argument: what a sweep is about to fire it found due, with all the  *)
(* lower tiers due or fired, on an alert that nobody had acknowledged when *)
(* the sweep began; a tier that has fired is found due by no sweep after   *)
(* that; and whoever is not paged for it is the concern of a sweep that is *)
(* paging, or of one that died.                                            *)
(***************************************************************************)
EXTENDS Escalation, FiniteSetTheorems, TLAPS

\* What a sweep is doing makes sense: the tiers it will fire belong to its
\* alert, and the users it has passed in the present tier are paged.
AtWork(s) ==
    /\ ~escSweep[s].running =>
         escSweep[s].open = {} /\ escSweep[s].due = {} /\ escSweep[s].users = {}
    /\ escSweep[s].due # {} =>
         escSweep[s].alert \in Alerts /\ escSweep[s].due \subseteq Tiers(escSweep[s].alert)
    /\ escSweep[s].users # {} =>
         /\ escSweep[s].alert \in Alerts /\ escSweep[s].tier \in Fired(escSweep[s].alert)
         /\ escSweep[s].users \subseteq Users[escSweep[s].tier]
         /\ \A u \in Users[escSweep[s].tier] \ escSweep[s].users :
              <<escSweep[s].alert, escSweep[s].tier, u>> \in pages

\* Below a tier that a sweep will fire, every tier has fired or will.
Climbing(s) ==
    \A t \in escSweep[s].due : \A u \in 1 .. (t - 1) :
        u \in escSweep[s].due \/ u \in Fired(escSweep[s].alert)

\* The sweep began before any acknowledgement of the alerts it still visits.
Before(s) ==
    /\ escSweep[s].now <= clock
    /\ \A a \in escSweep[s].open : \A k \in acks[a] : escSweep[s].now <= k.at
    /\ escSweep[s].due # {} => \A k \in acks[escSweep[s].alert] : escSweep[s].now <= k.at

\* Nobody has acknowledged an alert that is not ACKED.
AcksShow == \A a \in Alerts : state[a] # "ACKED" => acks[a] = {}

SweepInv ==
    EscTypeOK /\ AcksShow /\ \A s \in Sweeps : AtWork(s) /\ Climbing(s) /\ Before(s)

\* Rows are of the past.
RowsPast == \A a \in Alerts : \A i \in DOMAIN rows[a] : rows[a][i].asOf <= clock

\* The rows of a tier, and the sweeps that will add one.
Copies(a, t) == {i \in DOMAIN rows[a] : rows[a][i].tier = t}

Loaded(a, t) == {s \in Sweeps : escSweep[s].alert = a /\ t \in escSweep[s].due}

CopiesInv ==
    \A a \in Alerts : \A t \in Tiers(a) :
        Copies(a, t) = {} \/
        Cardinality(Copies(a, t)) + Cardinality(Loaded(a, t)) <= Cardinality(Sweeps)

\* The tiers whose users have not all been paged, and never will be.
Lost == Unpaged \ Paging

LostInv == IsFiniteSet(Lost) /\ Cardinality(Lost) <= escCrashes

EscInv ==
    SweepInv /\ LadderInOrder /\ RowsPast /\ AckStopsEscalation /\ CopiesInv /\ LostInv

-----------------------------------------------------------------------------
\* A set of tiers has a first one: else one could go down from each number that
\* a tier does not exceed, and two of them would meet.
LEMMA FirstTierIsFirst ==
    ASSUME NEW due \in SUBSET Nat, due # {}
    PROVE  FirstTier(due) \in due /\ \A u \in due : FirstTier(due) <= u
  <1>1. \E t \in due : \A u \in due : t <= u
    <2> SUFFICES ASSUME \A t \in due : \E u \in due : ~(t <= u) PROVE FALSE
      OBVIOUS
    <2>1. PICK n \in due : TRUE
      OBVIOUS
    <2> DEFINE Above == {x \in 0 .. n : \E t \in due : t <= x}
               Down == [x \in Above |-> x - 1]
    <2>2. IsFiniteSet(Above)
      <3>1. Above \in SUBSET (0 .. n) /\ n \in Int /\ 0 \in Int
        OBVIOUS
      <3> QED  BY <3>1, FS_Interval, FS_Subset
    <2>3. n \in Above
      OBVIOUS
    <2>4. IsFiniteSet(Above \ {n}) /\ Cardinality(Above \ {n}) < Cardinality(Above)
      <3> HIDE DEF Above
      <3>1. /\ IsFiniteSet(Above \ {n}) /\ Cardinality(Above) \in Nat
            /\ Cardinality(Above \ {n}) = Cardinality(Above) - 1
        BY <2>2, <2>3, FS_RemoveElement, FS_CardinalityType
      <3> QED  BY <3>1
    <2>5. Down \in [Above -> Above \ {n}]
      <3> SUFFICES ASSUME NEW x \in Above PROVE x - 1 \in Above \ {n}
        OBVIOUS
      <3>1. PICK t \in due : t <= x
        OBVIOUS
      <3>2. PICK u \in due : ~(t <= u)
        OBVIOUS
      <3>3. u \in Nat /\ t \in Nat /\ x \in 0 .. n /\ n \in Nat
        OBVIOUS
      <3>4. u <= x - 1 /\ x - 1 \in 0 .. n /\ x - 1 # n
        BY <3>1, <3>2, <3>3
      <3> QED  BY <3>4
    <2>6. \A x, y \in Above : Down[x] = Down[y] => x = y
      OBVIOUS
    <2> HIDE DEF Above, Down
    <2> QED  BY <2>2, <2>4, <2>5, <2>6, FS_PigeonHole
  <1> QED  BY <1>1 DEF FirstTier

LEMMA PolicyTypes ==
    ASSUME NEW a \in Alerts
    PROVE  /\ Tiers(a) \subseteq Nat \ {0} /\ Tiers(a) \subseteq DOMAIN Users
           /\ \A t \in Tiers(a) : Policy[a][t] \in Nat
           /\ \A t \in Tiers(a) : \A u \in 1 .. (t - 1) :
                u \in Tiers(a) /\ Policy[a][u] <= Policy[a][t]
  <1>1. Policy[a] \in Seq(Nat)
    BY EscalationAssumption
  <1>2. Tiers(a) = 1 .. Len(Policy[a]) /\ Len(Policy[a]) \in Nat
    BY <1>1 DEF Tiers
  <1>3. \A t \in Tiers(a) : Policy[a][t] \in Nat
    BY <1>1, <1>2
  <1>4. ASSUME NEW t \in Tiers(a), NEW u \in 1 .. (t - 1)
        PROVE  u \in Tiers(a) /\ Policy[a][u] <= Policy[a][t]
    <2>1. u \in Tiers(a) /\ u <= t
      BY <1>2
    <2> QED  BY <2>1, EscalationAssumption
  <1>5. Tiers(a) \subseteq Nat \ {0}
    BY <1>2
  <1> QED  BY <1>3, <1>4, <1>5, EscalationAssumption

LEMMA FiredTypes ==
    ASSUME EscTypeOK, NEW a \in Alerts
    PROVE  Fired(a) \subseteq Nat \ {0}
  <1>1. rows[a] \in Seq(EscalationRow)
    BY DEF EscTypeOK
  <1>2. \A i \in DOMAIN rows[a] : rows[a][i] \in EscalationRow
    BY <1>1
  <1> QED  BY <1>2 DEF Fired, EscalationRow

-----------------------------------------------------------------------------
LEMMA EscInitInv == EscInit => SweepInv
  <1> SUFFICES ASSUME EscInit PROVE SweepInv
    OBVIOUS
  <1>1. NoEscSweep \in Sweep
    BY DEF NoEscSweep, Sweep
  <1>2. EscTypeOK
    BY <1>1 DEF EscInit, EscTypeOK
  <1>3. AcksShow
    BY DEF EscInit, AcksShow
  <1>4. \A s \in Sweeps : AtWork(s) /\ Climbing(s) /\ Before(s)
    BY DEF EscInit, NoEscSweep, AtWork, Climbing, Before
  <1> QED  BY <1>2, <1>3, <1>4 DEF SweepInv

-----------------------------------------------------------------------------
\* The steps of a sweep on its local variables.
LEMMA SweepTypes ==
    ASSUME EscTypeOK, NEW s \in Sweeps
    PROVE  /\ escSweep[s] \in Sweep /\ escSweep[s].now \in Nat /\ escSweep[s].open \subseteq Alerts
           /\ escSweep[s].due \subseteq Nat /\ escSweep[s].tier \in Nat
           /\ escSweep[s].users \subseteq UNION {Users[t] : t \in DOMAIN Users}
           /\ escSweep[s].alert \in Alerts \cup {NoAlert}
           /\ NoEscSweep \in Sweep
  BY DEF EscTypeOK, Sweep, NoEscSweep

LEMMA EscTypeStep ==
    ASSUME EscTypeOK, \A s \in Sweeps : AtWork(s), [EscNext]_escVars
    PROVE  EscTypeOK'
  <1> SUFFICES EscTypeOK'
    OBVIOUS
  <1>0. clock \in Nat /\ escCrashes \in Nat
    BY DEF EscTypeOK
  <1>1. CASE Tick
    BY <1>0, <1>1 DEF Tick, EscTypeOK, alertsTable
  <1>2. ASSUME NEW a \in Alerts, Raise(a) \/ Recover(a) PROVE EscTypeOK'
    BY <1>0, <1>2 DEF Raise, Recover, EscTypeOK
  <1>3. ASSUME NEW o \in Operators, NEW a \in Alerts, ReadForAck(o, a) PROVE EscTypeOK'
    BY <1>3 DEF ReadForAck, EscTypeOK, alertsTable
  <1>4. ASSUME NEW o \in Operators, Acknowledge(o) PROVE EscTypeOK'
    <2>1. acking[o] \in Alerts
      BY <1>4 DEF Acknowledge, EscTypeOK
    <2>2. acks' \in [Alerts -> SUBSET Ack]
      <3>1. [by |-> o, at |-> clock] \in Ack
        BY <1>0 DEF Ack
      <3> QED  BY <1>4, <2>1, <3>1 DEF Acknowledge, EscTypeOK
    <2> QED  BY <1>4, <2>1, <2>2 DEF Acknowledge, EscTypeOK
  <1>5. ASSUME NEW s \in Sweeps, BeginSweep(s) PROVE EscTypeOK'
    <2>1. [NoEscSweep EXCEPT !.running = TRUE, !.now = clock, !.open = OpenAlerts] \in Sweep
      BY <1>0, SweepTypes DEF Sweep, OpenAlerts
    <2> QED  BY <1>5, <2>1 DEF BeginSweep, EscTypeOK, alertsTable
  <1>6. ASSUME NEW s \in Sweeps, NEW a \in Alerts, LoadAlert(s, a) PROVE EscTypeOK'
    <2>1. Due(s, a) \subseteq Nat
      BY PolicyTypes DEF Due
    <2>2. escSweep' \in [Sweeps -> Sweep]
      <3>1. [escSweep[s] EXCEPT !.open = @ \ {a}, !.alert = a, !.due = Due(s, a)] \in Sweep
        BY <2>1, SweepTypes DEF Sweep
      <3> QED  BY <1>6, <3>1 DEF LoadAlert, EscTypeOK
    <2> QED  BY <1>6, <2>2 DEF LoadAlert, EscTypeOK, alertsTable
  <1>7. ASSUME NEW s \in Sweeps, FireTier(s) PROVE EscTypeOK'
    <2> DEFINE a == escSweep[s].alert
               t == FirstTier(escSweep[s].due)
    <2>1. t \in escSweep[s].due
      BY <1>7, SweepTypes, FirstTierIsFirst DEF FireTier
    <2>2. a \in Alerts /\ t \in Nat \ {0} /\ t \in DOMAIN Users
      BY <2>1, PolicyTypes DEF AtWork
    <2>3. rows' \in [Alerts -> Seq(EscalationRow)]
      <3>1. [tier |-> t, asOf |-> escSweep[s].now] \in EscalationRow
        BY <2>2, SweepTypes DEF EscalationRow
      <3>2. Append(rows[a], [tier |-> t, asOf |-> escSweep[s].now]) \in Seq(EscalationRow)
        BY <2>2, <3>1 DEF EscTypeOK
      <3> QED  BY <1>7, <2>2, <3>2 DEF FireTier, EscTypeOK
    <2>4. escSweep' \in [Sweeps -> Sweep]
      <3> HIDE DEF t
      <3>1. [escSweep[s] EXCEPT !.due = @ \ {t}, !.tier = t, !.users = Users[t]] \in Sweep
        BY <2>2, SweepTypes DEF Sweep
      <3>2. escSweep' = [escSweep EXCEPT ![s].due = @ \ {t}, ![s].tier = t, ![s].users = Users[t]]
        BY <1>7 DEF FireTier, t
      <3> QED  BY <3>1, <3>2 DEF EscTypeOK
    <2> HIDE DEF t
    <2> QED  BY <1>7, <2>3, <2>4 DEF FireTier, EscTypeOK, alertsTable
  <1>8. ASSUME NEW s \in Sweeps, NEW t \in DOMAIN Users, NEW u \in Users[t], PageUser(s, u)
        PROVE  EscTypeOK'
    <2>1. [escSweep[s] EXCEPT !.users = @ \ {u}] \in Sweep
      BY SweepTypes DEF Sweep
    <2>2. escSweep[s].alert \in Alerts /\ escSweep[s].tier \in Nat /\ u \in Users[escSweep[s].tier]
      BY <1>8, SweepTypes DEF PageUser, AtWork
    <2>3. /\ u \in UNION {Users[v] : v \in DOMAIN Users}
          /\ pages' = pages \cup {<<escSweep[s].alert, escSweep[s].tier, u>>}
          /\ escSweep' = [escSweep EXCEPT ![s].users = @ \ {u}]
      BY <1>8 DEF PageUser
    <2>4. pages' \subseteq {p \in Alerts \X Nat \X UNION {Users[v] : v \in DOMAIN Users} :
                             p[3] \in Users[p[2]]}
      BY <2>2, <2>3 DEF EscTypeOK
    <2>5. escSweep' \in [Sweeps -> Sweep]
      BY <2>1, <2>3 DEF EscTypeOK
    <2> QED  BY <1>8, <2>4, <2>5 DEF PageUser, EscTypeOK, alertsTable
  <1>9. ASSUME NEW s \in Sweeps, EndSweep(s) \/ CrashSweep(s) PROVE EscTypeOK'
    <2>1. escSweep' = [escSweep EXCEPT ![s] = NoEscSweep]
      BY <1>9 DEF EndSweep, CrashSweep
    <2>2. escSweep' \in [Sweeps -> Sweep]
      BY <2>1, SweepTypes DEF EscTypeOK
    <2>3. escCrashes' \in Nat
      BY <1>0, <1>9 DEF EndSweep, CrashSweep
    <2> QED  BY <1>9, <2>2, <2>3 DEF EndSweep, CrashSweep, EscTypeOK, alertsTable
  <1>10. CASE UNCHANGED escVars
    BY <1>10 DEF escVars, alertsTable, EscTypeOK
  <1> QED
    BY <1>1, <1>2, <1>3, <1>4, <1>5, <1>6, <1>7, <1>8, <1>9, <1>10 DEF EscNext, EscSweepStep

-----------------------------------------------------------------------------
\* Firing a tier adds a row for the first due tier t to the n rows of alert a.
AddsRow(s, a, t, n) ==
    /\ a \in Alerts /\ a = escSweep[s].alert
    /\ t = FirstTier(escSweep[s].due) /\ t \in escSweep[s].due /\ t \in Tiers(a) /\ t \in Nat \ {0}
    /\ n \in Nat /\ DOMAIN rows[a] = 1 .. n /\ DOMAIN rows'[a] = 1 .. n + 1
    /\ \A i \in 1 .. n : rows'[a][i] = rows[a][i]
    /\ rows'[a][n + 1] = [tier |-> t, asOf |-> escSweep[s].now]
    /\ \A b \in Alerts \ {a} : rows'[b] = rows[b]
    /\ Fired(a)' = Fired(a) \cup {t}
    /\ escSweep' = [escSweep EXCEPT ![s].due = @ \ {t}, ![s].tier = t, ![s].users = Users[t]]

LEMMA FireEffect ==
    ASSUME EscTypeOK, NEW s \in Sweeps, AtWork(s), FireTier(s)
    PROVE  \E a, t, n : AddsRow(s, a, t, n)
  <1> PICK a, t, n : a = escSweep[s].alert /\ t = FirstTier(escSweep[s].due) /\ n = Len(rows[a])
    OBVIOUS
  <1> DEFINE e == [tier |-> t, asOf |-> escSweep[s].now]
  <1>1. a \in Alerts /\ t \in escSweep[s].due /\ t \in Tiers(a) /\ t \in Nat \ {0}
    BY SweepTypes, FirstTierIsFirst, PolicyTypes DEF FireTier, AtWork
  <1>2. rows[a] \in Seq(EscalationRow) /\ e \in EscalationRow
    BY <1>1, SweepTypes DEF EscTypeOK, EscalationRow
  <1>3. rows'[a] = Append(rows[a], e) /\ \A b \in Alerts \ {a} : rows'[b] = rows[b]
    BY <1>1 DEF FireTier, EscTypeOK
  <1>4. e.tier = t
    OBVIOUS
  <1>5. escSweep' = [escSweep EXCEPT ![s].due = @ \ {t}, ![s].tier = t, ![s].users = Users[t]]
    BY DEF FireTier
  <1> HIDE DEF e
  <1>6. /\ n \in Nat /\ DOMAIN rows[a] = 1 .. n /\ DOMAIN rows'[a] = 1 .. n + 1
        /\ \A i \in 1 .. n : rows'[a][i] = rows[a][i]
        /\ rows'[a][n + 1] = e
    BY <1>2, <1>3
  <1>7. \A i \in 1 .. n + 1 : i \in 1 .. n \/ i = n + 1
    BY <1>6
  <1>8. Fired(a)' = Fired(a) \cup {t}
    <2>1. ASSUME NEW i \in 1 .. n + 1 PROVE rows'[a][i].tier \in Fired(a) \cup {t}
      BY <1>4, <1>6, <1>7 DEF Fired
    <2>2. ASSUME NEW i \in 1 .. n PROVE rows[a][i].tier \in Fired(a)'
      <3>1. i \in 1 .. n + 1
        BY <1>6
      <3> QED  BY <1>6, <3>1 DEF Fired
    <2>3. t \in Fired(a)'
      <3>1. n + 1 \in 1 .. n + 1
        BY <1>6
      <3> QED  BY <1>4, <1>6, <3>1 DEF Fired
    <2>4. Fired(a)' \subseteq Fired(a) \cup {t}
      BY <1>6, <2>1 DEF Fired
    <2>5. Fired(a) \subseteq Fired(a)'
      BY <1>6, <2>2 DEF Fired
    <2> QED  BY <2>3, <2>4, <2>5
  <1>9. AddsRow(s, a, t, n)
    BY <1>1, <1>3, <1>5, <1>6, <1>8 DEF e, AddsRow
  <1> QED  BY <1>9

\* Rows and pages stay, time passes, and acknowledgements are of now.
LEMMA Growth ==
    ASSUME EscTypeOK, \A s \in Sweeps : AtWork(s), [EscNext]_escVars
    PROVE  /\ clock \in Nat /\ clock' \in Nat /\ clock <= clock' /\ pages \subseteq pages'
           /\ \A a \in Alerts : Fired(a) \subseteq Fired(a)'
           /\ \A a \in Alerts : \A k \in acks'[a] : k \in acks[a] \/ k.at = clock
  <1>1. clock \in Nat /\ (clock' = clock \/ clock' = clock + 1)
    BY DEF EscTypeOK, EscNext, Tick, Raise, Recover, Acknowledge, ReadForAck, EscSweepStep, CrashSweep,
           BeginSweep, LoadAlert, FireTier, PageUser, EndSweep, escVars, alertsTable
  <1>2. rows' = rows \/ \E s \in Sweeps : FireTier(s)
    BY DEF EscNext, Tick, Raise, Recover, Acknowledge, ReadForAck, EscSweepStep, CrashSweep,
           BeginSweep, LoadAlert, PageUser, EndSweep, escVars, alertsTable
  <1>3. pages \subseteq pages'
    BY DEF EscNext, Tick, Raise, Recover, Acknowledge, ReadForAck, EscSweepStep, CrashSweep,
           BeginSweep, LoadAlert, FireTier, PageUser, EndSweep, escVars, alertsTable
  <1>4. acks' = acks \/ \E o \in Operators : Acknowledge(o)
    BY DEF EscNext, Tick, Raise, Recover, ReadForAck, EscSweepStep, CrashSweep,
           BeginSweep, LoadAlert, FireTier, PageUser, EndSweep, escVars, alertsTable
  <1>5. ASSUME NEW a \in Alerts PROVE Fired(a) \subseteq Fired(a)'
    <2>1. CASE rows' = rows
      BY <2>1 DEF Fired
    <2>2. ASSUME NEW s \in Sweeps, FireTier(s) PROVE Fired(a) \subseteq Fired(a)'
      <3>1. PICK b, t, n : AddsRow(s, b, t, n)
        BY <2>2, FireEffect
      <3>2. CASE a = b
        BY <3>1, <3>2 DEF AddsRow
      <3>3. CASE a # b
        <4>1. rows'[a] = rows[a]
          BY <3>1, <3>3 DEF AddsRow
        <4> QED  BY <4>1 DEF Fired
      <3> QED  BY <3>2, <3>3
    <2> QED  BY <1>2, <2>1, <2>2
  <1>6. ASSUME NEW a \in Alerts, NEW k \in acks'[a] PROVE k \in acks[a] \/ k.at = clock
    <2>1. ASSUME NEW o \in Operators, Acknowledge(o) PROVE k \in acks[a] \/ k.at = clock
      <3>1. acks' = [acks EXCEPT ![acking[o]] = @ \cup {[by |-> o, at |-> clock]}]
        BY <2>1 DEF Acknowledge
      <3> QED  BY <3>1 DEF EscTypeOK
    <2> QED  BY <1>4, <1>6, <2>1
  <1> QED  BY <1>1, <1>3, <1>5, <1>6

\* A sweep that does not move is no worse off.
LEMMA SweepKept ==
    ASSUME EscTypeOK, \A s \in Sweeps : AtWork(s), [EscNext]_escVars,
           NEW g \in Sweeps, AtWork(g), Climbing(g), Before(g), escSweep'[g] = escSweep[g]
    PROVE  (AtWork(g) /\ Climbing(g) /\ Before(g))'
  <1>1. AtWork(g)'
    BY Growth DEF AtWork
  <1>2. Climbing(g)'
    <2> SUFFICES ASSUME NEW t \in escSweep[g].due, NEW u \in 1 .. (t - 1)
                 PROVE  u \in escSweep[g].due \/ u \in Fired(escSweep[g].alert)'
      BY DEF Climbing
    <2>1. escSweep[g].alert \in Alerts
      BY DEF AtWork
    <2> QED  BY <2>1, Growth DEF Climbing
  <1>3. Before(g)'
    <2>1. /\ escSweep[g].now \in Nat /\ escSweep[g].now <= clock /\ clock \in Nat /\ clock' \in Nat
          /\ clock <= clock' /\ escSweep[g].open \subseteq Alerts
      BY SweepTypes, Growth DEF Before
    <2>2. escSweep[g].now <= clock'
      BY <2>1
    <2>3. \A a \in escSweep[g].open : \A k \in acks'[a] : escSweep[g].now <= k.at
      BY <2>1, Growth DEF Before
    <2>4. escSweep[g].due # {} => \A k \in acks'[escSweep[g].alert] : escSweep[g].now <= k.at
      BY <2>1, Growth DEF Before, AtWork
    <2> QED  BY <2>2, <2>3, <2>4 DEF Before
  <1> QED  BY <1>1, <1>2, <1>3

\* A sweep that moves does not begin anything that it should not.
LEMMA SweepMoves ==
    ASSUME SweepInv, [EscNext]_escVars, NEW g \in Sweeps
    PROVE  (AtWork(g) /\ Climbing(g) /\ Before(g))'
  <1> SUFFICES (AtWork(g) /\ Climbing(g) /\ Before(g))'
    OBVIOUS
  <1>0. /\ EscTypeOK /\ AcksShow /\ \A s \in Sweeps : AtWork(s) /\ Climbing(s) /\ Before(s)
        /\ escSweep[g] \in Sweep /\ escSweep \in [Sweeps -> Sweep] /\ clock \in Nat
    BY SweepTypes DEF SweepInv, EscTypeOK
  <1>1. ASSUME escSweep'[g] = escSweep[g] PROVE (AtWork(g) /\ Climbing(g) /\ Before(g))'
    BY <1>0, <1>1, SweepKept
  <1>2. CASE \/ Tick \/ UNCHANGED escVars \/ \E a \in Alerts : Raise(a) \/ Recover(a)
             \/ \E o \in Operators : Acknowledge(o) \/ \E a \in Alerts : ReadForAck(o, a)
    BY <1>1, <1>2 DEF Tick, escVars, Raise, Recover, Acknowledge, ReadForAck
  <1>3. ASSUME NEW s \in Sweeps, s # g, EscSweepStep(s) \/ CrashSweep(s)
        PROVE  (AtWork(g) /\ Climbing(g) /\ Before(g))'
    <2>1. escSweep'[g] = escSweep[g]
      BY <1>0, <1>3 DEF EscSweepStep, BeginSweep, LoadAlert, FireTier, PageUser, EndSweep, CrashSweep
    <2> QED  BY <1>1, <2>1
  <1>4. CASE BeginSweep(g)
    <2>1. /\ escSweep'[g].due = {} /\ escSweep'[g].users = {} /\ escSweep'[g].now = clock
          /\ escSweep'[g].open = OpenAlerts /\ acks' = acks /\ clock' = clock
          /\ escSweep'[g].running
      BY <1>0, <1>4 DEF BeginSweep, NoEscSweep, alertsTable
    <2>2. \A a \in OpenAlerts : acks[a] = {}
      BY <1>0 DEF OpenAlerts, AcksShow
    <2> QED  BY <1>0, <2>1, <2>2 DEF AtWork, Climbing, Before
  <1>5. CASE EndSweep(g) \/ CrashSweep(g)
    <2>1. /\ escSweep'[g].due = {} /\ escSweep'[g].users = {} /\ escSweep'[g].now = 0
          /\ escSweep'[g].open = {} /\ clock' = clock
      BY <1>0, <1>5 DEF EndSweep, CrashSweep, NoEscSweep
    <2> QED  BY <1>0, <2>1 DEF AtWork, Climbing, Before
  <1>6. ASSUME NEW a \in Alerts, LoadAlert(g, a)
        PROVE  (AtWork(g) /\ Climbing(g) /\ Before(g))'
    <2>1. /\ escSweep'[g].due = Due(g, a) /\ escSweep'[g].users = {} /\ escSweep'[g].alert = a
          /\ escSweep'[g].now = escSweep[g].now /\ escSweep'[g].open = escSweep[g].open \ {a}
          /\ rows' = rows /\ acks' = acks /\ clock' = clock /\ a \in escSweep[g].open
          /\ escSweep'[g].running = escSweep[g].running
      BY <1>0, <1>6 DEF LoadAlert, Sweep, alertsTable
    <2>2. AtWork(g)'
      BY <1>0, <2>1 DEF AtWork, Due
    <2>3. Climbing(g)'
      <3> SUFFICES ASSUME NEW t \in Due(g, a), NEW u \in 1 .. (t - 1)
                   PROVE  u \in Due(g, a) \/ u \in Fired(a)
        BY <2>1 DEF Climbing, Fired
      <3>1. /\ t \in Tiers(a) /\ u \in Tiers(a) /\ Policy[a][u] <= Policy[a][t]
            /\ Policy[a][u] \in Nat /\ Policy[a][t] \in Nat
        BY PolicyTypes DEF Due
      <3>2. created[a] \in Nat /\ escSweep[g].now \in Nat
        BY <1>0, SweepTypes DEF EscTypeOK
      <3>3. escSweep[g].now >= created[a] + Policy[a][t]
        BY DEF Due
      <3>4. escSweep[g].now >= created[a] + Policy[a][u]
        BY <3>1, <3>2, <3>3
      <3> QED  BY <3>1, <3>4 DEF Due
    <2>4. Before(g)'
      BY <1>0, <2>1 DEF Before
    <2> QED  BY <2>2, <2>3, <2>4
  <1>7. CASE FireTier(g)
    <2>1. PICK a, t, n : AddsRow(g, a, t, n)
      BY <1>0, <1>7, FireEffect
    <2>2. /\ a \in Alerts /\ t \in Tiers(a) /\ a = escSweep[g].alert
          /\ t \in escSweep[g].due /\ Fired(a)' = Fired(a) \cup {t}
          /\ escSweep' = [escSweep EXCEPT ![g].due = @ \ {t}, ![g].tier = t, ![g].users = Users[t]]
      BY <2>1 DEF AddsRow
    <2>3. /\ escSweep'[g].due = escSweep[g].due \ {t} /\ escSweep'[g].tier = t
          /\ escSweep'[g].users = Users[t] /\ escSweep'[g].alert = a
          /\ escSweep'[g].now = escSweep[g].now /\ escSweep'[g].open = escSweep[g].open
      BY <1>0, <2>2 DEF Sweep
    <2>4. acks' = acks /\ clock' = clock
      BY <1>7 DEF FireTier, alertsTable
    <2>5. AtWork(g)'
      BY <1>0, <2>2, <2>3 DEF AtWork
    <2>6. Climbing(g)'
      BY <1>0, <2>2, <2>3 DEF Climbing
    <2>7. Before(g)'
      BY <1>0, <2>2, <2>3, <2>4 DEF Before
    <2> QED  BY <2>5, <2>6, <2>7
  <1>8. ASSUME NEW t \in DOMAIN Users, NEW u \in Users[t], PageUser(g, u)
        PROVE  (AtWork(g) /\ Climbing(g) /\ Before(g))'
    <2>1. /\ escSweep'[g].due = escSweep[g].due /\ escSweep'[g].tier = escSweep[g].tier
          /\ escSweep'[g].users = escSweep[g].users \ {u} /\ escSweep'[g].alert = escSweep[g].alert
          /\ escSweep'[g].now = escSweep[g].now /\ escSweep'[g].open = escSweep[g].open
          /\ pages' = pages \cup {<<escSweep[g].alert, escSweep[g].tier, u>>}
          /\ escSweep'[g].running = escSweep[g].running
          /\ rows' = rows /\ acks' = acks /\ clock' = clock
      BY <1>0, <1>8 DEF PageUser, Sweep, alertsTable
    <2>2. AtWork(g)'
      BY <1>0, <2>1 DEF AtWork, Fired
    <2>3. Climbing(g)'
      BY <1>0, <2>1 DEF Climbing, Fired
    <2>4. Before(g)'
      BY <1>0, <2>1 DEF Before
    <2> QED  BY <2>2, <2>3, <2>4
  <1> QED
    BY <1>2, <1>3, <1>4, <1>5, <1>6, <1>7, <1>8 DEF EscNext, EscSweepStep

LEMMA AcksStep ==
    ASSUME EscTypeOK, AcksShow, [EscNext]_escVars
    PROVE  AcksShow'
  <1>1. ASSUME NEW o \in Operators, Acknowledge(o) PROVE AcksShow'
    <2>1. PICK a \in Alerts \cup {NoAlert} : a = acking[o]
      BY DEF EscTypeOK
    <2>2. /\ a \in Alerts /\ state' = [state EXCEPT ![a] = "ACKED"]
          /\ acks' = [acks EXCEPT ![a] = @ \cup {[by |-> o, at |-> clock]}]
      BY <1>1, <2>1 DEF Acknowledge
    <2> QED  BY <2>2 DEF AcksShow, EscTypeOK
  <1>2. ASSUME NEW a \in Alerts, Raise(a) \/ Recover(a) PROVE AcksShow'
    BY <1>2 DEF Raise, Recover, AcksShow, EscTypeOK
  <1>3. CASE UNCHANGED <<state, acks>>
    BY <1>3 DEF AcksShow
  <1> QED
    BY <1>1, <1>2, <1>3 DEF EscNext, Tick, ReadForAck, EscSweepStep, BeginSweep, LoadAlert, FireTier,
           PageUser, EndSweep, CrashSweep, escVars, alertsTable

LEMMA SweepInvStep == SweepInv /\ [EscNext]_escVars => SweepInv'
  <1> SUFFICES ASSUME SweepInv, [EscNext]_escVars PROVE SweepInv'
    OBVIOUS
  <1>1. EscTypeOK' /\ AcksShow'
    BY EscTypeStep, AcksStep DEF SweepInv
  <1>2. \A s \in Sweeps : (AtWork(s) /\ Climbing(s) /\ Before(s))'
    BY SweepMoves
  <1> QED  BY <1>1, <1>2 DEF SweepInv

-----------------------------------------------------------------------------
\* Only FireTier adds rows, and what it adds.
LEMMA RowsChange ==
    ASSUME [EscNext]_escVars
    PROVE  rows' = rows \/ \E s \in Sweeps : FireTier(s)
  BY DEF EscNext, Tick, Raise, Recover, Acknowledge, ReadForAck, EscSweepStep, CrashSweep,
         BeginSweep, LoadAlert, PageUser, EndSweep, escVars, alertsTable

LEMMA LadderStep ==
    ASSUME SweepInv, LadderInOrder, [EscNext]_escVars
    PROVE  LadderInOrder'
  <1>1. CASE rows' = rows
    BY <1>1 DEF LadderInOrder
  <1>2. ASSUME NEW s \in Sweeps, FireTier(s) PROVE LadderInOrder'
    <2>0. EscTypeOK /\ AtWork(s) /\ Climbing(s) /\ escSweep[s].due \subseteq Nat
      BY SweepTypes DEF SweepInv
    <2>1. PICK a, t, n : AddsRow(s, a, t, n)
      BY <1>2, <2>0, FireEffect
    <2>2. /\ a \in Alerts /\ t \in Tiers(a) /\ n \in Nat
          /\ a = escSweep[s].alert /\ t = FirstTier(escSweep[s].due) /\ t \in escSweep[s].due
          /\ t \in Nat \ {0}
          /\ DOMAIN rows[a] = 1 .. n /\ DOMAIN rows'[a] = 1 .. n + 1
          /\ \A i \in 1 .. n : rows'[a][i] = rows[a][i]
          /\ rows'[a][n + 1] = [tier |-> t, asOf |-> escSweep[s].now]
          /\ \A b \in Alerts \ {a} : rows'[b] = rows[b]
      BY <2>1 DEF AddsRow
    <2>3. ASSUME NEW u \in 1 .. (t - 1) PROVE \E k \in 1 .. n : rows[a][k].tier = u
      <3>1. u \notin escSweep[s].due
        <4>1. u \in Nat /\ ~(t <= u)
          BY <2>2
        <4> QED  BY <2>0, <2>2, <4>1, FirstTierIsFirst
      <3>2. u \in Fired(a)
        BY <2>0, <2>2, <3>1 DEF Climbing
      <3> QED  BY <2>2, <3>2 DEF Fired
    <2>4. ASSUME NEW i \in 1 .. n + 1, NEW u \in 1 .. (rows'[a][i].tier - 1)
          PROVE  \E k \in 1 .. (i - 1) : rows'[a][k].tier = u
      <3>1. CASE i = n + 1
        <4>1. u \in 1 .. (t - 1) /\ i - 1 = n
          BY <2>2, <3>1
        <4> QED  BY <2>2, <2>3, <4>1
      <3>2. CASE i # n + 1
        <4>1. i \in 1 .. n /\ \A k \in 1 .. (i - 1) : k \in 1 .. n
          BY <2>2, <3>2
        <4>2. rows'[a][i] = rows[a][i]
          BY <2>2, <4>1
        <4>0. a \in Alerts /\ i \in DOMAIN rows[a] /\ u \in 1 .. (rows[a][i].tier - 1)
          BY <2>2, <4>1, <4>2
        <4>3. PICK k \in 1 .. (i - 1) : rows[a][k].tier = u
          BY <4>0 DEF LadderInOrder
        <4> QED  BY <2>2, <4>1, <4>3
      <3> QED  BY <3>1, <3>2
    <2>5. ASSUME NEW b \in Alerts, NEW i \in DOMAIN rows'[b],
                 NEW u \in 1 .. (rows'[b][i].tier - 1)
          PROVE  \E k \in 1 .. (i - 1) : rows'[b][k].tier = u
      <3>1. CASE b = a
        BY <2>2, <2>4, <3>1
      <3>2. CASE b # a
        <4>1. rows'[b] = rows[b]
          BY <2>2, <3>2
        <4> QED  BY <4>1 DEF LadderInOrder
      <3> QED  BY <3>1, <3>2
    <2> QED  BY <2>5 DEF LadderInOrder
  <1> QED  BY <1>1, <1>2, RowsChange

LEMMA AckStep ==
    ASSUME SweepInv, RowsPast, AckStopsEscalation, [EscNext]_escVars
    PROVE  RowsPast' /\ AckStopsEscalation'
  <1>0. /\ EscTypeOK /\ \A s \in Sweeps : AtWork(s)
        /\ clock \in Nat /\ clock' \in Nat /\ clock <= clock'
        /\ \A a \in Alerts : \A k \in acks'[a] : k \in acks[a] \/ k.at = clock
    BY Growth DEF SweepInv
  <1>a. ASSUME NEW a \in Alerts, NEW i \in DOMAIN rows[a] PROVE rows[a][i].asOf \in Nat
    <2>1. rows[a] \in Seq(EscalationRow)
      BY <1>0 DEF EscTypeOK
    <2>2. rows[a][i] \in EscalationRow
      BY <2>1
    <2> QED  BY <2>2 DEF EscalationRow
  <1>1. CASE rows' = rows
    <2>1. RowsPast'
      BY <1>0, <1>1, <1>a DEF RowsPast
    <2>2. AckStopsEscalation'
      BY <1>0, <1>1 DEF RowsPast, AckStopsEscalation
    <2> QED  BY <2>1, <2>2
  <1>2. ASSUME NEW s \in Sweeps, FireTier(s) PROVE RowsPast' /\ AckStopsEscalation'
    <2>0. EscTypeOK /\ AtWork(s) /\ Before(s) /\ acks' = acks /\ clock' = clock
      BY <1>2 DEF SweepInv, FireTier, alertsTable
    <2>1. PICK a, t, n : AddsRow(s, a, t, n)
      BY <1>2, <2>0, FireEffect
    <2>2. /\ a \in Alerts /\ t \in Tiers(a) /\ n \in Nat
          /\ a = escSweep[s].alert /\ t \in escSweep[s].due
          /\ t \in Nat \ {0}
          /\ DOMAIN rows[a] = 1 .. n /\ DOMAIN rows'[a] = 1 .. n + 1
          /\ \A i \in 1 .. n : rows'[a][i] = rows[a][i]
          /\ rows'[a][n + 1] = [tier |-> t, asOf |-> escSweep[s].now]
          /\ \A b \in Alerts \ {a} : rows'[b] = rows[b]
      BY <2>1 DEF AddsRow
    <2>3. escSweep[s].now <= clock /\ \A k \in acks[a] : escSweep[s].now <= k.at
      BY <2>0, <2>2 DEF Before
    <2>4. ASSUME NEW i \in 1 .. n + 1
          PROVE  \/ rows'[a][i].asOf = escSweep[s].now
                 \/ i \in DOMAIN rows[a] /\ rows'[a][i] = rows[a][i]
      <3>1. i = n + 1 \/ i \in 1 .. n
        BY <2>2
      <3> QED  BY <2>2, <3>1
    <2>5. RowsPast'
      BY <2>0, <2>2, <2>3, <2>4 DEF RowsPast
    <2>6. AckStopsEscalation'
      BY <2>0, <2>2, <2>3, <2>4 DEF AckStopsEscalation
    <2> QED  BY <2>5, <2>6
  <1> QED  BY <1>1, <1>2, RowsChange

-----------------------------------------------------------------------------
\* The rows of a tier and the sweeps that hold it due are finite in number.
LEMMA CopiesFinite ==
    ASSUME EscTypeOK, NEW a \in Alerts, NEW t
    PROVE  /\ IsFiniteSet(Copies(a, t)) /\ Cardinality(Copies(a, t)) \in Nat
           /\ IsFiniteSet(Loaded(a, t)) /\ Cardinality(Loaded(a, t)) \in Nat
           /\ Cardinality(Loaded(a, t)) <= Cardinality(Sweeps) /\ Cardinality(Sweeps) \in Nat
  <1>1. Copies(a, t) \in SUBSET (1 .. Len(rows[a])) /\ Len(rows[a]) \in Int
    BY DEF EscTypeOK, Copies
  <1>2. IsFiniteSet(Copies(a, t))
    <2>1. IsFiniteSet(1 .. Len(rows[a]))
      BY <1>1, FS_Interval
    <2> QED  BY <1>1, <2>1, FS_Subset
  <1>3. Loaded(a, t) \in SUBSET Sweeps /\ IsFiniteSet(Sweeps)
    BY EscalationAssumption DEF Loaded
  <1>4. IsFiniteSet(Loaded(a, t)) /\ Cardinality(Loaded(a, t)) <= Cardinality(Sweeps)
    BY <1>3, FS_Subset
  <1> QED  BY <1>2, <1>3, <1>4, FS_CardinalityType

\* Sweeps come to hold a tier due only as long as it has no row.
LEMMA CopiesKept ==
    ASSUME EscTypeOK, EscTypeOK', rows' = rows, CopiesInv, NEW a \in Alerts, NEW t \in Tiers(a),
           \A g \in Sweeps : g \in Loaded(a, t)' => g \in Loaded(a, t) \/ t \notin Fired(a)
    PROVE  \/ Copies(a, t)' = {}
           \/ Cardinality(Copies(a, t)') + Cardinality(Loaded(a, t)') <= Cardinality(Sweeps)
  <1>1. Copies(a, t)' = Copies(a, t)
    BY DEF Copies
  <1>2. ASSUME Copies(a, t) # {}
        PROVE  Cardinality(Copies(a, t)) + Cardinality(Loaded(a, t)') <= Cardinality(Sweeps)
    <2>1. t \in Fired(a)
      BY <1>2 DEF Copies, Fired
    <2>2. Loaded(a, t)' \in SUBSET Loaded(a, t)
      BY <2>1 DEF Loaded
    <2>3. Cardinality(Loaded(a, t)') <= Cardinality(Loaded(a, t))
          /\ Cardinality(Loaded(a, t)') \in Nat
      BY <2>2, CopiesFinite, FS_Subset, FS_CardinalityType
    <2>4. Cardinality(Copies(a, t)) + Cardinality(Loaded(a, t)) <= Cardinality(Sweeps)
      BY <1>2 DEF CopiesInv
    <2> QED  BY <2>3, <2>4, CopiesFinite
  <1> QED  BY <1>1, <1>2

LEMMA CopiesStep ==
    ASSUME SweepInv, SweepInv', CopiesInv, [EscNext]_escVars
    PROVE  CopiesInv'
  <1>0. EscTypeOK /\ EscTypeOK' /\ \A s \in Sweeps : AtWork(s) /\ escSweep[s] \in Sweep
    BY SweepTypes DEF SweepInv
  <1> SUFFICES ASSUME NEW a \in Alerts, NEW t \in Tiers(a)
               PROVE  \/ Copies(a, t)' = {}
                      \/ Cardinality(Copies(a, t)') + Cardinality(Loaded(a, t)')
                           <= Cardinality(Sweeps)
    BY DEF CopiesInv
  <1>1. ASSUME rows' = rows,
               \A g \in Sweeps : g \in Loaded(a, t)' => g \in Loaded(a, t) \/ t \notin Fired(a)
        PROVE  \/ Copies(a, t)' = {}
               \/ Cardinality(Copies(a, t)') + Cardinality(Loaded(a, t)') <= Cardinality(Sweeps)
    BY <1>0, <1>1, CopiesKept
  <1>2. ASSUME NEW s \in Sweeps, NEW b \in Alerts, LoadAlert(s, b)
        PROVE  \A g \in Sweeps : g \in Loaded(a, t)' => g \in Loaded(a, t) \/ t \notin Fired(a)
    <2>1. ASSUME NEW g \in Sweeps, g # s PROVE escSweep'[g] = escSweep[g]
      BY <1>0, <1>2, <2>1 DEF LoadAlert, EscTypeOK
    <2>2. escSweep'[s].due = Due(s, b) /\ escSweep'[s].alert = b
      BY <1>0, <1>2 DEF LoadAlert, EscTypeOK, Sweep
    <2> QED  BY <2>1, <2>2 DEF Loaded, Due
  <1>3. ASSUME NEW s \in Sweeps,
               \/ BeginSweep(s) \/ EndSweep(s) \/ CrashSweep(s)
               \/ \E v \in DOMAIN Users : \E u \in Users[v] : PageUser(s, u)
        PROVE  \A g \in Sweeps : g \in Loaded(a, t)' => g \in Loaded(a, t)
    <2>1. ASSUME NEW g \in Sweeps, g # s PROVE escSweep'[g] = escSweep[g]
      BY <1>0, <1>3, <2>1 DEF BeginSweep, EndSweep, CrashSweep, PageUser, EscTypeOK
    <2>2. \/ escSweep'[s].due = {}
          \/ escSweep'[s].due = escSweep[s].due /\ escSweep'[s].alert = escSweep[s].alert
      <3>1. CASE BeginSweep(s) \/ EndSweep(s) \/ CrashSweep(s)
        <4>1. NoEscSweep.due = {} /\ escSweep \in [Sweeps -> Sweep]
          BY <1>0 DEF NoEscSweep, EscTypeOK
        <4>2. [NoEscSweep EXCEPT !.running = TRUE, !.now = clock, !.open = OpenAlerts].due = {}
          BY DEF NoEscSweep
        <4>3. BeginSweep(s) => escSweep'[s].due = {}
          BY <4>1, <4>2 DEF BeginSweep
        <4>4. EndSweep(s) \/ CrashSweep(s) => escSweep'[s].due = {}
          BY <4>1 DEF EndSweep, CrashSweep
        <4> QED  BY <3>1, <4>3, <4>4
      <3>2. CASE \E v \in DOMAIN Users : \E u \in Users[v] : PageUser(s, u)
        BY <1>0, <3>2 DEF PageUser, EscTypeOK, Sweep
      <3> QED  BY <1>3, <3>1, <3>2
    <2> QED  BY <2>1, <2>2 DEF Loaded
  <1>4. ASSUME NEW s \in Sweeps, FireTier(s)
        PROVE  \/ Copies(a, t)' = {}
               \/ Cardinality(Copies(a, t)') + Cardinality(Loaded(a, t)') <= Cardinality(Sweeps)
    <2>1. PICK b, f, n : AddsRow(s, b, f, n)
      BY <1>0, <1>4, FireEffect
    <2>2. /\ b \in Alerts /\ b = escSweep[s].alert /\ f \in escSweep[s].due
          /\ n \in Nat /\ DOMAIN rows[b] = 1 .. n /\ DOMAIN rows'[b] = 1 .. n + 1
          /\ \A i \in 1 .. n : rows'[b][i] = rows[b][i]
          /\ rows'[b][n + 1].tier = f
          /\ \A c \in Alerts \ {b} : rows'[c] = rows[c]
          /\ escSweep' = [escSweep EXCEPT ![s].due = @ \ {f}, ![s].tier = f, ![s].users = Users[f]]
      BY <2>1 DEF AddsRow
    <2>3. /\ \A g \in Sweeps : g # s => escSweep'[g] = escSweep[g]
          /\ escSweep'[s].due = escSweep[s].due \ {f} /\ escSweep'[s].alert = b
      BY <1>0, <2>2 DEF EscTypeOK, Sweep
    <2>4. CASE a = b /\ t = f
      <3>1. Loaded(a, t)' = Loaded(a, t) \ {s} /\ s \in Loaded(a, t)
        <4>1. s \in Loaded(a, t) /\ s \notin Loaded(a, t)'
          BY <2>2, <2>3, <2>4 DEF Loaded
        <4>2. \A g \in Sweeps \ {s} : g \in Loaded(a, t)' <=> g \in Loaded(a, t)
          BY <2>3 DEF Loaded
        <4>3. Loaded(a, t)' \subseteq Sweeps /\ Loaded(a, t) \subseteq Sweeps
          BY DEF Loaded
        <4> QED  BY <4>1, <4>2, <4>3
      <3>2. Copies(a, t)' = Copies(a, t) \cup {n + 1}
        <4>1. \A i \in 1 .. n + 1 : i \in 1 .. n \/ i = n + 1
          BY <2>2
        <4>2. \A i \in 1 .. n : i \in 1 .. n + 1
          BY <2>2
        <4>3. n + 1 \in 1 .. n + 1
          BY <2>2
        <4> QED  BY <2>2, <2>4, <4>1, <4>2, <4>3 DEF Copies
      <3>3. n + 1 \notin Copies(a, t)
        BY <2>2, <2>4 DEF Copies
      <3>4. /\ Cardinality(Copies(a, t)') = Cardinality(Copies(a, t)) + 1
            /\ Cardinality(Loaded(a, t)') = Cardinality(Loaded(a, t)) - 1
        <4>1. IsFiniteSet(Copies(a, t)) /\ IsFiniteSet(Loaded(a, t))
          BY <1>0, CopiesFinite
        <4> QED  BY <3>1, <3>2, <3>3, <4>1, FS_AddElement, FS_RemoveElement
      <3>5. Copies(a, t) = {} => Cardinality(Copies(a, t)) = 0
        BY FS_EmptySet
      <3>6. Copies(a, t) = {} \/ Cardinality(Copies(a, t)) + Cardinality(Loaded(a, t))
                                   <= Cardinality(Sweeps)
        BY DEF CopiesInv
      <3> QED  BY <1>0, <3>4, <3>5, <3>6, CopiesFinite
    <2>5. CASE ~(a = b /\ t = f)
      <3>1. Copies(a, t)' = Copies(a, t)
        <4>1. CASE a # b
          BY <2>2, <4>1 DEF Copies
        <4>2. CASE a = b /\ t # f
          <5>1. \A i \in 1 .. n + 1 : i \in 1 .. n \/ i = n + 1
            BY <2>2
          <5>2. \A i \in 1 .. n : i \in 1 .. n + 1
            BY <2>2
          <5>3. rows'[a][n + 1].tier # t
            BY <2>2, <4>2
          <5>4. \A i \in 1 .. n : rows'[a][i] = rows[a][i]
            BY <2>2, <4>2
          <5>5. DOMAIN rows[a] = 1 .. n /\ DOMAIN rows'[a] = 1 .. n + 1
            BY <2>2, <4>2
          <5> QED  BY <5>1, <5>2, <5>3, <5>4, <5>5 DEF Copies
        <4> QED  BY <2>5, <4>1, <4>2
      <3>2. Loaded(a, t)' = Loaded(a, t)
        BY <2>2, <2>3, <2>5 DEF Loaded
      <3> QED  BY <3>1, <3>2 DEF CopiesInv
    <2> QED  BY <2>4, <2>5
  <1>5. CASE \/ Tick \/ UNCHANGED escVars \/ \E b \in Alerts : Raise(b) \/ Recover(b)
             \/ \E o \in Operators : Acknowledge(o) \/ \E b \in Alerts : ReadForAck(o, b)
    BY <1>1, <1>5 DEF Tick, escVars, Raise, Recover, Acknowledge, ReadForAck, Loaded
  <1>6. ASSUME NEW s \in Sweeps, NEW b \in Alerts, LoadAlert(s, b)
        PROVE  \/ Copies(a, t)' = {}
               \/ Cardinality(Copies(a, t)') + Cardinality(Loaded(a, t)') <= Cardinality(Sweeps)
    BY <1>1, <1>2, <1>6 DEF LoadAlert
  <1>7. ASSUME NEW s \in Sweeps,
               \/ BeginSweep(s) \/ EndSweep(s) \/ CrashSweep(s)
               \/ \E v \in DOMAIN Users : \E u \in Users[v] : PageUser(s, u)
        PROVE  \/ Copies(a, t)' = {}
               \/ Cardinality(Copies(a, t)') + Cardinality(Loaded(a, t)') <= Cardinality(Sweeps)
    <2>1. rows' = rows
      BY <1>7 DEF BeginSweep, EndSweep, CrashSweep, PageUser
    <2> QED  BY <1>1, <1>3, <1>7, <2>1
  <1> QED  BY <1>4, <1>5, <1>6, <1>7 DEF EscNext, EscSweepStep

-----------------------------------------------------------------------------
\* A pair is lost when its tier has fired, some user is not paged, and no sweep
\* is paging.
IsLost(a, t) ==
    /\ a \in Alerts /\ t \in Fired(a)
    /\ \E u \in Users[t] : <<a, t, u>> \notin pages
    /\ ~\E s \in Sweeps : escSweep[s].users # {} /\ escSweep[s].alert = a /\ escSweep[s].tier = t

LEMMA LostMeans ==
    ASSUME NEW a, NEW t
    PROVE  (<<a, t>> \in Lost <=> IsLost(a, t)) /\ (<<a, t>> \in Lost <=> IsLost(a, t))'
  <1>1. <<a, t>> \in Unpaged <=>
          a \in Alerts /\ t \in Fired(a) /\ \E u \in Users[t] : <<a, t, u>> \notin pages
    BY DEF Unpaged
  <1>2. <<a, t>> \in Paging <=>
          \E s \in Sweeps : escSweep[s].users # {} /\ escSweep[s].alert = a /\ escSweep[s].tier = t
    BY DEF Paging
  <1>3. <<a, t>> \in Unpaged' <=>
          a \in Alerts /\ t \in Fired(a)' /\ \E u \in Users[t] : <<a, t, u>> \notin pages'
    BY DEF Unpaged
  <1>4. <<a, t>> \in Paging' <=>
          \E s \in Sweeps : escSweep'[s].users # {} /\ escSweep'[s].alert = a /\ escSweep'[s].tier = t
    BY DEF Paging
  <1> QED  BY <1>1, <1>2, <1>3, <1>4 DEF Lost, IsLost

LEMMA LostArePairs == \A x \in Lost' : \E a, t : x = <<a, t>>
  BY DEF Lost, Unpaged

\* No step but a death loses a pair.
LEMMA LostKept ==
    ASSUME SweepInv, SweepInv', [EscNext]_escVars, \A s \in Sweeps : ~CrashSweep(s)
    PROVE  Lost' \subseteq Lost
  <1>0. /\ EscTypeOK /\ \A s \in Sweeps : AtWork(s) /\ escSweep[s] \in Sweep
        /\ pages \subseteq pages'
    <2>1. EscTypeOK /\ \A s \in Sweeps : AtWork(s)
      BY DEF SweepInv
    <2> QED  BY <2>1, SweepTypes, Growth
  <1> SUFFICES ASSUME NEW a, NEW t, <<a, t>> \in Lost' PROVE <<a, t>> \in Lost
    BY LostArePairs
  <1>1. /\ a \in Alerts /\ t \in Fired(a)'
        /\ \E u \in Users[t] : <<a, t, u>> \notin pages'
        /\ ~\E s \in Sweeps : escSweep'[s].users # {} /\ escSweep'[s].alert = a /\ escSweep'[s].tier = t
    BY LostMeans DEF IsLost
  <1>2. PICK u \in Users[t] : <<a, t, u>> \notin pages'
    BY <1>1
  <1>3. <<a, t, u>> \notin pages
    BY <1>0, <1>2
  <1>4. ASSUME t \notin Fired(a) PROVE FALSE
    <2>1. PICK s \in Sweeps : FireTier(s)
      BY <1>1, <1>4, RowsChange DEF Fired
    <2>2. PICK b, f, n : AddsRow(s, b, f, n)
      BY <1>0, <2>1, FireEffect
    <2>3. a = b /\ t = f
      <3>1. a # b => rows'[a] = rows[a]
        BY <1>1, <2>2 DEF AddsRow
      <3>2. a = b
        BY <1>1, <1>4, <3>1 DEF Fired
      <3> QED  BY <1>1, <1>4, <2>2, <3>2 DEF AddsRow
    <2>4. escSweep'[s].users = Users[t] /\ escSweep'[s].alert = a /\ escSweep'[s].tier = t
      BY <1>0, <2>2, <2>3 DEF AddsRow, EscTypeOK, Sweep
    <2> QED  BY <1>1, <1>2, <2>4
  <1>5. ASSUME NEW s \in Sweeps, escSweep[s].users # {}, escSweep[s].alert = a, escSweep[s].tier = t
        PROVE  FALSE
    <2>1. CASE escSweep'[s] = escSweep[s]
      BY <1>1, <1>5, <2>1
    <2>2. CASE \E v \in DOMAIN Users : \E w \in Users[v] : PageUser(s, w)
      <3>1. PICK w : PageUser(s, w)
        BY <2>2
      <3>2. /\ escSweep'[s].alert = a /\ escSweep'[s].tier = t
            /\ escSweep'[s].users = escSweep[s].users \ {w} /\ pages' = pages \cup {<<a, t, w>>}
        BY <1>0, <1>5, <3>1 DEF PageUser, EscTypeOK, Sweep
      <3>3. escSweep'[s].users = {}
        BY <1>1, <3>2
      <3>4. u = w \/ <<a, t, u>> \in pages
        BY <1>0, <1>2, <1>5, <3>2, <3>3 DEF AtWork
      <3> QED  BY <1>2, <1>3, <3>2, <3>4
    <2>3. \/ escSweep'[s] = escSweep[s]
          \/ \E v \in DOMAIN Users : \E w \in Users[v] : PageUser(s, w)
      <3>1. ASSUME NEW r \in Sweeps, r # s, EscSweepStep(r) PROVE escSweep'[s] = escSweep[s]
        BY <1>0, <3>1 DEF EscSweepStep, BeginSweep, LoadAlert, FireTier, PageUser, EndSweep, EscTypeOK
      <3>2. CASE EscSweepStep(s)
        <4>1. escSweep[s].running \/ escSweep[s].users = {}
          BY <1>0 DEF AtWork
        <4> QED  BY <1>5, <3>2, <4>1 DEF EscSweepStep, BeginSweep, LoadAlert, FireTier, EndSweep
      <3>3. CASE UNCHANGED escSweep
        BY <3>3
      <3> QED  BY <3>1, <3>2, <3>3 DEF EscNext, Tick, Raise, Recover, Acknowledge, ReadForAck, escVars
    <2> QED  BY <2>1, <2>2, <2>3
  <1> QED  BY <1>1, <1>3, <1>4, <1>5, LostMeans DEF IsLost

\* A death loses the tier at hand at most.
LEMMA LostByDeath ==
    ASSUME SweepInv, NEW s \in Sweeps, CrashSweep(s)
    PROVE  \E x : Lost' \subseteq Lost \cup {x}
  <1>1. PICK x : x = <<escSweep[s].alert, escSweep[s].tier>>
    OBVIOUS
  <1>2. /\ \A r \in Sweeps \ {s} : escSweep'[r] = escSweep[r]
        /\ rows' = rows /\ pages' = pages
    BY DEF CrashSweep, SweepInv, EscTypeOK
  <1>3. ASSUME NEW a, NEW t, <<a, t>> \in Lost', <<a, t>> # x PROVE <<a, t>> \in Lost
    <2>1. IsLost(a, t)'
      BY <1>3, LostMeans
    <2>2. ~(escSweep[s].alert = a /\ escSweep[s].tier = t)
      BY <1>1, <1>3
    <2>3. IsLost(a, t)
      BY <1>2, <2>1, <2>2 DEF IsLost, Fired
    <2> QED  BY <2>3, LostMeans
  <1>4. Lost' \subseteq Lost \cup {x}
    BY <1>3, LostArePairs
  <1> QED  BY <1>4

LEMMA LostStep ==
    ASSUME SweepInv, SweepInv', LostInv, [EscNext]_escVars
    PROVE  LostInv'
  <1>0. escCrashes \in Nat /\ escCrashes' \in Nat /\ Cardinality(Lost) \in Nat
    BY FS_CardinalityType DEF SweepInv, EscTypeOK, LostInv
  <1>1. ASSUME NEW s \in Sweeps, CrashSweep(s) PROVE LostInv'
    <2>1. PICK x : Lost' \subseteq Lost \cup {x}
      BY <1>1, LostByDeath
    <2>2. /\ IsFiniteSet(Lost \cup {x}) /\ Cardinality(Lost \cup {x}) \in Nat
          /\ Cardinality(Lost \cup {x}) <= Cardinality(Lost) + 1
      <3>1. IsFiniteSet(Lost)
        BY DEF LostInv
      <3>2. /\ IsFiniteSet(Lost \cup {x})
            /\ \/ Cardinality(Lost \cup {x}) = Cardinality(Lost)
               \/ Cardinality(Lost \cup {x}) = Cardinality(Lost) + 1
        BY <3>1, FS_AddElement
      <3> QED  BY <1>0, <3>2
    <2>3. /\ IsFiniteSet(Lost') /\ Cardinality(Lost') \in Nat
          /\ Cardinality(Lost') <= Cardinality(Lost \cup {x})
      BY <2>1, <2>2, FS_Subset, FS_CardinalityType
    <2>4. escCrashes' = escCrashes + 1 /\ Cardinality(Lost) <= escCrashes
      BY <1>1 DEF CrashSweep, LostInv
    <2>5. Cardinality(Lost') <= escCrashes'
      BY <1>0, <2>2, <2>3, <2>4
    <2> QED  BY <2>3, <2>5 DEF LostInv
  <1>2. CASE \A s \in Sweeps : ~CrashSweep(s)
    <2>1. Lost' \subseteq Lost
      BY <1>2, LostKept
    <2>2. IsFiniteSet(Lost') /\ Cardinality(Lost') <= Cardinality(Lost)
          /\ Cardinality(Lost') \in Nat
      BY <2>1, FS_Subset, FS_CardinalityType DEF LostInv
    <2>3. escCrashes' = escCrashes
      BY <1>2 DEF EscNext, Tick, Raise, Recover, Acknowledge, ReadForAck, EscSweepStep, BeginSweep,
             LoadAlert, FireTier, PageUser, EndSweep, escVars
    <2>4. Cardinality(Lost) <= escCrashes
      BY DEF LostInv
    <2>5. Cardinality(Lost') <= escCrashes'
      BY <1>0, <2>2, <2>3, <2>4
    <2> QED  BY <2>2, <2>5 DEF LostInv
  <1> QED  BY <1>1, <1>2

-----------------------------------------------------------------------------
LEMMA EscInit_Inv == EscInit => EscInv
  <1> SUFFICES ASSUME EscInit PROVE EscInv
    OBVIOUS
  <1>1. \A a \in Alerts : rows[a] = << >> /\ DOMAIN rows[a] = {} /\ Fired(a) = {}
    BY DEF EscInit, Fired
  <1>2. LadderInOrder /\ RowsPast /\ AckStopsEscalation
    BY <1>1 DEF LadderInOrder, RowsPast, AckStopsEscalation
  <1>3. CopiesInv
    BY <1>1 DEF CopiesInv, Copies
  <1>4. LostInv
    <2>1. Lost = {}
      BY <1>1 DEF Lost, Unpaged
    <2>2. escCrashes = 0
      BY DEF EscInit
    <2> QED  BY <2>1, <2>2, FS_EmptySet DEF LostInv
  <1> QED  BY <1>2, <1>3, <1>4, EscInitInv DEF EscInv

LEMMA EscStep_Inv == EscInv /\ [EscNext]_escVars => EscInv'
  <1> SUFFICES ASSUME EscInv, [EscNext]_escVars PROVE EscInv'
    OBVIOUS
  <1>1. SweepInv /\ SweepInv'
    BY SweepInvStep DEF EscInv
  <1>2. LadderInOrder' /\ RowsPast' /\ AckStopsEscalation'
    BY <1>1, LadderStep, AckStep DEF EscInv
  <1>3. CopiesInv' /\ LostInv'
    BY <1>1, CopiesStep, LostStep DEF EscInv
  <1> QED  BY <1>1, <1>2, <1>3 DEF EscInv

LEMMA EscInvariant == EscSpec => []EscInv
  <1> QED  BY EscInit_Inv, EscStep_Inv, PTL DEF EscSpec

\* The tables, the pages on the broker and the sweeps stay well-typed.
THEOREM EscalationTypes == EscSpec => []EscTypeOK
  <1>1. EscInv => EscTypeOK
    BY DEF EscInv, SweepInv
  <1> QED  BY <1>1, EscInvariant, PTL

\* Sweeps that overlap, or die between tiers, climb the chain from the bottom.
THEOREM LadderCorrect == EscSpec => []LadderInOrder
  <1>1. EscInv => LadderInOrder
    BY DEF EscInv
  <1> QED  BY <1>1, EscInvariant, PTL

\* No sweep that begins after an acknowledgement escalates the alert.
THEOREM AckCorrect == EscSpec => []AckStopsEscalation
  <1>1. EscInv => AckStopsEscalation
    BY DEF EscInv
  <1> QED  BY <1>1, EscInvariant, PTL

\* A tier is escalated at most once for every sweep that can run at a time.
THEOREM DuplicatesCorrect == EscSpec => []FewDuplicates
  <1>1. EscInv => FewDuplicates
    <2> SUFFICES ASSUME EscInv, NEW a \in Alerts, NEW t \in Tiers(a)
                 PROVE  Cardinality(Copies(a, t)) <= Cardinality(Sweeps)
      BY DEF FewDuplicates, Copies
    <2>1. Copies(a, t) = {} => Cardinality(Copies(a, t)) = 0
      BY FS_EmptySet
    <2>2. Copies(a, t) = {} \/ Cardinality(Copies(a, t)) + Cardinality(Loaded(a, t))
                                 <= Cardinality(Sweeps)
      BY DEF EscInv, CopiesInv
    <2>3. EscTypeOK
      BY DEF EscInv, SweepInv
    <2> QED  BY <2>1, <2>2, <2>3, CopiesFinite
  <1> QED  BY <1>1, EscInvariant, PTL

\* A death of a sweep loses the pages of one tier at most.
THEOREM PagesCorrect == EscSpec => []OnlyCrashesLosePages
  <1>1. EscInv => OnlyCrashesLosePages
    BY DEF EscInv, LostInv, Lost, OnlyCrashesLosePages
  <1> QED  BY <1>1, EscInvariant, PTL
=============================================================================
