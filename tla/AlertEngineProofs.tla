-------------------------- MODULE AlertEngineProofs -------------------------
(***************************************************************************)
(* Proofs about AlertEngine, for every set of devices, handlers and        *)
(* recipients, every parent relation and storm window, and any deaths.     *)
(*                                                                         *)
(* The argument: an event has at most one handler, which carries it from   *)
(* its commit to the alert's; only a death takes it away.  Of the outages  *)
(* behind one NVR that are close to each other, those that find no alert   *)
(* to join are all being handled when the last of them looks.              *)
(***************************************************************************)
EXTENDS AlertEngine, FiniteSetTheorems, SequenceTheorems, TLAPS

\* The state that event i of d leaves.
Before(d, i) == IF i = 1 THEN "UNKNOWN" ELSE events[d][i - 1].new

Leaving(state) == IF state = "MAINTENANCE" THEN "UNKNOWN" ELSE state

ChainInv ==
    \A d \in Devices : \A i \in DOMAIN events[d] :
        events[d][i].old = Leaving(Before(d, i))

At(t) == <<t.device, t.nth>>

\* What a handler has in hand, at every stage.
HandlerOK(h) ==
    IF pc[h] = "idle" THEN txn[h] = NoTxn
    ELSE /\ txn[h] \in Alert
         /\ txn[h].nth \in DOMAIN events[txn[h].device]
         /\ IF pc[h] = "told" THEN txn[h].id = 0
            ELSE /\ txn[h].id # 0 /\ txn[h].seen <= clock
                 /\ AlertWorthy(EventOf(txn[h]))
                 /\ txn[h].type = "DOWN" => txn[h].group # NoGroup
                 /\ txn[h].type = "RECOVERY" => txn[h].group = NoGroup

HandlersInv ==
    /\ \A h \in Handlers : HandlerOK(h)
    /\ \A g, h \in Handlers : g # h /\ pc[g] # "idle" /\ pc[h] # "idle" =>
         At(txn[g]) # At(txn[h])
    /\ nextId # 0

\* What holds of an alert row since its handler committed it.
AlertsInv ==
    \A a \in alerts : /\ a.seen <= clock /\ a.id # 0
                      /\ a.type = "DOWN" => a.group # NoGroup
                      /\ a.type = "RECOVERY" => a.group = NoGroup

BaseInv == TypeOK /\ ChainInv /\ HandlersInv /\ AlertsInv

-----------------------------------------------------------------------------
\* The effect of a step on what a handler has in hand.
Others(h) ==
    \A g \in Handlers \ {h} : pc'[g] = pc[g] /\ txn'[g] = txn[g] /\ todo'[g] = todo[g]

Tells(h, d, n, e) ==
    /\ d \in Devices /\ n = Len(events[d]) /\ n \in Nat /\ e \in Event
    /\ e.old = Leaving(Before(d, n + 1))
    /\ DOMAIN events[d] = 1 .. n /\ DOMAIN events'[d] = 1 .. n + 1
    /\ events'[d][n + 1] = e /\ \A i \in 1 .. n : events'[d][i] = events[d][i]
    /\ \A c \in Devices \ {d} : events'[c] = events[c]
    /\ pc[h] = "idle" /\ pc'[h] = "told" /\ txn'[h] \in Alert
    /\ txn'[h].id = 0 /\ txn'[h].device = d /\ txn'[h].nth = n + 1

LEMMA StatusEventEffect ==
    ASSUME BaseInv, NEW h \in Handlers, NEW d \in Devices, NEW new \in NewStates[d],
           StatusEvent(h, d, new)
    PROVE  \E n, e : Tells(h, d, n, e)
  <1> USE AlertEngineAssumption
  <1>1. PICK n : n = Len(events[d])
    OBVIOUS
  <1>2. PICK old : old = IF Shown(d) = "MAINTENANCE" THEN "UNKNOWN" ELSE Shown(d)
    OBVIOUS
  <1>3. PICK s \in BOOLEAN : s = (/\ new = "DOWN"
                                  /\ Parent[d] # NoDevice
                                  /\ Shown(Parent[d]) = "DOWN")
    OBVIOUS
  <1>4. PICK e : e = [old |-> old, new |-> new, suppressed |-> s]
    OBVIOUS
  <1>5. events[d] \in Seq(Event) /\ n \in Nat /\ DOMAIN events[d] = 1 .. n
    BY <1>1 DEF BaseInv, TypeOK
  <1>6. Shown(d) = Before(d, n + 1) /\ Shown(d) \in State
    <2>1. CASE n = 0
      <3>1. events[d] = << >>
        BY <1>1, <1>5, <2>1, EmptySeq
      <3>2. n + 1 = 1
        BY <2>1
      <3> QED  BY <3>1, <3>2 DEF Shown, Before, State
    <2>2. CASE n # 0
      <3>1. n \in DOMAIN events[d] /\ events[d] # << >> /\ n + 1 # 1 /\ (n + 1) - 1 = n
        BY <1>1, <1>5, <2>2
      <3>2. events[d][n] \in Event
        BY <1>5, <3>1
      <3> QED  BY <1>1, <3>1, <3>2 DEF Shown, Before, Event
    <2> QED  BY <2>1, <2>2
  <1>7. e \in Event /\ e.old = Leaving(Before(d, n + 1))
    BY <1>2, <1>3, <1>4, <1>6 DEF Event, State, Leaving
  <1>8. events' = [events EXCEPT ![d] = Append(events[d], e)]
    BY <1>2, <1>3, <1>4 DEF StatusEvent
  <1>9. events'[d] = Append(events[d], e) /\ \A c \in Devices \ {d} : events'[c] = events[c]
    BY <1>8 DEF BaseInv, TypeOK
  <1>10. /\ DOMAIN events'[d] = 1 .. n + 1 /\ Len(events'[d]) = n + 1
         /\ events'[d][n + 1] = e /\ \A i \in 1 .. n : events'[d][i] = events[d][i]
    BY <1>1, <1>5, <1>7, <1>9
  <1>11. /\ pc[h] = "idle" /\ pc'[h] = "told" /\ clock \in Nat
         /\ txn'[h] = [NoTxn EXCEPT !.device = d, !.nth = n + 1, !.created = clock]
    BY <1>10 DEF StatusEvent, BaseInv, TypeOK
  <1>12. /\ txn'[h] \in Alert /\ txn'[h].id = 0 /\ txn'[h].device = d
         /\ txn'[h].nth = n + 1
    <2>1. txn'[h] = [id |-> 0, device |-> d, nth |-> n + 1, type |-> "DOWN",
                     group |-> 0, created |-> clock, seen |-> 0]
      BY <1>11 DEF NoTxn, NoGroup
    <2>2. n + 1 \in Nat /\ clock \in Nat
      BY <1>5, <1>11
    <2> QED  BY <2>1, <2>2 DEF Alert
  <1>13. Tells(h, d, n, e)
    BY <1>1, <1>5, <1>7, <1>9, <1>10, <1>11, <1>12 DEF Tells
  <1> QED  BY <1>13

\* The group a handler finds is a sibling's, or new.
LEMMA GroupsFound ==
    ASSUME BaseInv, NEW d \in Devices, NEW g \in Groups(d)
    PROVE  /\ g \in Nat \ {NoGroup}
           /\ \/ /\ g = nextId
                 /\ Parent[d] = NoDevice \/ SiblingAlerts(d) = {}
              \/ /\ Parent[d] # NoDevice
                 /\ \E a \in SiblingAlerts(d) : g = a.group
  <1>1. nextId \in Nat /\ nextId # 0 /\ alerts \subseteq Alert
    BY DEF BaseInv, TypeOK, HandlersInv
  <1>2. CASE Parent[d] = NoDevice \/ SiblingAlerts(d) = {}
    BY <1>1, <1>2 DEF Groups, NoGroup
  <1>3. CASE Parent[d] # NoDevice /\ SiblingAlerts(d) # {}
    <2>1. PICK a \in SiblingAlerts(d) : g = a.group
      BY <1>3 DEF Groups
    <2>2. a.group \in Nat /\ a.group # NoGroup
      BY <1>1, <2>1 DEF SiblingAlerts, Alert
    <2> QED  BY <1>3, <2>1, <2>2
  <1> QED  BY <1>2, <1>3

Raises(h, g) ==
    /\ pc[h] = "told" /\ pc'[h] = "notifying" /\ todo'[h] = Recipients
    /\ AlertWorthy(EventOf(txn[h])) /\ nextId' = nextId + 1
    /\ txn'[h] \in Alert
    /\ txn'[h].id = nextId /\ txn'[h].device = txn[h].device /\ txn'[h].nth = txn[h].nth
    /\ txn'[h].created = txn[h].created /\ txn'[h].seen = clock /\ txn'[h].group = g
    /\ \/ txn'[h].type = "RECOVERY" /\ g = NoGroup
       \/ txn'[h].type = "DOWN" /\ g \in Groups(txn[h].device)

LEMMA RaiseEffect ==
    ASSUME BaseInv, NEW h \in Handlers, RaiseAlert(h)
    PROVE  \E g : Raises(h, g)
  <1>1. PICK t : t = txn[h]
    OBVIOUS
  <1>2. PICK r \in BOOLEAN : r = IsRecovery(EventOf(t))
    BY DEF IsRecovery
  <1>3. PICK type : type = IF r THEN "RECOVERY" ELSE "DOWN"
    OBVIOUS
  <1>4. /\ pc[h] = "told" /\ t \in Alert /\ nextId \in Nat /\ clock \in Nat
        /\ t.device \in Devices
    BY <1>1 DEF RaiseAlert, BaseInv, TypeOK, HandlersInv, HandlerOK, Alert
  <1>5. PICK g \in IF r THEN {NoGroup} ELSE Groups(t.device) :
              txn' = [txn EXCEPT ![h] =
                        [t EXCEPT !.id = nextId, !.type = type, !.group = g, !.seen = clock]]
    BY <1>1, <1>2, <1>3 DEF RaiseAlert
  <1>6. g \in Nat
    BY <1>4, <1>5, GroupsFound DEF NoGroup
  <1>7. txn'[h] = [t EXCEPT !.id = nextId, !.type = type, !.group = g, !.seen = clock]
    BY <1>5 DEF BaseInv, TypeOK
  <1>8. /\ txn'[h] \in Alert
        /\ txn'[h].id = nextId /\ txn'[h].device = t.device /\ txn'[h].nth = t.nth
        /\ txn'[h].created = t.created /\ txn'[h].seen = clock /\ txn'[h].group = g
        /\ txn'[h].type = type
    BY <1>3, <1>4, <1>6, <1>7 DEF Alert
  <1>9. \/ type = "RECOVERY" /\ g = NoGroup
        \/ type = "DOWN" /\ g \in Groups(t.device)
    BY <1>2, <1>3, <1>5
  <1>10. /\ pc'[h] = "notifying" /\ todo'[h] = Recipients
         /\ AlertWorthy(EventOf(txn[h])) /\ nextId' = nextId + 1
    BY DEF RaiseAlert, BaseInv, TypeOK
  <1>11. Raises(h, g)
    BY <1>1, <1>4, <1>8, <1>9, <1>10 DEF Raises
  <1> QED  BY <1>11

\* The steps that end a handler's work: nothing to tell, commit or death.
Frees(h) ==
    /\ pc'[h] = "idle" /\ txn'[h] = NoTxn
    /\ UNCHANGED <<clock, events, nextId>>

EventsGrow ==
    \A d \in Devices : \A i \in DOMAIN events[d] :
        i \in DOMAIN events'[d] /\ events'[d][i] = events[d][i]

\* Every step, by what it does to the handlers.
LEMMA Steps ==
    ASSUME BaseInv, [Next]_vars
    PROVE  \/ UNCHANGED vars \/ Tick
           \/ \E h \in Handlers : \E d, n, e :
                 /\ Tells(h, d, n, e) /\ Others(h)
                 /\ UNCHANGED <<clock, alerts, jobs, nextId, todo, crashes>>
           \/ \E h \in Handlers : Ignore(h) /\ Frees(h) /\ Others(h)
           \/ \E h \in Handlers : \E g :
                 /\ Raises(h, g) /\ Others(h)
                 /\ UNCHANGED <<clock, events, alerts, jobs, crashes>>
           \/ \E h \in Handlers : \E r \in Recipients : EnqueueNotification(h, r)
           \/ \E h \in Handlers : CommitAlert(h) /\ Frees(h) /\ Others(h)
           \/ \E h \in Handlers : Crash(h) /\ Frees(h) /\ Others(h)
  <1> USE DEF Others, Frees
  <1>0. /\ pc \in [Handlers -> Stage] /\ todo \in [Handlers -> SUBSET Recipients]
        /\ txn \in [Handlers -> Alert \cup {NoTxn}]
    BY DEF BaseInv, TypeOK
  <1>1. ASSUME NEW h \in Handlers, NEW d \in Devices, NEW new \in NewStates[d],
               StatusEvent(h, d, new)
        PROVE  \E n, e : /\ Tells(h, d, n, e) /\ Others(h)
                         /\ UNCHANGED <<clock, alerts, jobs, nextId, todo, crashes>>
    <2>1. PICK n, e : Tells(h, d, n, e)
      BY <1>1, StatusEventEffect
    <2>2. /\ Others(h)
          /\ UNCHANGED <<clock, alerts, jobs, nextId, todo, crashes>>
      BY <1>0, <1>1 DEF StatusEvent
    <2> QED  BY <2>1, <2>2
  <1>2. ASSUME NEW h \in Handlers, Ignore(h) PROVE Frees(h) /\ Others(h)
    BY <1>0, <1>2 DEF Ignore
  <1>3. ASSUME NEW h \in Handlers, RaiseAlert(h)
        PROVE  \E g : /\ Raises(h, g) /\ Others(h)
                      /\ UNCHANGED <<clock, events, alerts, jobs, crashes>>
    <2>1. PICK g : Raises(h, g)
      BY <1>3, RaiseEffect
    <2>2. /\ Others(h)
          /\ UNCHANGED <<clock, events, alerts, jobs, crashes>>
      BY <1>0, <1>3 DEF RaiseAlert
    <2> QED  BY <2>1, <2>2
  <1>4. ASSUME NEW h \in Handlers, CommitAlert(h) PROVE Frees(h) /\ Others(h)
    BY <1>0, <1>4 DEF CommitAlert
  <1>5. ASSUME NEW h \in Handlers, Crash(h) PROVE Frees(h) /\ Others(h)
    BY <1>0, <1>5 DEF Crash
  <1> QED  BY <1>1, <1>2, <1>3, <1>4, <1>5 DEF Next

LEMMA TypeStep ==
    ASSUME BaseInv, [Next]_vars
    PROVE  TypeOK'
  <1> USE DEF BaseInv, TypeOK
  <1>0. NoTxn = NoTxn' /\ Stage = Stage'
    OBVIOUS
  <1>1. ASSUME NEW h \in Handlers, NEW d \in Devices, NEW new \in NewStates[d],
               StatusEvent(h, d, new)
        PROVE  TypeOK'
    <2>1. PICK n, e : Tells(h, d, n, e)
      BY <1>1, StatusEventEffect
    <2>2. \E x \in Event : events' = [events EXCEPT ![d] = Append(@, x)]
      <3>1. PICK x : events' = [events EXCEPT ![d] = Append(@, x)]
        BY <1>1 DEF StatusEvent
      <3>2. events[d] \in Seq(Event) /\ events'[d] = Append(events[d], x)
        BY <3>1
      <3>3. x = e
        BY <2>1, <3>2 DEF Tells
      <3> QED  BY <2>1, <3>1, <3>3 DEF Tells
    <2>3. events' \in [Devices -> Seq(Event)]
      BY <2>2
    <2>4. txn'[h] \in Alert /\ DOMAIN txn' = Handlers
          /\ \A g \in Handlers \ {h} : txn'[g] = txn[g]
      BY <1>1, <2>1 DEF StatusEvent, Tells
    <2>5. txn' \in [Handlers -> Alert \cup {NoTxn}]
      BY <1>1, <2>4 DEF StatusEvent
    <2>6. pc' \in [Handlers -> Stage]
      BY <1>1 DEF StatusEvent, Stage
    <2> QED  BY <1>1, <2>3, <2>5, <2>6 DEF StatusEvent
  <1>2. ASSUME NEW h \in Handlers, Ignore(h) PROVE TypeOK'
    BY <1>2 DEF Ignore, Stage
  <1>3. ASSUME NEW h \in Handlers, RaiseAlert(h) PROVE TypeOK'
    <2>1. PICK g : Raises(h, g)
      BY <1>3, RaiseEffect
    <2>2. txn'[h] \in Alert /\ \A k \in Handlers \ {h} : txn'[k] = txn[k]
      BY <1>3, <2>1 DEF RaiseAlert, Raises
    <2>3. txn' \in [Handlers -> Alert \cup {NoTxn}]
      BY <1>3, <2>2 DEF RaiseAlert
    <2>4. pc' \in [Handlers -> Stage] /\ todo' \in [Handlers -> SUBSET Recipients]
          /\ nextId' \in Nat
      BY <1>3 DEF RaiseAlert, Stage
    <2> QED  BY <1>3, <2>3, <2>4 DEF RaiseAlert
  <1>4. ASSUME NEW h \in Handlers, NEW r \in Recipients, EnqueueNotification(h, r)
        PROVE  TypeOK'
    <2>1. txn[h].id \in Nat
      BY DEF Alert, NoTxn
    <2>2. jobs' \subseteq Nat \X Recipients
      BY <1>4, <2>1 DEF EnqueueNotification
    <2> QED  BY <1>4, <2>2 DEF EnqueueNotification
  <1>5. ASSUME NEW h \in Handlers, CommitAlert(h) PROVE TypeOK'
    <2>1. txn[h] \in Alert
      BY <1>5 DEF CommitAlert, HandlersInv, HandlerOK
    <2> QED  BY <1>5, <2>1 DEF CommitAlert, Stage
  <1>6. ASSUME NEW h \in Handlers, Crash(h) PROVE TypeOK'
    BY <1>6 DEF Crash, Stage
  <1>7. CASE Tick
    BY <1>7 DEF Tick
  <1>8. CASE UNCHANGED vars
    BY <1>8 DEF vars
  <1> QED  BY <1>1, <1>2, <1>3, <1>4, <1>5, <1>6, <1>7, <1>8 DEF Next

\* Events are only added, and what was said of them stays true.
LEMMA Growth ==
    ASSUME BaseInv, [Next]_vars
    PROVE  EventsGrow /\ ChainInv' /\ clock \in Nat /\ clock' \in Nat /\ clock <= clock'
  <1>0. clock \in Nat
    BY DEF BaseInv, TypeOK
  <1>1. ASSUME events' = events PROVE EventsGrow /\ ChainInv'
    <2>1. EventsGrow
      BY <1>1 DEF EventsGrow
    <2>2. ASSUME NEW d \in Devices, NEW i \in DOMAIN events'[d]
          PROVE  events'[d][i].old = Leaving(Before(d, i)')
      <3>1. Before(d, i)' = Before(d, i)
        BY <1>1 DEF Before
      <3> QED  BY <1>1, <3>1 DEF BaseInv, ChainInv
    <2> QED  BY <2>1, <2>2 DEF ChainInv
  <1>2. ASSUME NEW h \in Handlers, NEW d, NEW n, NEW e, Tells(h, d, n, e)
        PROVE  EventsGrow /\ ChainInv'
    <2>1. EventsGrow
      BY <1>2 DEF EventsGrow, Tells
    <2>2. ASSUME NEW c \in Devices, NEW i \in DOMAIN events'[c]
          PROVE  events'[c][i].old = Leaving(Before(c, i)')
      <3>1. CASE c = d
        <4>1. /\ n \in Nat /\ DOMAIN events[d] = 1 .. n /\ DOMAIN events'[d] = 1 .. n + 1
              /\ d \in Devices
              /\ events'[d][n + 1] = e /\ \A k \in 1 .. n : events'[d][k] = events[d][k]
              /\ e.old = Leaving(Before(d, n + 1))
          BY <1>2 DEF Tells
        <4>2. i \in 1 .. n + 1 /\ (i = 1 \/ i - 1 \in 1 .. n)
          BY <3>1, <4>1
        <4>3. Before(d, i)' = Before(d, i)
          BY <4>1, <4>2 DEF Before
        <4>4. i = n + 1 \/ i \in 1 .. n
          BY <4>1, <4>2
        <4> QED  BY <3>1, <4>1, <4>3, <4>4 DEF BaseInv, ChainInv
      <3>2. CASE c # d
        BY <1>2, <3>2 DEF Tells, BaseInv, ChainInv, Before
      <3> QED  BY <3>1, <3>2
    <2> QED  BY <2>1, <2>2 DEF ChainInv
  <1>3. EventsGrow /\ ChainInv'
    BY <1>1, <1>2, Steps
       DEF vars, Tick, Frees, EnqueueNotification
  <1>4. clock' = clock \/ clock' = clock + 1
    BY Steps DEF vars, Tick, Frees, EnqueueNotification
  <1> QED  BY <1>0, <1>3, <1>4

LEMMA HandlerKept ==
    ASSUME BaseInv, [Next]_vars, NEW h \in Handlers, pc'[h] = pc[h], txn'[h] = txn[h]
    PROVE  HandlerOK(h)'
  <1>1. HandlerOK(h) /\ EventsGrow /\ clock \in Nat /\ clock' \in Nat /\ clock <= clock'
    BY Growth DEF BaseInv, HandlersInv
  <1>2. CASE pc[h] = "idle"
    BY <1>1, <1>2 DEF HandlerOK
  <1>3. CASE pc[h] # "idle"
    <2>1. /\ txn[h] \in Alert /\ txn[h].device \in Devices /\ txn[h].seen \in Nat
          /\ txn[h].nth \in DOMAIN events[txn[h].device]
      BY <1>1, <1>3 DEF HandlerOK, Alert
    <2>2. /\ txn'[h].nth \in DOMAIN events'[txn'[h].device]
          /\ EventOf(txn[h])' = EventOf(txn[h])
      BY <1>1, <2>1 DEF EventsGrow, EventOf
    <2>3. txn[h].seen <= clock => txn[h].seen <= clock'
      BY <1>1, <2>1
    <2>4. AlertWorthy(EventOf(txn[h])) => AlertWorthy(EventOf(txn[h])')
      BY <2>2
    <2> QED  BY <1>1, <1>3, <2>1, <2>2, <2>3, <2>4 DEF HandlerOK, EventOf
  <1> QED  BY <1>2, <1>3

LEMMA HandlersStep ==
    ASSUME BaseInv, [Next]_vars
    PROVE  HandlersInv'
  <1>0. /\ \A h \in Handlers : HandlerOK(h)
        /\ \A g, h \in Handlers : g # h /\ pc[g] # "idle" /\ pc[h] # "idle" =>
             At(txn[g]) # At(txn[h])
        /\ nextId \in Nat /\ nextId # 0
    BY DEF BaseInv, HandlersInv, TypeOK
  <1>1. ASSUME UNCHANGED <<pc, txn, nextId>> PROVE HandlersInv'
    <2>1. \A h \in Handlers : HandlerOK(h)'
      BY <1>1, HandlerKept
    <2> QED  BY <1>0, <1>1, <2>1 DEF HandlersInv, At
  <1>2. ASSUME NEW h \in Handlers, Frees(h), Others(h) PROVE HandlersInv'
    <2>1. HandlerOK(h)'
      BY <1>2 DEF Frees, HandlerOK, NoTxn
    <2>2. \A g \in Handlers \ {h} : HandlerOK(g)'
      BY <1>2, HandlerKept DEF Others
    <2>3. \A g, k \in Handlers : g # k /\ pc'[g] # "idle" /\ pc'[k] # "idle" =>
            At(txn'[g]) # At(txn'[k])
      BY <1>0, <1>2 DEF Frees, Others, At
    <2> QED  BY <1>0, <1>2, <2>1, <2>2, <2>3 DEF HandlersInv, Frees
  <1>3. ASSUME NEW h \in Handlers, NEW d, NEW n, NEW e, Tells(h, d, n, e), Others(h),
               nextId' = nextId
        PROVE  HandlersInv'
    <2>1. HandlerOK(h)'
      BY <1>3 DEF Tells, HandlerOK
    <2>2. \A g \in Handlers \ {h} : HandlerOK(g)'
      BY <1>3, HandlerKept DEF Others
    <2>3. ASSUME NEW g \in Handlers \ {h}, pc'[g] # "idle"
          PROVE  At(txn'[g]) # At(txn'[h])
      <3>1. pc[g] # "idle" /\ txn'[g] = txn[g]
        BY <1>3, <2>3 DEF Others
      <3>2. txn[g].nth \in DOMAIN events[txn[g].device]
        BY <1>0, <3>1 DEF HandlerOK
      <3>3. n \in Nat /\ DOMAIN events[d] = 1 .. n /\ txn'[h].device = d /\ txn'[h].nth = n + 1
        BY <1>3 DEF Tells
      <3>4. txn[g].device = d => txn[g].nth # n + 1
        BY <3>2, <3>3
      <3> QED  BY <3>1, <3>3, <3>4 DEF At
    <2>4. \A g, k \in Handlers \ {h} : g # k /\ pc'[g] # "idle" /\ pc'[k] # "idle" =>
            At(txn'[g]) # At(txn'[k])
      BY <1>0, <1>3 DEF Others, At
    <2> QED  BY <1>0, <1>3, <2>1, <2>2, <2>3, <2>4 DEF HandlersInv, At
  <1>4. ASSUME NEW h \in Handlers, NEW g, Raises(h, g), Others(h), UNCHANGED <<clock, events>>
        PROVE  HandlersInv'
    <2>1. HandlerOK(h)'
      <3>1. /\ HandlerOK(h) /\ pc[h] = "told" /\ clock \in Nat
            /\ pc'[h] = "notifying" /\ txn'[h] \in Alert
            /\ txn'[h].device = txn[h].device /\ txn'[h].nth = txn[h].nth
            /\ txn'[h].id # 0 /\ txn'[h].seen = clock
            /\ AlertWorthy(EventOf(txn[h]))
        BY <1>0, <1>4 DEF Raises, BaseInv, TypeOK
      <3>2. txn[h].nth \in DOMAIN events[txn[h].device] /\ txn[h].device \in Devices
        BY <3>1 DEF HandlerOK, Alert
      <3>3. EventOf(txn[h])' = EventOf(txn[h])
        BY <1>4, <3>1 DEF EventOf
      <3>4. AlertWorthy(EventOf(txn[h])')
        BY <3>1, <3>3
      <3>5. /\ txn'[h].type = "DOWN" => txn'[h].group # NoGroup
            /\ txn'[h].type = "RECOVERY" => txn'[h].group = NoGroup
        <4>1. g \in Groups(txn[h].device) => g # NoGroup
          BY <3>2, GroupsFound
        <4> QED  BY <1>4, <4>1 DEF Raises
      <3>6. txn'[h].seen <= clock'
        BY <1>4, <3>1
      <3>7. txn'[h].nth \in DOMAIN events'[txn'[h].device]
        BY <1>4, <3>1, <3>2
      <3> QED  BY <3>1, <3>4, <3>5, <3>6, <3>7 DEF HandlerOK, EventOf
    <2>2. \A k \in Handlers \ {h} : HandlerOK(k)'
      BY <1>4, HandlerKept DEF Others
    <2>3. \A i, k \in Handlers : i # k /\ pc'[i] # "idle" /\ pc'[k] # "idle" =>
            At(txn'[i]) # At(txn'[k])
      <3>1. /\ At(txn'[h]) = At(txn[h]) /\ pc[h] # "idle"
            /\ \A k \in Handlers \ {h} : At(txn'[k]) = At(txn[k]) /\ pc'[k] = pc[k]
        BY <1>4 DEF Raises, Others, At
      <3> QED  BY <1>0, <3>1
    <2>4. nextId' # 0
      BY <1>0, <1>4 DEF Raises
    <2> QED  BY <2>1, <2>2, <2>3, <2>4 DEF HandlersInv, At
  <1> QED
    BY <1>1, <1>2, <1>3, <1>4, Steps DEF vars, Tick, EnqueueNotification

LEMMA AlertsStep ==
    ASSUME BaseInv, [Next]_vars
    PROVE  AlertsInv'
  <1>1. clock \in Nat /\ clock' \in Nat /\ clock <= clock' /\ alerts \subseteq Alert
    BY Growth DEF BaseInv, TypeOK
  <1>2. \A a \in alerts : /\ a.seen <= clock' /\ a.id # 0
                          /\ a.type = "DOWN" => a.group # NoGroup
                          /\ a.type = "RECOVERY" => a.group = NoGroup
    <2>1. \A a \in alerts : a.seen \in Nat
      BY <1>1 DEF Alert
    <2> QED  BY <1>1, <2>1 DEF BaseInv, AlertsInv
  <1>3. ASSUME alerts' = alerts PROVE AlertsInv'
    BY <1>2, <1>3 DEF AlertsInv
  <1>4. ASSUME NEW h \in Handlers, CommitAlert(h) PROVE AlertsInv'
    <2>1. /\ pc[h] = "notifying" /\ alerts' = alerts \cup {txn[h]} /\ clock' = clock
      BY <1>4 DEF CommitAlert
    <2>2. /\ txn[h].id # 0 /\ txn[h].seen <= clock
          /\ txn[h].type = "DOWN" => txn[h].group # NoGroup
          /\ txn[h].type = "RECOVERY" => txn[h].group = NoGroup
      BY <2>1 DEF BaseInv, HandlersInv, HandlerOK
    <2> QED  BY <1>2, <2>1, <2>2 DEF AlertsInv
  <1> QED
    BY <1>3, <1>4, Steps DEF vars, Tick, EnqueueNotification, Ignore, Crash

LEMMA BaseStep == ASSUME BaseInv, [Next]_vars PROVE BaseInv'
  BY TypeStep, Growth, HandlersStep, AlertsStep DEF BaseInv

-----------------------------------------------------------------------------
\* An event calls for an alert exactly if the handler thinks that it does.
Worthy(d, i) == d \in Devices /\ i \in DOMAIN events[d] /\ AlertWorthy(events[d][i])

LEMMA WorthyBefore ==
    ASSUME ChainInv, TypeOK, NEW d \in Devices, NEW i \in DOMAIN events[d]
    PROVE  events[d][i].old = "DOWN" <=> i > 1 /\ events[d][i - 1].new = "DOWN"
  <1>1. i \in Nat \ {0} /\ (i = 1 \/ i > 1) /\ ~(1 > 1)
    BY DEF TypeOK
  <1>2. events[d][i].old = Leaving(Before(d, i))
    BY DEF ChainInv
  <1> QED  BY <1>1, <1>2 DEF Leaving, Before

LEMMA WorthyAfter ==
    ASSUME ChainInv', TypeOK', NEW d \in Devices, NEW i \in DOMAIN events'[d]
    PROVE  events'[d][i].old = "DOWN" <=> i > 1 /\ events'[d][i - 1].new = "DOWN"
  <1>1. i \in Nat \ {0} /\ (i = 1 \/ i > 1) /\ ~(1 > 1)
    BY DEF TypeOK
  <1>2. events'[d][i].old = Leaving(Before(d, i))'
    BY DEF ChainInv
  <1> QED  BY <1>1, <1>2 DEF Leaving, Before

LEMMA CallsForAlert ==
    ASSUME BaseInv, BaseInv', NEW d, NEW i
    PROVE  (<<d, i>> \in CallForAlert <=> Worthy(d, i)) /\ (<<d, i>> \in CallForAlert <=> Worthy(d, i))'
  <1>1. <<d, i>> \in CallForAlert <=>
          /\ d \in Devices /\ i \in DOMAIN events[d]
          /\ \/ events[d][i].new = "DOWN" /\ ~events[d][i].suppressed
             \/ events[d][i].new = "UP" /\ i > 1 /\ events[d][i - 1].new = "DOWN"
    BY DEF CallForAlert
  <1>2. <<d, i>> \in CallForAlert' <=>
          /\ d \in Devices /\ i \in DOMAIN events'[d]
          /\ \/ events'[d][i].new = "DOWN" /\ ~events'[d][i].suppressed
             \/ events'[d][i].new = "UP" /\ i > 1 /\ events'[d][i - 1].new = "DOWN"
    BY DEF CallForAlert
  <1> QED
    BY <1>1, <1>2, WorthyBefore, WorthyAfter DEF BaseInv, Worthy, AlertWorthy, IsRecovery

Unanswered == CallForAlert \ (Answered \cup InHand)

AnswersInv ==
    /\ IsFiniteSet(alerts) /\ IsFiniteSet(Answered)
    /\ Cardinality(Answered) = Cardinality(alerts)
    /\ Answered \subseteq CallForAlert
    /\ \A h \in Handlers : pc[h] # "idle" => At(txn[h]) \notin Answered
    /\ IsFiniteSet(Unanswered) /\ Cardinality(Unanswered) <= crashes

IsUnanswered(d, i) ==
    /\ Worthy(d, i)
    /\ ~\E a \in alerts : At(a) = <<d, i>>
    /\ ~\E h \in Handlers : pc[h] # "idle" /\ At(txn[h]) = <<d, i>>

LEMMA UnansweredMeans ==
    ASSUME BaseInv, BaseInv', NEW d, NEW i
    PROVE  /\ <<d, i>> \in Unanswered <=> IsUnanswered(d, i)
           /\ (<<d, i>> \in Unanswered <=> IsUnanswered(d, i))'
  <1>1. (<<d, i>> \in Answered <=> \E a \in alerts : At(a) = <<d, i>>)
        /\ (<<d, i>> \in Answered' <=> \E a \in alerts' : At(a) = <<d, i>>)
    BY DEF Answered, At
  <1>2. /\ <<d, i>> \in InHand <=> \E h \in Handlers : pc[h] # "idle" /\ At(txn[h]) = <<d, i>>
        /\ <<d, i>> \in InHand' <=> \E h \in Handlers : pc'[h] # "idle" /\ At(txn[h])' = <<d, i>>
    BY DEF InHand, At
  <1> QED  BY <1>1, <1>2, CallsForAlert DEF Unanswered, IsUnanswered

LEMMA UnansweredArePairs == \A x \in Unanswered' : \E d, i : x = <<d, i>>
  BY DEF Unanswered, CallForAlert

LEMMA WorthyKept ==
    ASSUME BaseInv, [Next]_vars, NEW d, NEW i, Worthy(d, i)
    PROVE  Worthy(d, i)'
  BY Growth DEF Worthy, EventsGrow

\* A step leaves no event unanswered but the one that a dying handler has.
LEMMA UnansweredKept ==
    ASSUME BaseInv, BaseInv', [Next]_vars
    PROVE  \/ Unanswered' \subseteq Unanswered /\ crashes' = crashes
           \/ crashes' = crashes + 1 /\ \E x : Unanswered' \subseteq Unanswered \cup {x}
  <1>0. \A h \in Handlers : HandlerOK(h)
    BY DEF BaseInv, HandlersInv
  <1>1. ASSUME events' = events, alerts' = alerts, crashes' = crashes,
               \A h \in Handlers : pc[h] # "idle" => pc'[h] # "idle" /\ At(txn'[h]) = At(txn[h])
        PROVE  Unanswered' \subseteq Unanswered /\ crashes' = crashes
    <2>1. \A d, i : IsUnanswered(d, i)' => IsUnanswered(d, i)
      BY <1>1 DEF IsUnanswered, Worthy, At
    <2> QED  BY <1>1, <2>1, UnansweredMeans, UnansweredArePairs
  <1>2. ASSUME NEW h \in Handlers, NEW d, NEW n, NEW e, Tells(h, d, n, e), Others(h),
               UNCHANGED <<alerts, crashes>>
        PROVE  Unanswered' \subseteq Unanswered /\ crashes' = crashes
    <2>1. /\ DOMAIN events[d] = 1 .. n /\ DOMAIN events'[d] = 1 .. n + 1 /\ n \in Nat
          /\ \A i \in 1 .. n : events'[d][i] = events[d][i]
          /\ \A c \in Devices \ {d} : events'[c] = events[c]
          /\ At(txn'[h]) = <<d, n + 1>> /\ pc'[h] # "idle" /\ pc[h] = "idle"
          /\ \A g \in Handlers \ {h} : pc'[g] = pc[g] /\ txn'[g] = txn[g]
      BY <1>2 DEF Tells, Others, At
    <2>2. ASSUME NEW c, NEW i, IsUnanswered(c, i)' PROVE IsUnanswered(c, i)
      <3>1. c \in Devices /\ i \in DOMAIN events'[c] /\ AlertWorthy(events'[c][i])
            /\ ~(c = d /\ i = n + 1)
        BY <2>1, <2>2 DEF IsUnanswered, Worthy, At
      <3>2. i \in DOMAIN events[c] /\ events'[c][i] = events[c][i]
        BY <2>1, <3>1
      <3>3. ~\E g \in Handlers : pc[g] # "idle" /\ At(txn[g]) = <<c, i>>
        BY <2>1, <2>2 DEF IsUnanswered, At
      <3> QED  BY <1>2, <2>2, <3>1, <3>2, <3>3 DEF IsUnanswered, Worthy
    <2> QED  BY <1>2, <2>2, UnansweredMeans, UnansweredArePairs
  <1>3. ASSUME NEW h \in Handlers, Frees(h), Others(h)
        PROVE  \A d, i : IsUnanswered(d, i)' =>
                 \/ <<d, i>> = At(txn[h])
                 \/ \E a \in alerts : a \notin alerts' /\ At(a) = <<d, i>>
                 \/ IsUnanswered(d, i)
    BY <1>3 DEF Frees, Others, IsUnanswered, Worthy, At
  <1>4. ASSUME NEW h \in Handlers, Ignore(h), Frees(h), Others(h)
        PROVE  Unanswered' \subseteq Unanswered /\ crashes' = crashes
    <2>1. alerts' = alerts /\ crashes' = crashes /\ ~AlertWorthy(EventOf(txn[h])) /\ events' = events
      BY <1>4 DEF Ignore
    <2>2. \A d, i : IsUnanswered(d, i)' => <<d, i>> # At(txn[h])
      BY <2>1 DEF IsUnanswered, Worthy, EventOf, At
    <2>3. \A d, i : IsUnanswered(d, i)' => IsUnanswered(d, i)
      BY <1>3, <1>4, <2>1, <2>2
    <2> QED  BY <2>1, <2>3, UnansweredMeans, UnansweredArePairs
  <1>5. ASSUME NEW h \in Handlers, CommitAlert(h), Frees(h), Others(h)
        PROVE  Unanswered' \subseteq Unanswered /\ crashes' = crashes
    <2>1. alerts' = alerts \cup {txn[h]} /\ crashes' = crashes
      BY <1>5 DEF CommitAlert
    <2>2. \A d, i : IsUnanswered(d, i)' => <<d, i>> # At(txn[h])
      BY <2>1 DEF IsUnanswered
    <2>3. \A d, i : IsUnanswered(d, i)' => IsUnanswered(d, i)
      BY <1>3, <1>5, <2>1, <2>2
    <2> QED  BY <2>1, <2>3, UnansweredMeans, UnansweredArePairs
  <1>6. ASSUME NEW h \in Handlers, Crash(h), Frees(h), Others(h)
        PROVE  crashes' = crashes + 1 /\ \E x : Unanswered' \subseteq Unanswered \cup {x}
    <2>1. alerts' = alerts /\ crashes' = crashes + 1
      BY <1>6 DEF Crash
    <2>2. \A d, i : IsUnanswered(d, i)' => <<d, i>> = At(txn[h]) \/ IsUnanswered(d, i)
      BY <1>3, <1>6, <2>1
    <2>3. Unanswered' \subseteq Unanswered \cup {At(txn[h])}
      BY <2>2, UnansweredMeans, UnansweredArePairs
    <2> QED  BY <2>1, <2>3
  <1>7. ASSUME NEW h \in Handlers, NEW g, Raises(h, g), Others(h),
               UNCHANGED <<events, alerts, crashes>>
        PROVE  Unanswered' \subseteq Unanswered /\ crashes' = crashes
    BY <1>1, <1>7 DEF Raises, Others, At
  <1>8. ASSUME UNCHANGED vars \/ Tick \/ \E h \in Handlers, r \in Recipients : EnqueueNotification(h, r)
        PROVE  Unanswered' \subseteq Unanswered /\ crashes' = crashes
    BY <1>1, <1>8 DEF vars, Tick, EnqueueNotification
  <1> QED  BY <1>2, <1>4, <1>5, <1>6, <1>7, <1>8, Steps

LEMMA AnswersStep ==
    ASSUME BaseInv, BaseInv', AnswersInv, [Next]_vars
    PROVE  AnswersInv'
  <1>0. crashes \in Nat /\ Cardinality(Unanswered) \in Nat /\ Cardinality(Unanswered) <= crashes
        /\ IsFiniteSet(Unanswered)
    BY FS_CardinalityType DEF BaseInv, TypeOK, AnswersInv
  <1>1. IsFiniteSet(Unanswered') /\ Cardinality(Unanswered') <= crashes'
    <2>1. CASE Unanswered' \subseteq Unanswered /\ crashes' = crashes
      <3>1. IsFiniteSet(Unanswered') /\ Cardinality(Unanswered') \in Nat
            /\ Cardinality(Unanswered') <= Cardinality(Unanswered)
        BY <1>0, <2>1, FS_Subset, FS_CardinalityType
      <3> QED  BY <1>0, <2>1, <3>1
    <2>2. CASE crashes' = crashes + 1 /\ \E x : Unanswered' \subseteq Unanswered \cup {x}
      <3>1. PICK x : Unanswered' \subseteq Unanswered \cup {x}
        BY <2>2
      <3>2. /\ IsFiniteSet(Unanswered \cup {x})
            /\ \/ Cardinality(Unanswered \cup {x}) = Cardinality(Unanswered)
               \/ Cardinality(Unanswered \cup {x}) = Cardinality(Unanswered) + 1
        BY <1>0, FS_AddElement
      <3>3. IsFiniteSet(Unanswered') /\ Cardinality(Unanswered') \in Nat
            /\ Cardinality(Unanswered') <= Cardinality(Unanswered \cup {x})
        BY <3>1, <3>2, FS_Subset, FS_CardinalityType
      <3> QED  BY <1>0, <2>2, <3>2, <3>3
    <2> QED  BY <2>1, <2>2, UnansweredKept
  <1>2. CallForAlert \subseteq CallForAlert'
    <2>1. \A x \in CallForAlert : \E d, i : x = <<d, i>>
      BY DEF CallForAlert
    <2> QED  BY <2>1, CallsForAlert, WorthyKept
  <1>3. ASSUME NEW h \in Handlers, CommitAlert(h), Frees(h), Others(h) PROVE AnswersInv'
    <2>1. PICK t : t = txn[h]
      OBVIOUS
    <2>2. /\ alerts' = alerts \cup {t} /\ pc[h] # "idle" /\ pc[h] # "told" /\ events' = events
          /\ pc'[h] = "idle"
      BY <1>3, <2>1 DEF CommitAlert, Frees
    <2>3. Answered' = Answered \cup {At(t)} /\ At(t) \notin Answered /\ t \notin alerts
      BY <2>1, <2>2 DEF AnswersInv, Answered, At
    <2>4. /\ IsFiniteSet(alerts') /\ IsFiniteSet(Answered')
          /\ Cardinality(alerts') = Cardinality(alerts) + 1
          /\ Cardinality(Answered') = Cardinality(Answered) + 1
      BY <2>2, <2>3, FS_AddElement DEF AnswersInv
    <2>5. Worthy(t.device, t.nth)
      BY <2>1, <2>2 DEF BaseInv, HandlersInv, HandlerOK, Worthy, EventOf, Alert
    <2>6. Answered' \subseteq CallForAlert'
      BY <1>2, <2>3, <2>5, CallsForAlert DEF AnswersInv, At
    <2>7. \A g \in Handlers : pc'[g] # "idle" => At(txn'[g]) \notin Answered'
      BY <1>3, <2>1, <2>2, <2>3 DEF AnswersInv, BaseInv, HandlersInv, Others, At
    <2> QED  BY <1>1, <2>4, <2>6, <2>7 DEF AnswersInv, At
  <1>4. ASSUME alerts' = alerts,
               \A h \in Handlers : pc'[h] # "idle" =>
                   (pc[h] # "idle" /\ At(txn'[h]) = At(txn[h])) \/ At(txn'[h]) \notin Answered
        PROVE  AnswersInv'
    <2>1. Answered' = Answered
      BY <1>4 DEF Answered
    <2> QED  BY <1>1, <1>2, <1>4, <2>1 DEF AnswersInv, At
  <1>5. ASSUME NEW h \in Handlers, NEW d, NEW n, NEW e, Tells(h, d, n, e), Others(h),
               alerts' = alerts
        PROVE  AnswersInv'
    <2>1. At(txn'[h]) = <<d, n + 1>> /\ n + 1 \notin DOMAIN events[d]
      BY <1>5 DEF Tells, At
    <2>2. <<d, n + 1>> \notin Answered
      BY <2>1, CallsForAlert DEF AnswersInv, Worthy
    <2> QED  BY <1>4, <1>5, <2>1, <2>2 DEF Others, At
  <1>6. ASSUME NEW h \in Handlers, NEW g, Raises(h, g), Others(h), alerts' = alerts
        PROVE  AnswersInv'
    BY <1>4, <1>6 DEF Raises, Others, At
  <1>7. ASSUME NEW h \in Handlers, Ignore(h) \/ Crash(h), Frees(h), Others(h) PROVE AnswersInv'
    BY <1>4, <1>7 DEF Ignore, Crash, Frees, Others, At
  <1>8. ASSUME UNCHANGED vars \/ Tick \/ \E h \in Handlers, r \in Recipients : EnqueueNotification(h, r)
        PROVE  AnswersInv'
    BY <1>4, <1>8 DEF vars, Tick, EnqueueNotification
  <1> QED  BY <1>3, <1>5, <1>6, <1>7, <1>8, Steps

-----------------------------------------------------------------------------
Phantoms ==
    {j[1] : j \in jobs} \ ({a.id : a \in alerts} \cup {txn[h].id : h \in Handlers})

PagesInv ==
    /\ \A a \in alerts : {a.id} \X Recipients \subseteq jobs
    /\ \A h \in Handlers : pc[h] = "notifying" =>
         \A r \in Recipients \ todo[h] : <<txn[h].id, r>> \in jobs
    /\ \A j \in jobs : j[1] # 0
    /\ IsFiniteSet(Phantoms) /\ Cardinality(Phantoms) <= crashes

IsPhantom(i) ==
    /\ \E j \in jobs : j[1] = i
    /\ ~\E a \in alerts : a.id = i
    /\ ~\E h \in Handlers : txn[h].id = i

LEMMA PhantomMeans ==
    ASSUME NEW i
    PROVE  (i \in Phantoms <=> IsPhantom(i)) /\ (i \in Phantoms <=> IsPhantom(i))'
  BY DEF Phantoms, IsPhantom

\* A step leaves no job without its alert but those of a dying handler.
LEMMA PhantomsKept ==
    ASSUME BaseInv, PagesInv, [Next]_vars
    PROVE  \/ Phantoms' \subseteq Phantoms /\ crashes' = crashes
           \/ crashes' = crashes + 1 /\ \E x : Phantoms' \subseteq Phantoms \cup {x}
  <1>0. /\ NoTxn.id = 0 /\ \A h \in Handlers : HandlerOK(h)
        /\ \A j \in jobs : j[1] # 0
    BY DEF NoTxn, BaseInv, HandlersInv, PagesInv
  <1>1. ASSUME jobs' = jobs, alerts' = alerts, crashes' = crashes,
               \A h \in Handlers : txn[h].id # 0 => txn'[h].id = txn[h].id
        PROVE  Phantoms' \subseteq Phantoms /\ crashes' = crashes
    <2>1. \A i : IsPhantom(i)' => IsPhantom(i)
      BY <1>0, <1>1 DEF IsPhantom
    <2> QED  BY <1>1, <2>1, PhantomMeans
  <1>2. ASSUME NEW h \in Handlers, NEW d, NEW n, NEW e, Tells(h, d, n, e), Others(h),
               UNCHANGED <<jobs, alerts, crashes>>
        PROVE  Phantoms' \subseteq Phantoms /\ crashes' = crashes
    <2>1. txn[h].id = 0
      BY <1>0, <1>2 DEF Tells, HandlerOK
    <2> QED  BY <1>1, <1>2, <2>1 DEF Others
  <1>3. ASSUME NEW h \in Handlers, NEW g, Raises(h, g), Others(h),
               UNCHANGED <<jobs, alerts, crashes>>
        PROVE  Phantoms' \subseteq Phantoms /\ crashes' = crashes
    <2>1. txn[h].id = 0
      BY <1>0, <1>3 DEF Raises, HandlerOK
    <2> QED  BY <1>1, <1>3, <2>1 DEF Others
  <1>4. ASSUME NEW h \in Handlers, Ignore(h), Others(h)
        PROVE  Phantoms' \subseteq Phantoms /\ crashes' = crashes
    <2>1. txn[h].id = 0 /\ UNCHANGED <<jobs, alerts, crashes>>
      BY <1>0, <1>4 DEF Ignore, HandlerOK
    <2> QED  BY <1>1, <1>4, <2>1 DEF Others
  <1>5. ASSUME NEW h \in Handlers, NEW r \in Recipients, EnqueueNotification(h, r)
        PROVE  Phantoms' \subseteq Phantoms /\ crashes' = crashes
    <2>1. /\ jobs' = jobs \cup {<<txn[h].id, r>>}
          /\ UNCHANGED <<alerts, txn, crashes>>
      BY <1>5 DEF EnqueueNotification
    <2>2. \A i : IsPhantom(i)' => IsPhantom(i)
      BY <2>1 DEF IsPhantom
    <2> QED  BY <2>1, <2>2, PhantomMeans
  <1>6. ASSUME NEW h \in Handlers, CommitAlert(h), Others(h)
        PROVE  Phantoms' \subseteq Phantoms /\ crashes' = crashes
    <2>1. /\ alerts' = alerts \cup {txn[h]} /\ UNCHANGED <<jobs, crashes>>
      BY <1>6 DEF CommitAlert
    <2>2. \A i : IsPhantom(i)' => IsPhantom(i)
      BY <1>6, <2>1 DEF IsPhantom, Others
    <2> QED  BY <2>1, <2>2, PhantomMeans
  <1>7. ASSUME NEW h \in Handlers, Crash(h), Others(h)
        PROVE  crashes' = crashes + 1 /\ \E x : Phantoms' \subseteq Phantoms \cup {x}
    <2>1. crashes' = crashes + 1 /\ UNCHANGED <<jobs, alerts>>
      BY <1>7 DEF Crash
    <2>2. \A i : IsPhantom(i)' => i = txn[h].id \/ IsPhantom(i)
      BY <1>7, <2>1 DEF IsPhantom, Others
    <2>3. Phantoms' \subseteq Phantoms \cup {txn[h].id}
      BY <2>2, PhantomMeans
    <2> QED  BY <2>1, <2>3
  <1>8. ASSUME UNCHANGED vars \/ Tick PROVE Phantoms' \subseteq Phantoms /\ crashes' = crashes
    BY <1>1, <1>8 DEF vars, Tick
  <1> QED  BY <1>2, <1>3, <1>4, <1>5, <1>6, <1>7, <1>8, Steps

LEMMA PagesStep ==
    ASSUME BaseInv, PagesInv, [Next]_vars
    PROVE  PagesInv'
  <1>0. crashes \in Nat /\ Cardinality(Phantoms) \in Nat /\ Cardinality(Phantoms) <= crashes
        /\ IsFiniteSet(Phantoms) /\ \A h \in Handlers : HandlerOK(h)
    BY FS_CardinalityType DEF BaseInv, HandlersInv, TypeOK, PagesInv
  <1>1. IsFiniteSet(Phantoms') /\ Cardinality(Phantoms') <= crashes'
    <2>1. CASE Phantoms' \subseteq Phantoms /\ crashes' = crashes
      <3>1. IsFiniteSet(Phantoms') /\ Cardinality(Phantoms') \in Nat
            /\ Cardinality(Phantoms') <= Cardinality(Phantoms)
        BY <1>0, <2>1, FS_Subset, FS_CardinalityType
      <3> QED  BY <1>0, <2>1, <3>1
    <2>2. CASE crashes' = crashes + 1 /\ \E x : Phantoms' \subseteq Phantoms \cup {x}
      <3>1. PICK x : Phantoms' \subseteq Phantoms \cup {x}
        BY <2>2
      <3>2. /\ IsFiniteSet(Phantoms \cup {x})
            /\ \/ Cardinality(Phantoms \cup {x}) = Cardinality(Phantoms)
               \/ Cardinality(Phantoms \cup {x}) = Cardinality(Phantoms) + 1
        BY <1>0, FS_AddElement
      <3>3. IsFiniteSet(Phantoms') /\ Cardinality(Phantoms') \in Nat
            /\ Cardinality(Phantoms') <= Cardinality(Phantoms \cup {x})
        BY <3>1, <3>2, FS_Subset, FS_CardinalityType
      <3> QED  BY <1>0, <2>2, <3>2, <3>3
    <2> QED  BY <2>1, <2>2, PhantomsKept
  <1> DEFINE Jobs == /\ \A a \in alerts : {a.id} \X Recipients \subseteq jobs
                     /\ \A h \in Handlers : pc[h] = "notifying" =>
                          \A r \in Recipients \ todo[h] : <<txn[h].id, r>> \in jobs
                     /\ \A j \in jobs : j[1] # 0
  <1>2. Jobs
    BY DEF PagesInv
  <1>3. ASSUME UNCHANGED <<alerts, jobs>>,
               \A h \in Handlers : pc'[h] = "notifying" =>
                   \/ pc[h] = "notifying" /\ txn'[h].id = txn[h].id /\ todo'[h] = todo[h]
                   \/ todo'[h] = Recipients
        PROVE  Jobs'
    BY <1>2, <1>3
  <1>4. ASSUME NEW h \in Handlers, NEW d, NEW n, NEW e, Tells(h, d, n, e), Others(h),
               UNCHANGED <<jobs, alerts>>
        PROVE  Jobs'
    BY <1>3, <1>4 DEF Tells, Others
  <1>5. ASSUME NEW h \in Handlers, NEW g, Raises(h, g), Others(h), UNCHANGED <<jobs, alerts>>
        PROVE  Jobs'
    BY <1>3, <1>5 DEF Raises, Others
  <1>6. ASSUME NEW h \in Handlers, Ignore(h) \/ Crash(h), Frees(h), Others(h) PROVE Jobs'
    BY <1>3, <1>6 DEF Ignore, Crash, Frees, Others
  <1>7. ASSUME NEW h \in Handlers, NEW r \in Recipients, EnqueueNotification(h, r) PROVE Jobs'
    <2>1. /\ pc[h] = "notifying" /\ jobs' = jobs \cup {<<txn[h].id, r>>}
          /\ UNCHANGED <<alerts, pc, txn>>
          /\ todo' = [todo EXCEPT ![h] = @ \ {r}] /\ txn[h].id # 0
      BY <1>0, <1>7 DEF EnqueueNotification, HandlerOK
    <2>2. todo'[h] = todo[h] \ {r} /\ \A g \in Handlers \ {h} : todo'[g] = todo[g]
      BY <2>1 DEF BaseInv, TypeOK
    <2> QED  BY <1>2, <2>1, <2>2
  <1>8. ASSUME NEW h \in Handlers, CommitAlert(h), Frees(h), Others(h) PROVE Jobs'
    <2>1. /\ pc[h] = "notifying" /\ todo[h] = {} /\ alerts' = alerts \cup {txn[h]}
          /\ jobs' = jobs /\ pc'[h] = "idle"
      BY <1>8 DEF CommitAlert, Frees
    <2>2. {txn[h].id} \X Recipients \subseteq jobs
      BY <1>2, <2>1
    <2> QED  BY <1>2, <1>8, <2>1, <2>2 DEF Others
  <1>9. ASSUME UNCHANGED vars \/ Tick PROVE Jobs'
    BY <1>3, <1>9 DEF vars, Tick
  <1>10. Jobs'
    BY <1>4, <1>5, <1>6, <1>7, <1>8, <1>9, Steps
  <1> QED  BY <1>1, <1>10 DEF PagesInv

-----------------------------------------------------------------------------
(***************************************************************************)
(* Storm grouping.  The invariant speaks of the alerts that are in a       *)
(* handler's hands, too.  A new outage that finds a sibling's alert could  *)
(* change places with it in every burst it belongs to, so it adds no       *)
(* group; one that finds none is in no burst with a committed alert.       *)
(***************************************************************************)
Live == {txn[h] : h \in {k \in Handlers : pc[k] = "notifying"}}

Outages == {a \in alerts \cup Live : a.type = "DOWN" /\ Parent[a.device] # NoDevice}

GroupsOf(as) == {a.group : a \in as}

Few(groups) == IsFiniteSet(groups) /\ Cardinality(groups) <= Cardinality(Handlers)

BurstInv == \A as \in SUBSET Outages : IsBurst(as) => Few(GroupsOf(as))

LEMMA FewSubset ==
    ASSUME NEW S, NEW T, Few(S), T \subseteq S
    PROVE  Few(T)
  <1>1. /\ IsFiniteSet(T) /\ Cardinality(T) \in Nat /\ Cardinality(S) \in Nat
        /\ Cardinality(T) <= Cardinality(S) /\ Cardinality(S) <= Cardinality(Handlers)
    BY FS_Subset, FS_CardinalityType DEF Few
  <1>2. Cardinality(Handlers) \in Nat
    BY FS_CardinalityType, AlertEngineAssumption
  <1> QED  BY <1>1, <1>2 DEF Few

\* Alerts that are all in hand have at most one group for each handler.
LEMMA FewInHand ==
    ASSUME NEW as, as \subseteq Live'
    PROVE  Few(GroupsOf(as))
  <1> DEFINE f == [h \in Handlers |-> txn'[h].group]
             T == {txn'[h].group : h \in Handlers}
  <1>1. f \in Surjection(Handlers, T)
    BY DEF Surjection
  <1>2. Few(T)
    BY <1>1, FS_Surjection, AlertEngineAssumption DEF Few
  <1>3. GroupsOf(as) \subseteq T
    <2>1. \A a \in as : \E h \in Handlers : a = txn'[h]
      BY DEF Live
    <2> QED  BY <2>1 DEF GroupsOf
  <1> QED  BY <1>2, <1>3, FewSubset

LEMMA OutageTypes ==
    ASSUME BaseInv, NEW a \in Outages
    PROVE  /\ a \in Alert /\ a.created \in Nat /\ a.seen \in Nat /\ clock \in Nat
           /\ a.seen <= clock /\ a.group # NoGroup
           /\ a.type = "DOWN" /\ Parent[a.device] # NoDevice
  <1>1. a.type = "DOWN" /\ Parent[a.device] # NoDevice /\ a \in alerts \cup Live /\ clock \in Nat
    BY DEF Outages, BaseInv, TypeOK
  <1>2. a \in Alert /\ a.seen <= clock /\ a.group # NoGroup
    <2>1. CASE a \in alerts
      BY <1>1, <2>1 DEF BaseInv, TypeOK, AlertsInv
    <2>2. CASE a \in Live
      <3>1. PICK h \in Handlers : pc[h] = "notifying" /\ a = txn[h]
        BY <2>2 DEF Live
      <3> QED  BY <1>1, <3>1 DEF BaseInv, HandlersInv, HandlerOK
    <2> QED  BY <1>1, <2>1, <2>2
  <1> QED  BY <1>1, <1>2 DEF Alert

\* An outage that joins a sibling's group could change places with it.
LEMMA JoinedBurst ==
    ASSUME BaseInv, BurstInv, NEW as \in SUBSET Outages, NEW c, IsBurst(as \cup {c}),
           c.seen = clock, NEW x \in SiblingAlerts(c.device), Parent[c.device] # NoDevice,
           c.group = x.group
    PROVE  Few(GroupsOf(as \cup {c}))
  <1>1. /\ x \in alerts /\ Parent[x.device] = Parent[c.device] /\ x.group # NoGroup
        /\ x.created + StormWindow >= clock
    BY DEF SiblingAlerts
  <1>2. x.type = "DOWN" /\ x \in Outages
    BY <1>1 DEF BaseInv, TypeOK, AlertsInv, Alert, Outages
  <1>3. StormWindow \in Nat /\ x.created \in Nat /\ x.seen \in Nat /\ clock \in Nat /\ x.seen <= clock
    BY <1>2, OutageTypes, AlertEngineAssumption
  <1>4. ASSUME NEW y \in as
        PROVE  /\ Parent[y.device] = Parent[x.device]
               /\ y.seen <= x.created + StormWindow /\ x.seen <= y.created + StormWindow
    <2>1. y.created \in Nat /\ y.seen \in Nat /\ y.seen <= clock
      BY OutageTypes
    <2>2. Parent[y.device] = Parent[c.device] /\ clock <= y.created + StormWindow
      BY DEF IsBurst
    <2> QED  BY <1>1, <1>3, <2>1, <2>2
  <1>5. x.seen <= x.created + StormWindow
    BY <1>1, <1>3
  <1>6. IsBurst(as \cup {x})
    BY <1>4, <1>5 DEF IsBurst
  <1>7. Few(GroupsOf(as \cup {x}))
    BY <1>2, <1>6 DEF BurstInv
  <1>8. GroupsOf(as \cup {c}) = GroupsOf(as \cup {x})
    BY DEF GroupsOf
  <1> QED  BY <1>7, <1>8

LEMMA BurstStep ==
    ASSUME BaseInv, BurstInv, [Next]_vars
    PROVE  BurstInv'
  <1>1. ASSUME Outages' \subseteq Outages PROVE BurstInv'
    BY <1>1 DEF BurstInv
  <1>2. ASSUME NEW h \in Handlers, NEW g, Raises(h, g), Others(h), UNCHANGED <<clock, events, alerts>>
        PROVE  BurstInv'
    <2>1. PICK c : c = txn'[h]
      OBVIOUS
    <2>2. Live' = Live \cup {c}
      BY <1>2, <2>1 DEF Live, Raises, Others
    <2>3. Outages' \subseteq Outages \cup {c}
      BY <1>2, <2>2 DEF Outages
    <2>4. c.seen = clock /\ c.group = g
      BY <1>2, <2>1 DEF Raises
    <2> SUFFICES ASSUME NEW as \in SUBSET Outages', IsBurst(as) PROVE Few(GroupsOf(as))
      BY DEF BurstInv
    <2>5. CASE c \notin as
      BY <2>3, <2>5 DEF BurstInv
    <2>6. CASE c \in as
      <3>1. PICK bs : bs = as \ {c}
        OBVIOUS
      <3>2. bs \subseteq Outages /\ as = bs \cup {c}
        BY <2>3, <2>6, <3>1
      <3>3. c.type = "DOWN" /\ Parent[c.device] # NoDevice
        BY <2>6 DEF Outages
      <3>4. g \in Groups(c.device) /\ c.device \in Devices
        BY <1>2, <2>1, <2>4, <3>3 DEF Raises, Alert
      <3>5. CASE \E x \in SiblingAlerts(c.device) : g = x.group
        <4>1. PICK x \in SiblingAlerts(c.device) : g = x.group
          BY <3>5
        <4> QED  BY <2>4, <3>2, <3>3, <4>1, JoinedBurst
      <3>6. CASE SiblingAlerts(c.device) = {}
        <4>1. ASSUME NEW y \in bs, y \in alerts PROVE FALSE
          <5>1. y \in Outages /\ y.group # NoGroup
            BY <3>2, <4>1, OutageTypes
          <5>2. /\ Parent[y.device] = Parent[c.device]
                /\ clock <= y.created + StormWindow
            BY <2>4, <3>2, <4>1 DEF IsBurst
          <5>3. y.created + StormWindow >= clock
            BY <5>2
          <5>4. y \in SiblingAlerts(c.device)
            BY <4>1, <5>1, <5>2, <5>3 DEF SiblingAlerts
          <5> QED  BY <3>6, <5>4
        <4>2. bs \subseteq Live
          BY <3>2, <4>1 DEF Outages
        <4>3. as \subseteq Live'
          BY <2>2, <3>2, <4>2
        <4> QED  BY <4>3, FewInHand
      <3> QED  BY <3>3, <3>4, <3>5, <3>6, GroupsFound
    <2> QED  BY <2>5, <2>6
  <1>3. ASSUME NEW h \in Handlers, NEW d, NEW n, NEW e, Tells(h, d, n, e), Others(h),
               alerts' = alerts
        PROVE  Outages' \subseteq Outages
    BY <1>3 DEF Tells, Others, Outages, Live
  <1>4. ASSUME NEW h \in Handlers, Ignore(h) \/ Crash(h), Frees(h), Others(h)
        PROVE  Outages' \subseteq Outages
    BY <1>4 DEF Ignore, Crash, Frees, Others, Outages, Live
  <1>5. ASSUME NEW h \in Handlers, CommitAlert(h), Frees(h), Others(h)
        PROVE  Outages' \subseteq Outages
    BY <1>5 DEF CommitAlert, Frees, Others, Outages, Live
  <1>6. ASSUME UNCHANGED vars \/ Tick \/ \E h \in Handlers, r \in Recipients : EnqueueNotification(h, r)
        PROVE  Outages' \subseteq Outages
    BY <1>6 DEF vars, Tick, EnqueueNotification, Outages, Live
  <1> QED  BY <1>1, <1>2, <1>3, <1>4, <1>5, <1>6, Steps

-----------------------------------------------------------------------------
EngineInv == BaseInv /\ AnswersInv /\ PagesInv /\ BurstInv

LEMMA EngineInvariant == Spec => []EngineInv
  <1>1. Init => EngineInv
    <2> SUFFICES ASSUME Init PROVE EngineInv
      OBVIOUS
    <2>1. /\ \A d \in Devices : events[d] = << >>
          /\ alerts = {} /\ jobs = {} /\ nextId = 1 /\ crashes = 0
          /\ \A h \in Handlers : pc[h] = "idle" /\ txn[h] = NoTxn
      BY DEF Init
    <2>2. \A d \in Devices : DOMAIN events[d] = {}
      BY <2>1
    <2>3. TypeOK
      BY DEF Init, TypeOK, Stage
    <2>4. BaseInv
      BY <2>1, <2>2, <2>3 DEF BaseInv, ChainInv, HandlersInv, HandlerOK, AlertsInv
    <2>5. Answered = {} /\ Unanswered = {} /\ Phantoms = {} /\ Outages = {}
      BY <2>1, <2>2 DEF Answered, Unanswered, CallForAlert, Phantoms, Outages, Live
    <2>6. AnswersInv
      BY <2>1, <2>5, FS_EmptySet DEF AnswersInv
    <2>7. PagesInv
      BY <2>1, <2>5, FS_EmptySet DEF PagesInv
    <2>8. BurstInv
      <3>1. Few({})
        BY FS_EmptySet, FS_CardinalityType, AlertEngineAssumption DEF Few
      <3> QED  BY <2>5, <3>1 DEF BurstInv, GroupsOf
    <2> QED  BY <2>4, <2>6, <2>7, <2>8 DEF EngineInv
  <1>2. EngineInv /\ [Next]_vars => EngineInv'
    BY BaseStep, AnswersStep, PagesStep, BurstStep DEF EngineInv
  <1> QED  BY <1>1, <1>2, PTL DEF Spec

\* The tables, the broker and the handlers' local state stay well-typed.
THEOREM TypeCorrect == Spec => []TypeOK
  <1>1. EngineInv => TypeOK
    BY DEF EngineInv, BaseInv
  <1> QED  BY <1>1, EngineInvariant, PTL

\* Alerts answer the events that call for them one for one, and only a death
\* leaves such an event without its alert.
THEOREM AnswersCorrect == Spec => []AlertsAnswerEvents
  <1>1. EngineInv => AlertsAnswerEvents
    BY DEF EngineInv, AnswersInv, Unanswered, AlertsAnswerEvents
  <1> QED  BY <1>1, EngineInvariant, PTL

\* Every alert has its pages on the broker, and only a death leaves pages of
\* an alert that does not exist.
THEOREM PagesCorrect == Spec => []PagesMatchAlerts
  <1>1. EngineInv => PagesMatchAlerts
    BY DEF EngineInv, PagesInv, Phantoms, PagesMatchAlerts
  <1> QED  BY <1>1, EngineInvariant, PTL

\* However handlers race, the outages of a burst behind one NVR fall into at
\* most as many groups as there are handlers.
THEOREM BurstCorrect == Spec => []BurstGroupsBounded
  <1>1. EngineInv => BurstGroupsBounded
    <2> SUFFICES ASSUME EngineInv,
                        NEW as \in SUBSET {a \in alerts : a.type = "DOWN"
                                                          /\ Parent[a.device] # NoDevice},
                        IsBurst(as)
                 PROVE  Cardinality({a.group : a \in as}) <= Cardinality(Handlers)
      BY DEF BurstGroupsBounded
    <2>1. as \subseteq Outages
      BY DEF Outages
    <2> QED  BY <2>1 DEF EngineInv, BurstInv, Few, GroupsOf
  <1> QED  BY <1>1, EngineInvariant, PTL
=============================================================================
