--------------------------- MODULE AccountsProofs ---------------------------
(***************************************************************************)
(* Proofs about Accounts, for any accounts, any number of handlers that    *)
(* overlap, any threshold and any deaths.                                  *)
(*                                                                         *)
(* The argument: a request that has not been decided on has seen the       *)
(* rights of now; every login and change that lacks its audit row has a    *)
(* handler that is about to write it, or that has died; and a login whose  *)
(* row nobody has written since knows the row as it is.                    *)
(***************************************************************************)
EXTENDS Accounts, FiniteSetTheorems, TLAPS

\* The local variables of a handler.
HandlerRec == [stage : AccStage, user : Users, correct : BOOLEAN, row : Row, behind : Nat,
               need : SUBSET Role, claim : Role, seen : SUBSET Rights]

\* A request that is still to be decided on has seen the rights of its account,
\* and one that runs has seen rights that allow it.
Current(h) ==
    /\ handler[h].stage = "received" =>
         RightsOf(account[handler[h].user]) \in handler[h].seen
    /\ handler[h].stage = "running" =>
         \E rights \in handler[h].seen : rights.active /\ rights.role \in handler[h].need

\* The handlers that are about to write an audit row.
Pending == {h \in Handlers : handler[h].stage \in {"granting", "auditing"}}

\* No more than these lack their audit row, but for the dead.
AuditInv ==
    /\ Cardinality(Pending) <= unaudited
    /\ unaudited <= exits + Cardinality(Pending)

\* A handler that verifies a password has missed no more wrong ones than have
\* been written behind its back, and knows the row if none has.
Verifying(h) ==
    handler[h].stage = "verifying" =>
        LET u == handler[h].user
        IN  /\ account[u].exists
            /\ story[u].wrong <= handler[h].row.failed + story[u].crossed + handler[h].behind
            /\ handler[h].behind = 0 =>
                 /\ handler[h].row.failed = account[u].failed
                 /\ handler[h].row.lockedUntil = account[u].lockedUntil

\* What LockoutIsExact says of one account; one that does not exist has no past.
Counted(u) ==
    /\ story[u].wrong <= account[u].failed + story[u].crossed
    /\ story[u].crossed = 0 =>
         /\ account[u].failed = story[u].wrong
         /\ account[u].lockedUntil =
              IF story[u].wrong < Threshold THEN Unlocked ELSE story[u].at + LockTicks
    /\ ~account[u].exists => story[u] = NoStory

LockoutInv == (\A h \in Handlers : Verifying(h)) /\ (\A u \in Users : Counted(u))

AccInv == AccTypeOK /\ (\A h \in Handlers : Current(h)) /\ AuditInv /\ LockoutInv

-----------------------------------------------------------------------------
LEMMA RowTypes ==
    /\ NoRow \in Row /\ Idle \in HandlerRec
    /\ \A role \in Role : NewRow(role) \in Row
    /\ \A row \in Row : RightsOf(row) \in Rights
  <1>1. \A role \in Role : NewRow(role) \in Row
    BY DEF NewRow, Row, Unlocked
  <1>2. NoRow \in Row
    BY DEF NoRow, NewRow, Row, Unlocked, Role
  <1>3. (CHOOSE u \in Users : TRUE) \in Users
    BY AccountsAssumption
  <1>4. Idle \in HandlerRec
    BY <1>2, <1>3 DEF Idle, HandlerRec, AccStage, Role
  <1>5. \A row \in Row : RightsOf(row) \in Rights
    BY DEF RightsOf, Rights, Row
  <1> QED  BY <1>1, <1>2, <1>4, <1>5

LEMMA AccInitTypes == AccInit => AccTypeOK
  <1> SUFFICES ASSUME AccInit PROVE AccTypeOK
    OBVIOUS
  <1>1. account \in [Users -> Row]
    BY RowTypes DEF AccInit, Role
  <1>2. token \in [Users -> [until : Nat, role : Role]]
    BY DEF AccInit, NoToken, Role
  <1>3. handler \in [Handlers -> HandlerRec]
    BY RowTypes DEF AccInit
  <1>4. story \in [Users -> [wrong : Nat, at : Nat, crossed : Nat]]
    BY DEF AccInit, NoStory
  <1>5. /\ accNow \in 0 .. LastAccTick /\ calls \in 0 .. MaxCalls /\ exits \in 0 .. MaxExits
        /\ unaudited \in Nat
    BY AccountsAssumption DEF AccInit
  <1> QED  BY <1>1, <1>2, <1>3, <1>4, <1>5 DEF AccTypeOK, HandlerRec

\* Every step keeps the tables and the handlers well-typed (the number of
\* changes without an audit row is AuditStep's).
LEMMA AccTypeStep ==
    ASSUME AccTypeOK, [AccNext]_accVars
    PROVE  /\ accNow' \in 0 .. LastAccTick /\ calls' \in 0 .. MaxCalls
           /\ exits' \in 0 .. MaxExits
           /\ account' \in [Users -> Row]
           /\ token' \in [Users -> [until : Nat, role : Role]]
           /\ handler' \in [Handlers -> HandlerRec]
           /\ story' \in [Users -> [wrong : Nat, at : Nat, crossed : Nat]]
  <1> DEFINE Goal == /\ accNow' \in 0 .. LastAccTick /\ calls' \in 0 .. MaxCalls
                     /\ exits' \in 0 .. MaxExits
                     /\ account' \in [Users -> Row]
                     /\ token' \in [Users -> [until : Nat, role : Role]]
                     /\ handler' \in [Handlers -> HandlerRec]
                     /\ story' \in [Users -> [wrong : Nat, at : Nat, crossed : Nat]]
  <1> SUFFICES Goal
    OBVIOUS
  <1>0. /\ accNow \in 0 .. LastAccTick /\ calls \in 0 .. MaxCalls /\ exits \in 0 .. MaxExits
        /\ account \in [Users -> Row]
        /\ token \in [Users -> [until : Nat, role : Role]]
        /\ handler \in [Handlers -> HandlerRec]
        /\ story \in [Users -> [wrong : Nat, at : Nat, crossed : Nat]]
        /\ accNow \in Nat
    BY AccountsAssumption DEF AccTypeOK, HandlerRec
  <1>1. CASE AccTick
    BY <1>0, <1>1, AccountsAssumption DEF AccTick
  <1>2. ASSUME NEW h \in Handlers, NEW u \in Users, NEW correct \in BOOLEAN,
               BeginLogin(h, u, correct)
        PROVE  Goal
    <2>1. [Idle EXCEPT !.stage = "verifying", !.user = u, !.correct = correct,
                       !.row = account[u]] \in HandlerRec
      BY <1>0, RowTypes DEF HandlerRec, AccStage
    <2>2. handler' \in [Handlers -> HandlerRec]
      BY <1>0, <1>2, <2>1 DEF BeginLogin
    <2> QED  BY <1>0, <1>2, <2>2, AccountsAssumption DEF BeginLogin, Receive
  <1>3. ASSUME NEW h \in Handlers, CommitLogin(h) PROVE Goal
    <2>1. handler[h] \in HandlerRec /\ handler[h].row \in Row /\ handler[h].user \in Users
          /\ handler[h].row.failed \in Nat /\ handler[h].row.lockedUntil \in Nat
          /\ handler[h].behind \in Nat
      BY <1>0 DEF HandlerRec, Row
    <2> DEFINE u   == handler[h].user
               new == IF handler[h].correct THEN [failed |-> 0, lockedUntil |-> Unlocked]
                      ELSE AfterFailure(handler[h].row)
    <2>2. new.failed \in Nat /\ new.lockedUntil \in Nat
      BY <1>0, <2>1, AccountsAssumption DEF AfterFailure, Unlocked
    <2>3. PICK f \in Nat, l \in Nat :
             account' = [account EXCEPT ![u].failed = f, ![u].lockedUntil = l]
      <3>1. account[u].failed \in Nat /\ account[u].lockedUntil \in Nat
        BY <1>0, <2>1 DEF Row
      <3> HIDE DEF new
      <3>2. \E wr : account' = [account EXCEPT
                    ![u].failed = IF "failed" \in wr THEN new.failed ELSE @,
                    ![u].lockedUntil = IF "lockedUntil" \in wr THEN new.lockedUntil ELSE @]
        BY <1>3 DEF CommitLogin, new
      <3>3. PICK wr : account' = [account EXCEPT
                    ![u].failed = IF "failed" \in wr THEN new.failed ELSE @,
                    ![u].lockedUntil = IF "lockedUntil" \in wr THEN new.lockedUntil ELSE @]
        BY <3>2
      <3> QED  BY <2>1, <2>2, <3>1, <3>3
    <2>4. account' \in [Users -> Row]
      BY <1>0, <2>1, <2>3 DEF Row
    <2>5. story' \in [Users -> [wrong : Nat, at : Nat, crossed : Nat]]
      BY <1>0, <1>3, <2>1 DEF CommitLogin
    <2>6. ASSUME NEW g \in Handlers
          PROVE  [handler[g] EXCEPT !.behind = @ + 1] \in HandlerRec
      <3>1. handler[g] \in HandlerRec /\ handler[g].behind + 1 \in Nat
        <4>1. handler[g].behind \in Nat
          BY <1>0 DEF HandlerRec
        <4> QED  BY <1>0, <4>1
      <3> QED  BY <3>1 DEF HandlerRec
    <2>7. [handler[h] EXCEPT !.stage = "granting"] \in HandlerRec
      BY <2>1 DEF HandlerRec, AccStage
    <2>8. handler' \in [Handlers -> HandlerRec]
      BY <1>0, <1>3, <2>6, <2>7, RowTypes DEF CommitLogin
    <2> QED  BY <1>0, <1>3, <2>4, <2>5, <2>8 DEF CommitLogin
  <1>4. ASSUME NEW h \in Handlers, GrantToken(h) PROVE Goal
    <2>1. handler[h].user \in Users /\ account[handler[h].user].role \in Role
      BY <1>0 DEF HandlerRec, Row
    <2>2. [until |-> accNow + TokenTicks, role |-> account[handler[h].user].role]
             \in [until : Nat, role : Role]
      <3>1. accNow + TokenTicks \in Nat
        BY <1>0, AccountsAssumption
      <3> QED  BY <2>1, <3>1
    <2>3. token' \in [Users -> [until : Nat, role : Role]]
      BY <1>0, <1>4, <2>1, <2>2 DEF GrantToken
    <2> QED  BY <1>0, <1>4, <2>3, RowTypes DEF GrantToken
  <1>5. ASSUME NEW h \in Handlers, NEW u \in Users, NEW need \in {{"ADMIN"}, Role},
               ReceiveRequest(h, u, need)
        PROVE  Goal
    <2>1. need \subseteq Role /\ token[u].role \in Role /\ RightsOf(account[u]) \in Rights
      BY <1>0, RowTypes DEF Role
    <2>2. [Idle EXCEPT !.stage = "received", !.user = u, !.need = need,
                       !.claim = token[u].role, !.seen = {RightsOf(account[u])}] \in HandlerRec
      BY <2>1, RowTypes DEF HandlerRec, AccStage
    <2>3. handler' \in [Handlers -> HandlerRec]
      BY <1>0, <1>5, <2>2 DEF ReceiveRequest
    <2> QED  BY <1>0, <1>5, <2>3, AccountsAssumption DEF ReceiveRequest, Receive
  <1>6. ASSUME NEW h \in Handlers, Authorise(h) PROVE Goal
    <2>1. [handler[h] EXCEPT !.stage = "running"] \in HandlerRec
      BY <1>0 DEF HandlerRec, AccStage
    <2>2. handler' \in [Handlers -> HandlerRec]
      BY <1>0, <1>6, <2>1, RowTypes DEF Authorise
    <2> QED  BY <1>0, <1>6, <2>2 DEF Authorise
  <1>7. ASSUME NEW h \in Handlers, Answer(h) \/ RecordAudit(h) \/ HandlerDies(h) PROVE Goal
    <2>1. handler' \in [Handlers -> HandlerRec]
      BY <1>0, <1>7, RowTypes DEF Answer, RecordAudit, HandlerDies
    <2> QED  BY <1>0, <1>7, <2>1, AccountsAssumption DEF Answer, RecordAudit, HandlerDies
  <1>8. ASSUME NEW h \in Handlers, NEW u \in Users, NEW row \in Row, ChangeAccount(h, u, row)
        PROVE  Goal
    <2>1. [handler[h] EXCEPT !.stage = "auditing"] \in HandlerRec
      BY <1>0 DEF HandlerRec, AccStage
    <2>2. \A g \in Handlers : [handler[g] EXCEPT !.seen = @ \cup {RightsOf(row)}] \in HandlerRec
      <3> TAKE g \in Handlers
      <3>1. handler[g].seen \cup {RightsOf(row)} \in SUBSET Rights
        BY <1>0, RowTypes DEF HandlerRec
      <3> QED  BY <1>0, <3>1 DEF HandlerRec
    <2>3. handler' \in [Handlers -> HandlerRec]
      BY <1>0, <1>8, <2>1, <2>2 DEF ChangeAccount
    <2> QED  BY <1>0, <1>8, <2>3 DEF ChangeAccount
  <1>9. ASSUME NEW h \in Handlers, NEW u \in Users, NEW role \in Role,
               CreateUser(h, u, role) \/ UpdateRole(h, u, role)
        PROVE  Goal
    <2>1. [account[u] EXCEPT !.role = role] \in Row
      BY <1>0 DEF Row
    <2> QED  BY <1>8, <1>9, <2>1, RowTypes DEF CreateUser, UpdateRole
  <1>10. ASSUME NEW h \in Handlers, NEW u \in Users, NEW active \in BOOLEAN,
                UpdateActive(h, u, active)
         PROVE  Goal
    <2>1. [account[u] EXCEPT !.active = active] \in Row
      BY <1>0 DEF Row
    <2> QED  BY <1>8, <1>10, <2>1 DEF UpdateActive
  <1>11. CASE UNCHANGED accVars
    BY <1>0, <1>11 DEF accVars
  <1> HIDE DEF Goal
  <1> QED
    BY <1>1, <1>2, <1>3, <1>4, <1>5, <1>6, <1>7, <1>9, <1>10, <1>11 DEF AccNext

-----------------------------------------------------------------------------
\* A request whose own variables and whose account's rights stay is no worse.
LEMMA CurrentKept ==
    ASSUME NEW g \in Handlers, Current(g),
           handler'[g].stage = handler[g].stage, handler'[g].user = handler[g].user,
           handler'[g].seen = handler[g].seen, handler'[g].need = handler[g].need,
           RightsOf(account'[handler[g].user]) = RightsOf(account[handler[g].user])
    PROVE  Current(g)'
  BY DEF Current, RightsOf

\* Every handler's rights stay current in every step.
LEMMA CurrentStep ==
    ASSUME AccTypeOK, \A g \in Handlers : Current(g), [AccNext]_accVars,
           NEW g \in Handlers
    PROVE  Current(g)'
  <1> SUFFICES Current(g)'
    OBVIOUS
  <1>0. /\ account \in [Users -> Row] /\ handler \in [Handlers -> HandlerRec]
        /\ handler[g].user \in Users /\ handler[g].seen \subseteq Rights /\ Current(g)
        /\ Idle.stage = "idle"
    BY DEF AccTypeOK, HandlerRec, Idle
  <1>1. CASE AccTick
    BY <1>0, <1>1, CurrentKept DEF AccTick
  <1>2. ASSUME NEW h \in Handlers, NEW u \in Users, NEW correct \in BOOLEAN,
               BeginLogin(h, u, correct)
        PROVE  Current(g)'
    <2>1. handler' = [handler EXCEPT ![h] = [Idle EXCEPT !.stage = "verifying", !.user = u,
                                        !.correct = correct, !.row = account[u]]]
          /\ account' = account
      BY <1>2 DEF BeginLogin, Receive
    <2>2. CASE g = h
      BY <1>0, <2>1, <2>2 DEF Current, Idle
    <2>3. CASE g # h
      BY <1>0, <2>1, <2>3, CurrentKept
    <2> QED  BY <2>2, <2>3
  <1>3. ASSUME NEW h \in Handlers, CommitLogin(h) PROVE Current(g)'
    <2>1. \A v \in Users : RightsOf(account'[v]) = RightsOf(account[v])
      <3>1. \E f, l : account' = [account EXCEPT ![handler[h].user].failed = f,
                                                 ![handler[h].user].lockedUntil = l]
        BY <1>3, Zenon DEF CommitLogin
      <3> QED  BY <1>0, <3>1 DEF RightsOf, Row
    <2>2. CASE g = h
      BY <1>0, <1>3, <2>2 DEF Current, CommitLogin, HandlerRec
    <2>3. CASE g # h
      <3>1. handler'[g] = IF handler[g].stage = "verifying" /\ handler[g].user = handler[h].user
                          THEN [handler[g] EXCEPT !.behind = @ + 1] ELSE handler[g]
        BY <1>3, <2>3 DEF CommitLogin
      <3>2. /\ handler'[g].stage = handler[g].stage /\ handler'[g].user = handler[g].user
            /\ handler'[g].seen = handler[g].seen /\ handler'[g].need = handler[g].need
        BY <1>0, <3>1 DEF HandlerRec
      <3> QED  BY <1>0, <2>1, <3>2, CurrentKept
    <2> QED  BY <2>2, <2>3
  <1>4. ASSUME NEW h \in Handlers, GrantToken(h) \/ Answer(h) \/ RecordAudit(h) \/ HandlerDies(h)
        PROVE  Current(g)'
    <2>1. handler' = [handler EXCEPT ![h] = Idle] /\ account' = account
      BY <1>4 DEF GrantToken, Answer, RecordAudit, HandlerDies
    <2>2. CASE g = h
      BY <1>0, <2>1, <2>2 DEF Current
    <2>3. CASE g # h
      BY <1>0, <2>1, <2>3, CurrentKept
    <2> QED  BY <2>2, <2>3
  <1>5. ASSUME NEW h \in Handlers, NEW u \in Users, NEW need \in {{"ADMIN"}, Role},
               ReceiveRequest(h, u, need)
        PROVE  Current(g)'
    <2>1. handler' = [handler EXCEPT ![h] = [Idle EXCEPT !.stage = "received", !.user = u,
                        !.need = need, !.claim = token[u].role, !.seen = {RightsOf(account[u])}]]
          /\ account' = account
      BY <1>5 DEF ReceiveRequest, Receive
    <2>2. CASE g = h
      BY <1>0, <2>1, <2>2 DEF Current, Idle
    <2>3. CASE g # h
      BY <1>0, <2>1, <2>3, CurrentKept
    <2> QED  BY <2>2, <2>3
  <1>6. ASSUME NEW h \in Handlers, Authorise(h) PROVE Current(g)'
    <2>1. handler' = [handler EXCEPT ![h] = IF Allowed(h) THEN [@ EXCEPT !.stage = "running"]
                                                          ELSE Idle]
          /\ account' = account /\ handler[h].stage = "received"
      BY <1>6 DEF Authorise
    <2>2. CASE g = h /\ Allowed(h)
      <3>1. handler'[g] = [handler[g] EXCEPT !.stage = "running"]
        BY <1>0, <2>1, <2>2
      <3>2. RightsOf(account[handler[g].user]) \in handler[g].seen
        BY <1>0, <2>1, <2>2 DEF Current
      <3> QED  BY <1>0, <2>2, <3>1, <3>2 DEF Current, Allowed, RightsOf, HandlerRec
    <2>3. CASE g = h /\ ~Allowed(h)
      BY <1>0, <2>1, <2>3 DEF Current
    <2>4. CASE g # h
      BY <1>0, <2>1, <2>4, CurrentKept
    <2> QED  BY <2>2, <2>3, <2>4
  <1>7. ASSUME NEW h \in Handlers, NEW u \in Users, NEW row, ChangeAccount(h, u, row)
        PROVE  Current(g)'
    <2>1. account' = [account EXCEPT ![u] = row]
      BY <1>7 DEF ChangeAccount
    <2>2. CASE g = h
      BY <1>0, <1>7, <2>2 DEF Current, ChangeAccount, HandlerRec
    <2>3. CASE g # h /\ handler[g].stage \in {"received", "running"} /\ handler[g].user = u
      <3>1. handler'[g] = [handler[g] EXCEPT !.seen = @ \cup {RightsOf(row)}]
        BY <1>7, <2>3 DEF ChangeAccount
      <3>2. account'[handler[g].user] = row
        BY <1>0, <2>1, <2>3
      <3> QED  BY <1>0, <3>1, <3>2 DEF Current, HandlerRec, RightsOf
    <2>4. CASE g # h /\ handler[g].stage \in {"received", "running"} /\ handler[g].user # u
      <3>1. handler'[g] = handler[g]
        BY <1>7, <2>4 DEF ChangeAccount
      <3> QED  BY <1>0, <2>1, <2>4, <3>1, CurrentKept
    <2>5. CASE g # h /\ handler[g].stage \notin {"received", "running"}
      <3>1. handler'[g] = handler[g]
        BY <1>7, <2>5 DEF ChangeAccount
      <3> QED  BY <2>5, <3>1 DEF Current
    <2> QED  BY <2>2, <2>3, <2>4, <2>5
  <1>8. ASSUME NEW h \in Handlers, NEW u \in Users, NEW role \in Role,
               CreateUser(h, u, role) \/ UpdateRole(h, u, role)
        PROVE  Current(g)'
    BY <1>7, <1>8 DEF CreateUser, UpdateRole
  <1>9. ASSUME NEW h \in Handlers, NEW u \in Users, NEW active \in BOOLEAN,
               UpdateActive(h, u, active)
        PROVE  Current(g)'
    BY <1>7, <1>9 DEF UpdateActive
  <1>10. CASE UNCHANGED accVars
    BY <1>0, <1>10, CurrentKept DEF accVars
  <1> QED
    BY <1>1, <1>2, <1>3, <1>4, <1>5, <1>6, <1>8, <1>9, <1>10 DEF AccNext

-----------------------------------------------------------------------------
\* The number of handlers about to write an audit row.
LEMMA PendingIsFinite == IsFiniteSet(Pending) /\ Cardinality(Pending) \in Nat
  <1>1. Pending \subseteq Handlers /\ IsFiniteSet(Handlers)
    BY AccountsAssumption DEF Pending
  <1> QED  BY <1>1, FS_Subset, FS_CardinalityType

LEMMA AuditStep ==
    ASSUME AccTypeOK, AuditInv, [AccNext]_accVars
    PROVE  AuditInv' /\ unaudited' \in Nat
  <1> SUFFICES AuditInv' /\ unaudited' \in Nat
    OBVIOUS
  <1>0. /\ unaudited \in Nat /\ exits \in Nat /\ handler \in [Handlers -> HandlerRec]
        /\ Idle.stage = "idle"
    BY AccountsAssumption DEF AccTypeOK, HandlerRec, Idle
  <1>1. ASSUME Pending' = Pending, unaudited' = unaudited, exits' = exits
        PROVE  AuditInv' /\ unaudited' \in Nat
    BY <1>0, <1>1 DEF AuditInv
  <1>2. ASSUME NEW h, h \notin Pending, Pending' = Pending \cup {h},
               unaudited' = unaudited + 1, exits' = exits
        PROVE  AuditInv' /\ unaudited' \in Nat
    <2>1. Cardinality(Pending') = Cardinality(Pending) + 1
      BY <1>2, PendingIsFinite, FS_AddElement
    <2> QED  BY <1>0, <1>2, <2>1, PendingIsFinite DEF AuditInv
  <1>3. ASSUME NEW h \in Handlers, GrantToken(h) \/ RecordAudit(h)
        PROVE  AuditInv' /\ unaudited' \in Nat
    <2>1. /\ handler' = [handler EXCEPT ![h] = Idle] /\ h \in Pending
          /\ unaudited' = unaudited - 1 /\ exits' = exits
      BY <1>3 DEF GrantToken, RecordAudit, Pending
    <2>2. Pending' = Pending \ {h}
      BY <1>0, <2>1 DEF Pending
    <2>3. Cardinality(Pending') = Cardinality(Pending) - 1
      BY <2>1, <2>2, PendingIsFinite, FS_RemoveElement
    <2>4. Cardinality(Pending') \in Nat
      <3>1. IsFiniteSet(Pending')
        BY <2>2, PendingIsFinite, FS_Subset
      <3> QED  BY <3>1, FS_CardinalityType
    <2> QED  BY <1>0, <2>1, <2>3, <2>4, PendingIsFinite DEF AuditInv
  <1>4. ASSUME NEW h \in Handlers, HandlerDies(h) PROVE AuditInv' /\ unaudited' \in Nat
    <2>1. /\ handler' = [handler EXCEPT ![h] = Idle]
          /\ unaudited' = unaudited /\ exits' = exits + 1
      BY <1>4 DEF HandlerDies
    <2>2. Pending' = Pending \ {h}
      BY <1>0, <2>1 DEF Pending
    <2>3. \/ Cardinality(Pending') = Cardinality(Pending)
          \/ Cardinality(Pending') = Cardinality(Pending) - 1
      <3>1. CASE h \in Pending
        BY <2>2, <3>1, PendingIsFinite, FS_RemoveElement
      <3>2. CASE h \notin Pending
        <4>1. Pending' = Pending
          BY <2>2, <3>2
        <4> QED  BY <4>1
      <3> QED  BY <3>1, <3>2
    <2> QED  BY <1>0, <2>1, <2>3, PendingIsFinite DEF AuditInv
  <1>5. ASSUME NEW h \in Handlers, CommitLogin(h) PROVE AuditInv' /\ unaudited' \in Nat
    <2>1. handler' \in [Handlers -> HandlerRec]
      BY AccTypeStep
    <2>2. \A g \in Handlers \ {h} : handler'[g].stage = handler[g].stage
      <3> SUFFICES ASSUME NEW g \in Handlers, g # h PROVE handler'[g].stage = handler[g].stage
        OBVIOUS
      <3>1. handler'[g] = IF handler[g].stage = "verifying" /\ handler[g].user = handler[h].user
                          THEN [handler[g] EXCEPT !.behind = @ + 1] ELSE handler[g]
        BY <1>5 DEF CommitLogin
      <3> QED  BY <1>0, <3>1 DEF HandlerRec
    <2>3. h \notin Pending /\ exits' = exits
      BY <1>5 DEF CommitLogin, Pending
    <2>4. CASE handler[h].correct
      <3>1. handler'[h].stage = "granting"
        BY <1>0, <1>5, <2>4 DEF CommitLogin, HandlerRec
      <3>2. Pending' = Pending \cup {h}
        BY <2>2, <3>1 DEF Pending
      <3>3. unaudited' = unaudited + 1
        BY <1>5, <2>4 DEF CommitLogin
      <3> QED  BY <1>2, <2>3, <3>2, <3>3
    <2>5. CASE ~handler[h].correct
      <3>1. handler'[h].stage = "idle"
        BY <1>0, <1>5, <2>5 DEF CommitLogin
      <3>2. Pending' = Pending
        BY <2>2, <2>3, <3>1 DEF Pending
      <3>3. unaudited' = unaudited
        BY <1>0, <1>5, <2>5 DEF CommitLogin
      <3> QED  BY <1>1, <2>3, <3>2, <3>3
    <2> QED  BY <2>4, <2>5
  <1>6. ASSUME NEW h \in Handlers, NEW u \in Users, NEW row, ChangeAccount(h, u, row)
        PROVE  AuditInv' /\ unaudited' \in Nat
    <2>1. \A g \in Handlers \ {h} : handler'[g].stage = handler[g].stage
      <3> SUFFICES ASSUME NEW g \in Handlers, g # h PROVE handler'[g].stage = handler[g].stage
        OBVIOUS
      <3>1. \E more : handler'[g] = handler[g] \/ handler'[g] = [handler[g] EXCEPT !.seen = more]
        BY <1>6, Zenon DEF ChangeAccount
      <3> QED  BY <1>0, <3>1 DEF HandlerRec
    <2>2. handler'[h].stage = "auditing"
      BY <1>0, <1>6 DEF ChangeAccount, HandlerRec
    <2>3. /\ h \notin Pending /\ exits' = exits /\ unaudited' = unaudited + 1
      BY <1>6 DEF ChangeAccount, Pending
    <2>4. Pending' = Pending \cup {h}
      BY <2>1, <2>2 DEF Pending
    <2> QED  BY <1>2, <2>3, <2>4
  <1>7. ASSUME NEW h \in Handlers, NEW u \in Users, NEW correct \in BOOLEAN,
               BeginLogin(h, u, correct)
        PROVE  AuditInv' /\ unaudited' \in Nat
    <2>1. Pending' = Pending
      BY <1>0, <1>7 DEF BeginLogin, Receive, Pending, Idle
    <2> QED  BY <1>1, <1>7, <2>1 DEF BeginLogin, Receive
  <1>8. ASSUME NEW h \in Handlers, NEW u \in Users, NEW need \in {{"ADMIN"}, Role},
               ReceiveRequest(h, u, need)
        PROVE  AuditInv' /\ unaudited' \in Nat
    <2>1. Pending' = Pending
      BY <1>0, <1>8 DEF ReceiveRequest, Receive, Pending, Idle
    <2> QED  BY <1>1, <1>8, <2>1 DEF ReceiveRequest, Receive
  <1>9. ASSUME NEW h \in Handlers, Authorise(h) \/ Answer(h)
        PROVE  AuditInv' /\ unaudited' \in Nat
    <2>1. [handler[h] EXCEPT !.stage = "running"].stage = "running"
      BY <1>0 DEF HandlerRec
    <2>2. Pending' = Pending
      BY <1>0, <1>9, <2>1 DEF Authorise, Answer, Pending
    <2> QED  BY <1>1, <1>9, <2>2 DEF Authorise, Answer
  <1>10. CASE AccTick \/ UNCHANGED accVars
    BY <1>1, <1>10 DEF AccTick, accVars, Pending
  <1>11. ASSUME NEW h \in Handlers, NEW u \in Users, NEW role \in Role,
                CreateUser(h, u, role) \/ UpdateRole(h, u, role)
         PROVE  AuditInv' /\ unaudited' \in Nat
    BY <1>6, <1>11 DEF CreateUser, UpdateRole
  <1>12. ASSUME NEW h \in Handlers, NEW u \in Users, NEW active \in BOOLEAN,
                UpdateActive(h, u, active)
         PROVE  AuditInv' /\ unaudited' \in Nat
    BY <1>6, <1>12 DEF UpdateActive
  <1> QED
    BY <1>3, <1>4, <1>5, <1>7, <1>8, <1>9, <1>10, <1>11, <1>12 DEF AccNext

-----------------------------------------------------------------------------
\* What a login writes, as the row and the story it leaves behind.
LEMMA CommitRequest ==
    ASSUME AccTypeOK, NEW h \in Handlers, CommitLogin(h)
    PROVE  LET u == handler[h].user
               row == handler[h].row
           IN  /\ account'[u].failed =
                     IF handler[h].correct
                     THEN IF row.failed # 0 THEN 0 ELSE account[u].failed
                     ELSE row.failed + 1
               /\ account'[u].lockedUntil =
                     IF handler[h].correct
                     THEN IF row.lockedUntil # 0 THEN 0 ELSE account[u].lockedUntil
                     ELSE IF row.failed + 1 >= Threshold /\ accNow + LockTicks # row.lockedUntil
                          THEN accNow + LockTicks ELSE account[u].lockedUntil
               /\ account'[u].exists = account[u].exists
               /\ story'[u].wrong = IF handler[h].correct THEN 0 ELSE story[u].wrong + 1
               /\ ~handler[h].correct => story'[u].at = accNow
               /\ story'[u].crossed = story[u].crossed + handler[h].behind
               /\ \A v \in Users \ {u} : account'[v] = account[v] /\ story'[v] = story[v]
  <1> DEFINE u == handler[h].user
             row == handler[h].row
             new == IF handler[h].correct THEN [failed |-> 0, lockedUntil |-> Unlocked]
                    ELSE AfterFailure(row)
             wr == Written(row, new, "failed") \cup Written(row, new, "lockedUntil")
  <1>1. /\ account \in [Users -> Row] /\ u \in Users /\ row \in Row /\ row.failed \in Nat
        /\ story \in [Users -> [wrong : Nat, at : Nat, crossed : Nat]]
    BY DEF AccTypeOK, Row
  <1>2. /\ ("failed" \in wr) <=> new.failed # row.failed
        /\ ("lockedUntil" \in wr) <=> new.lockedUntil # row.lockedUntil
    BY DEF Written
  <1>3. account' = [account EXCEPT
            ![u].failed = IF "failed" \in wr THEN new.failed ELSE @,
            ![u].lockedUntil = IF "lockedUntil" \in wr THEN new.lockedUntil ELSE @]
    BY DEF CommitLogin
  <1>4. /\ new.failed = IF handler[h].correct THEN 0 ELSE row.failed + 1
        /\ new.lockedUntil = IF handler[h].correct THEN 0
                             ELSE IF row.failed + 1 >= Threshold THEN accNow + LockTicks
                             ELSE row.lockedUntil
    BY DEF AfterFailure, Unlocked
  <1>5. /\ account'[u].failed = IF "failed" \in wr THEN new.failed ELSE account[u].failed
        /\ account'[u].lockedUntil =
              IF "lockedUntil" \in wr THEN new.lockedUntil ELSE account[u].lockedUntil
        /\ account'[u].exists = account[u].exists
        /\ \A v \in Users \ {u} : account'[v] = account[v]
    <2> HIDE DEF u, new, wr
    <2> QED  BY <1>1, <1>3 DEF Row
  <1>6. /\ story'[u].wrong = IF handler[h].correct THEN 0 ELSE story[u].wrong + 1
        /\ ~handler[h].correct => story'[u].at = accNow
        /\ story'[u].crossed = story[u].crossed + handler[h].behind
        /\ \A v \in Users \ {u} : story'[v] = story[v]
    BY <1>1 DEF CommitLogin
  <1>7. row.failed + 1 # row.failed
    BY <1>1
  <1> HIDE DEF new, wr
  <1> QED  BY <1>2, <1>4, <1>5, <1>6, <1>7

\* A handler and its account that a step leaves alone stay as they should be.
LEMMA VerifyingKept ==
    ASSUME NEW g \in Handlers, Verifying(g), handler'[g] = handler[g],
           account'[handler[g].user] = account[handler[g].user],
           story'[handler[g].user] = story[handler[g].user]
    PROVE  Verifying(g)'
  BY DEF Verifying

\* A handler that is not verifying has nothing to miss.
LEMMA NotVerifying ==
    ASSUME NEW g \in Handlers, handler'[g].stage # "verifying"
    PROVE  Verifying(g)'
  BY DEF Verifying

LEMMA CommitKeepsLockout ==
    ASSUME AccTypeOK, LockoutInv, NEW h \in Handlers, CommitLogin(h)
    PROVE  LockoutInv'
  <1> PICK u \in Users : u = handler[h].user
    BY DEF AccTypeOK
  <1> DEFINE row == handler[h].row
             b == handler[h].behind
  <1>1. /\ account \in [Users -> Row] /\ row \in Row /\ b \in Nat
        /\ handler \in [Handlers -> HandlerRec]
        /\ row.failed \in Nat /\ row.lockedUntil \in Nat
        /\ account[u].failed \in Nat /\ account[u].lockedUntil \in Nat
        /\ story[u].wrong \in Nat /\ story[u].at \in Nat /\ story[u].crossed \in Nat
        /\ accNow \in Nat /\ Threshold \in Nat \ {0} /\ LockTicks \in Nat
    BY AccountsAssumption DEF AccTypeOK, HandlerRec, Row
  <1>2. /\ account[u].exists
        /\ story[u].wrong <= row.failed + story[u].crossed + b
        /\ b = 0 => row.failed = account[u].failed /\ row.lockedUntil = account[u].lockedUntil
        /\ story[u].wrong <= account[u].failed + story[u].crossed
        /\ story[u].crossed = 0 =>
             /\ account[u].failed = story[u].wrong
             /\ account[u].lockedUntil =
                  IF story[u].wrong < Threshold THEN Unlocked ELSE story[u].at + LockTicks
    BY <1>1 DEF LockoutInv, Verifying, Counted, CommitLogin
  <1>3. ASSUME NEW g \in Handlers PROVE Verifying(g)'
    <2>1. CASE g = h
      <3>1. handler'[g].stage # "verifying"
        BY <1>1, <2>1 DEF CommitLogin, HandlerRec, Idle
      <3> QED  BY <3>1, NotVerifying
    <2>2. CASE g # h /\ handler[g].stage = "verifying" /\ handler[g].user = u
      <3>1. handler'[g] = [handler[g] EXCEPT !.behind = @ + 1]
        BY <2>2 DEF CommitLogin
      <3>2. /\ handler[g].behind \in Nat /\ handler[g].row.failed \in Nat
        BY <1>1 DEF HandlerRec, Row
      <3>3. /\ handler'[g].behind = handler[g].behind + 1 /\ handler'[g].user = u
            /\ handler'[g].row = handler[g].row
        BY <1>1, <2>2, <3>1 DEF HandlerRec
      <3>4. story[u].wrong <= handler[g].row.failed + story[u].crossed + handler[g].behind
        BY <2>2 DEF LockoutInv, Verifying
      <3>5. /\ story'[u].wrong <= story[u].wrong + 1
            /\ story'[u].crossed = story[u].crossed + b
            /\ account'[u].exists
        BY <1>1, <1>2, CommitRequest
      <3>6. story'[u].wrong \in Nat
        BY <1>1, CommitRequest
      <3>7. story'[u].wrong <= handler'[g].row.failed + story'[u].crossed + handler'[g].behind
        BY <1>1, <3>2, <3>3, <3>4, <3>5, <3>6
      <3> HIDE DEF b
      <3> QED  BY <3>2, <3>3, <3>5, <3>7 DEF Verifying
    <2>3. CASE g # h /\ handler[g].stage # "verifying"
      <3>1. handler'[g] = handler[g]
        BY <2>3 DEF CommitLogin
      <3> QED  BY <2>3, <3>1, NotVerifying
    <2>4. CASE g # h /\ handler[g].user # u
      <3>1. handler'[g] = handler[g] /\ handler[g].user \in Users
        BY <1>1, <2>4 DEF CommitLogin, HandlerRec
      <3> QED  BY <2>4, <3>1, CommitRequest, VerifyingKept DEF LockoutInv
    <2> QED  BY <2>1, <2>2, <2>3, <2>4
  <1>4. Counted(u)'
    <2>1. CASE handler[h].correct
      <3>1. /\ story'[u].wrong = 0 /\ story'[u].crossed = story[u].crossed + b
            /\ account'[u].exists /\ account'[u].failed \in Nat
            /\ account'[u].failed = IF row.failed # 0 THEN 0 ELSE account[u].failed
            /\ account'[u].lockedUntil = IF row.lockedUntil # 0 THEN 0 ELSE account[u].lockedUntil
        BY <1>1, <1>2, <2>1, CommitRequest
      <3> HIDE DEF b, row
      <3> QED  BY <1>1, <1>2, <3>1 DEF Counted, Unlocked
    <2>2. CASE ~handler[h].correct
      <3>1. /\ story'[u].wrong = story[u].wrong + 1 /\ story'[u].at = accNow
            /\ story'[u].crossed = story[u].crossed + b
            /\ account'[u].exists /\ account'[u].failed = row.failed + 1
            /\ account'[u].lockedUntil =
                 IF row.failed + 1 >= Threshold /\ accNow + LockTicks # row.lockedUntil
                 THEN accNow + LockTicks ELSE account[u].lockedUntil
        BY <1>1, <1>2, <2>2, CommitRequest
      <3> HIDE DEF b, row
      <3>2. story'[u].wrong <= account'[u].failed + story'[u].crossed
        BY <1>1, <1>2, <3>1
      <3>3. ASSUME story'[u].crossed = 0
            PROVE  /\ account'[u].failed = story'[u].wrong
                   /\ account'[u].lockedUntil =
                        IF story'[u].wrong < Threshold THEN Unlocked
                        ELSE story'[u].at + LockTicks
        <4>1. b = 0 /\ story[u].crossed = 0
          BY <1>1, <3>1, <3>3
        <4>2. /\ row.failed = story[u].wrong
              /\ account[u].lockedUntil =
                   IF story[u].wrong < Threshold THEN 0 ELSE story[u].at + LockTicks
              /\ row.lockedUntil = account[u].lockedUntil
          BY <1>2, <4>1 DEF Unlocked
        <4>3. story'[u].wrong < Threshold <=> ~(row.failed + 1 >= Threshold)
          BY <1>1, <3>1, <4>2
        <4>4. story'[u].wrong < Threshold => story[u].wrong < Threshold
          BY <1>1, <3>1
        <4> QED  BY <3>1, <4>2, <4>3, <4>4 DEF Unlocked
      <3> QED  BY <3>1, <3>2, <3>3 DEF Counted
    <2> QED  BY <2>1, <2>2
  <1>5. ASSUME NEW v \in Users, v # u PROVE Counted(v)'
    <2>1. account'[v] = account[v] /\ story'[v] = story[v]
      BY <1>5, CommitRequest
    <2> QED  BY <2>1 DEF LockoutInv, Counted
  <1> QED  BY <1>3, <1>4, <1>5 DEF LockoutInv

\* Administrators' changes leave the lock of an account and its count alone.
LEMMA ChangeKeepsLockout ==
    ASSUME AccTypeOK, LockoutInv, NEW h \in Handlers, NEW u \in Users, NEW row \in Row,
           ChangeAccount(h, u, row), row.exists,
           row.failed = account[u].failed, row.lockedUntil = account[u].lockedUntil
    PROVE  LockoutInv'
  <1>1. /\ account \in [Users -> Row] /\ handler \in [Handlers -> HandlerRec]
    BY DEF AccTypeOK, HandlerRec
  <1>2. /\ account' = [account EXCEPT ![u] = row] /\ story' = story
    BY DEF ChangeAccount
  <1>3. ASSUME NEW g \in Handlers PROVE Verifying(g)'
    <2>1. CASE handler[g].stage = "verifying"
      <3>1. handler'[g] = handler[g] /\ handler[g].user \in Users
        BY <1>1, <2>1 DEF ChangeAccount, HandlerRec
      <3>2. /\ account'[handler[g].user].failed = account[handler[g].user].failed
            /\ account'[handler[g].user].lockedUntil = account[handler[g].user].lockedUntil
            /\ account[handler[g].user].exists => account'[handler[g].user].exists
        BY <1>1, <1>2, <3>1
      <3> QED  BY <1>2, <3>1, <3>2 DEF LockoutInv, Verifying
    <2>2. CASE handler[g].stage # "verifying"
      <3>1. handler'[g].stage # "verifying"
        BY <1>1, <2>2 DEF ChangeAccount, HandlerRec
      <3> QED  BY <3>1, NotVerifying
    <2> QED  BY <2>1, <2>2
  <1>4. ASSUME NEW v \in Users PROVE Counted(v)'
    BY <1>1, <1>2 DEF LockoutInv, Counted
  <1> QED  BY <1>3, <1>4 DEF LockoutInv

LEMMA LockoutStep ==
    ASSUME AccTypeOK, LockoutInv, [AccNext]_accVars
    PROVE  LockoutInv'
  <1> SUFFICES LockoutInv'
    OBVIOUS
  <1>0. /\ account \in [Users -> Row] /\ handler \in [Handlers -> HandlerRec]
        /\ Idle.stage = "idle" /\ Idle.behind = 0
    BY DEF AccTypeOK, HandlerRec, Idle
  <1>1. ASSUME account' = account, story' = story,
               \A g \in Handlers : handler'[g] = handler[g] \/ handler'[g].stage # "verifying"
        PROVE  LockoutInv'
    BY <1>1, VerifyingKept, NotVerifying DEF LockoutInv, Counted
  <1>2. ASSUME NEW h \in Handlers, NEW u \in Users, NEW correct \in BOOLEAN,
               BeginLogin(h, u, correct)
        PROVE  LockoutInv'
    <2>1. /\ handler' = [handler EXCEPT ![h] = [Idle EXCEPT !.stage = "verifying", !.user = u,
                                        !.correct = correct, !.row = account[u]]]
          /\ account' = account /\ story' = story /\ account[u].exists
      BY <1>2 DEF BeginLogin, Receive
    <2>2. /\ handler'[h].behind = 0 /\ handler'[h].user = u /\ handler'[h].row = account[u]
      BY <1>0, <2>1 DEF Idle
    <2>3. story[u].wrong <= account[u].failed + story[u].crossed + 0
      <3>1. /\ story[u].wrong \in Nat /\ account[u].failed \in Nat /\ story[u].crossed \in Nat
        BY DEF AccTypeOK, Row
      <3> QED  BY <3>1 DEF LockoutInv, Counted
    <2>4. Verifying(h)'
      BY <2>1, <2>2, <2>3 DEF Verifying
    <2>5. ASSUME NEW g \in Handlers, g # h PROVE Verifying(g)'
      BY <1>0, <2>1, <2>5, VerifyingKept DEF LockoutInv
    <2> QED  BY <2>1, <2>4, <2>5 DEF LockoutInv, Counted
  <1>3. ASSUME NEW h \in Handlers,
               GrantToken(h) \/ Answer(h) \/ RecordAudit(h) \/ HandlerDies(h)
        PROVE  LockoutInv'
    <2>1. handler' = [handler EXCEPT ![h] = Idle] /\ account' = account /\ story' = story
      BY <1>3 DEF GrantToken, Answer, RecordAudit, HandlerDies
    <2> QED  BY <1>0, <1>1, <2>1
  <1>4. ASSUME NEW h \in Handlers, Authorise(h) PROVE LockoutInv'
    <2>1. /\ account' = account /\ story' = story
          /\ \E r : handler' = [handler EXCEPT ![h] = r]
                   /\ (r = [handler[h] EXCEPT !.stage = "running"] \/ r = Idle)
      BY <1>4 DEF Authorise
    <2>2. [handler[h] EXCEPT !.stage = "running"].stage = "running"
      BY <1>0 DEF HandlerRec
    <2> QED  BY <1>0, <1>1, <2>1, <2>2
  <1>5. ASSUME NEW h \in Handlers, NEW u \in Users, NEW need \in {{"ADMIN"}, Role},
               ReceiveRequest(h, u, need)
        PROVE  LockoutInv'
    <2> DEFINE r == [Idle EXCEPT !.stage = "received", !.user = u, !.need = need,
                                 !.claim = token[u].role, !.seen = {RightsOf(account[u])}]
    <2>1. account' = account /\ story' = story /\ handler' = [handler EXCEPT ![h] = r]
      BY <1>5 DEF ReceiveRequest, Receive
    <2>2. r.stage = "received"
      BY DEF Idle
    <2> HIDE DEF r
    <2> QED  BY <1>0, <1>1, <2>1, <2>2
  <1>6. ASSUME NEW h \in Handlers, NEW u \in Users, NEW role \in Role, CreateUser(h, u, role)
        PROVE  LockoutInv'
    <2>1. Counted(u) /\ ~account[u].exists /\ ChangeAccount(h, u, NewRow(role))
      BY <1>6 DEF CreateUser, LockoutInv
    <2>2. story[u].wrong = 0 /\ story[u].crossed = 0
      BY <2>1 DEF Counted, NoStory
    <2>3. account[u].failed = 0 /\ account[u].lockedUntil = Unlocked
      BY <2>1, <2>2, AccountsAssumption DEF Counted
    <2>4. /\ NewRow(role) \in Row /\ NewRow(role).exists /\ NewRow(role).failed = 0
          /\ NewRow(role).lockedUntil = Unlocked
      BY RowTypes DEF NewRow
    <2> QED  BY <2>1, <2>3, <2>4, ChangeKeepsLockout
  <1>7. ASSUME NEW h \in Handlers, NEW u \in Users, NEW role \in Role, UpdateRole(h, u, role)
        PROVE  LockoutInv'
    <2>1. LET row == [account[u] EXCEPT !.role = role]
          IN  /\ row \in Row /\ row.exists /\ row.failed = account[u].failed
              /\ row.lockedUntil = account[u].lockedUntil /\ ChangeAccount(h, u, row)
      BY <1>0, <1>7 DEF UpdateRole, Row
    <2> QED  BY <2>1, ChangeKeepsLockout
  <1>8. ASSUME NEW h \in Handlers, NEW u \in Users, NEW active \in BOOLEAN,
               UpdateActive(h, u, active)
        PROVE  LockoutInv'
    <2>1. LET row == [account[u] EXCEPT !.active = active]
          IN  /\ row \in Row /\ row.exists /\ row.failed = account[u].failed
              /\ row.lockedUntil = account[u].lockedUntil /\ ChangeAccount(h, u, row)
      BY <1>0, <1>8 DEF UpdateActive, Row
    <2> QED  BY <2>1, ChangeKeepsLockout
  <1>9. CASE AccTick \/ UNCHANGED accVars
    BY <1>1, <1>9 DEF AccTick, accVars
  <1> QED
    BY <1>2, <1>3, <1>4, <1>5, <1>6, <1>7, <1>8, <1>9, CommitKeepsLockout DEF AccNext

-----------------------------------------------------------------------------
\* A threshold of zero would lock accounts that nobody has tried yet.
LEMMA AccInitInv == AccInit => AccInv
  <1> SUFFICES ASSUME AccInit PROVE AccInv
    OBVIOUS
  <1>1. \A h \in Handlers : Current(h) /\ Verifying(h)
    BY DEF AccInit, Idle, Current, Verifying
  <1>2. AuditInv
    <2>1. Pending = {}
      BY DEF AccInit, Idle, Pending
    <2>2. unaudited = 0 /\ exits = 0
      BY DEF AccInit
    <2> QED  BY <2>1, <2>2, FS_EmptySet DEF AuditInv
  <1>3. ASSUME NEW u \in Users PROVE Counted(u)
    <2>1. /\ account[u].failed = 0 /\ account[u].lockedUntil = 0
          /\ story[u] = NoStory
      BY DEF AccInit, NewRow, NoRow, Unlocked
    <2> QED  BY <2>1, AccountsAssumption DEF Counted, NoStory, Unlocked
  <1> QED  BY <1>1, <1>2, <1>3, AccInitTypes DEF AccInv, LockoutInv

LEMMA AccInvariant == AccSpec => []AccInv
  <1>1. AccInv /\ [AccNext]_accVars => AccInv'
    <2> SUFFICES ASSUME AccInv, [AccNext]_accVars PROVE AccInv'
      OBVIOUS
    <2>1. AccTypeOK'
      BY AccTypeStep, AuditStep DEF AccInv, AccTypeOK, HandlerRec
    <2>2. \A g \in Handlers : Current(g)'
      BY CurrentStep DEF AccInv
    <2> QED  BY <2>1, <2>2, AuditStep, LockoutStep DEF AccInv
  <1> QED  BY <1>1, AccInitInv, PTL DEF AccSpec

\* The tables of the accounts and the handlers of requests stay well-typed, and
\* the count of changes that lack an audit row never goes below zero.
THEOREM AccountsTypes == AccSpec => []AccTypeOK
  <1>1. AccInv => AccTypeOK
    BY DEF AccInv
  <1> QED  BY <1>1, AccInvariant, PTL

\* A request that runs was allowed by rights its account has had since the
\* request arrived, whatever administrators do meanwhile.
THEOREM RightsCorrect == AccSpec => []RightsAreCurrent
  <1>1. AccInv => RightsAreCurrent
    BY DEF AccInv, Current, RightsAreCurrent
  <1> QED  BY <1>1, AccInvariant, PTL

\* Only handlers that die leave a login or a change without its audit row.
THEOREM TrailCorrect == AccSpec => []TrailIsComplete
  <1>1. AccInv => TrailIsComplete
    BY DEF AccInv, AuditInv, Pending, TrailIsComplete
  <1> QED  BY <1>1, AccInvariant, PTL

\* The lock is exact for attempts that do not overlap, and every commit between
\* the read and the commit of another attempt hides at most one wrong password.
THEOREM LockoutCorrect == AccSpec => []LockoutIsExact
  <1>1. AccInv => LockoutIsExact
    BY DEF AccInv, LockoutInv, Counted, LockoutIsExact
  <1> QED  BY <1>1, AccInvariant, PTL
=============================================================================
