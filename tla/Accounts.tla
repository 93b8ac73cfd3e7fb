------------------------------ MODULE Accounts ------------------------------
(***************************************************************************)
(* The accounts of the dashboard: api/routers/auth.py (login and lockout), *)
(* api/deps.py and auth/rbac.py (who may call what), the users part of     *)
(* api/routers/admin.py, and the audit row that ends every change.         *)
(* A login reads the row, verifies the password (which takes long, as      *)
(* argon2 should) and writes the row back without a lock; handlers of      *)
(* several requests run at the same time.                                  *)
(***************************************************************************)
EXTENDS Naturals, FiniteSets

CONSTANTS
    Users,         \* e-mail addresses
    FirstAdmins,   \* the accounts that exist at first, as made by a script
    Handlers,      \* threads of the API server
    Threshold,     \* LOCKOUT_THRESHOLD
    LockTicks,     \* LOCKOUT_MINUTES, in ticks
    TokenTicks,    \* access_token_minutes, in ticks
    LastAccTick,   \* bound: accNow
    MaxCalls,      \* bound: requests received
    MaxExits       \* bound: handlers that die

Role == {"ADMIN", "VIEWER"}

ASSUME AccountsAssumption ==
    /\ FirstAdmins \subseteq Users /\ FirstAdmins # {} /\ IsFiniteSet(Handlers)
    /\ Threshold \in Nat \ {0} /\ LockTicks \in Nat /\ TokenTicks \in Nat
    /\ LastAccTick \in Nat /\ MaxCalls \in Nat /\ MaxExits \in Nat

VARIABLES
    accNow,     \* the time
    account,    \* the rows of users
    token,      \* the last token given to each user: expiry and role claim
    handler,    \* the local variables of every handler
    calls,      \* number of requests received
    exits,      \* number of handlers that have died
    story,      \* history: what happened to each account, see NoStory
    unaudited   \* history: changes committed whose audit row is not written

accVars == <<accNow, account, token, handler, calls, exits, story, unaudited>>

Unlocked == 0
NoToken == [until |-> 0, role |-> "VIEWER"]

NewRow(role) == [exists |-> TRUE, active |-> TRUE, role |-> role, failed |-> 0,
                 lockedUntil |-> Unlocked]
NoRow == [NewRow("VIEWER") EXCEPT !.exists = FALSE]

\* Wrong passwords since the last success, when the last of them was answered,
\* and how many commits slipped between the read and the commit of another.
NoStory == [wrong |-> 0, at |-> 0, crossed |-> 0]

Idle == [stage |-> "idle", user |-> CHOOSE u \in Users : TRUE, correct |-> FALSE,
         row |-> NoRow, behind |-> 0, need |-> {}, claim |-> "VIEWER", seen |-> {}]

AccInit ==
    /\ accNow = 0
    /\ account = [u \in Users |-> IF u \in FirstAdmins THEN NewRow("ADMIN") ELSE NoRow]
    /\ token = [u \in Users |-> NoToken]
    /\ handler = [h \in Handlers |-> Idle]
    /\ calls = 0 /\ exits = 0
    /\ story = [u \in Users |-> NoStory]
    /\ unaudited = 0

-----------------------------------------------------------------------------
AccTick ==
    /\ accNow < LastAccTick
    /\ accNow' = accNow + 1
    /\ UNCHANGED <<account, token, handler, calls, exits, story, unaudited>>

Receive(h) ==
    /\ handler[h].stage = "idle"
    /\ calls < MaxCalls
    /\ calls' = calls + 1
    /\ UNCHANGED <<accNow, account, token, exits, story, unaudited>>

\* login up to verify_password: unknown and inactive accounts get a 401 and
\* locked ones a 423, before the password is looked at.
BeginLogin(h, u, correct) ==
    /\ Receive(h)
    /\ account[u].exists /\ account[u].active
    /\ account[u].lockedUntil <= accNow
    /\ handler' = [handler EXCEPT ![h] = [Idle EXCEPT !.stage = "verifying", !.user = u,
                                                      !.correct = correct,
                                                      !.row = account[u]]]

\* The row after a wrong password: the count that was read, plus one.
\* Plausible slip: the lock comes one attempt late.
AfterFailureLate(row) ==
    [failed |-> row.failed + 1,
     lockedUntil |-> IF row.failed + 1 > Threshold THEN accNow + LockTicks
                                                   ELSE row.lockedUntil]

AfterFailure(row) ==
    [failed |-> row.failed + 1,
     lockedUntil |-> IF row.failed + 1 >= Threshold THEN accNow + LockTicks
                                                    ELSE row.lockedUntil]

\* SQLAlchemy writes the columns whose value differs from the one it read.
Written(row, new, column) == IF new[column] # row[column] THEN {column} ELSE {}

\* The commit of a login.  Handlers that have read this row are now behind.
CommitLogin(h) ==
    LET u   == handler[h].user
        row == handler[h].row
        new == IF handler[h].correct THEN [failed |-> 0, lockedUntil |-> Unlocked]
                                     ELSE AfterFailure(row)
        wr  == Written(row, new, "failed") \cup Written(row, new, "lockedUntil")
    IN  /\ handler[h].stage = "verifying"
        /\ account' = [account EXCEPT
                         ![u].failed = IF "failed" \in wr THEN new.failed ELSE @,
                         ![u].lockedUntil = IF "lockedUntil" \in wr THEN new.lockedUntil
                                                                    ELSE @]
        /\ story' = [story EXCEPT
                       ![u].wrong = IF handler[h].correct THEN 0 ELSE @ + 1,
                       ![u].at = IF handler[h].correct THEN @ ELSE accNow,
                       ![u].crossed = @ + handler[h].behind]
        /\ handler' = [g \in Handlers |->
             IF g = h THEN IF handler[h].correct THEN [handler[h] EXCEPT !.stage = "granting"]
                                                 ELSE Idle
             ELSE IF handler[g].stage = "verifying" /\ handler[g].user = u
                  THEN [handler[g] EXCEPT !.behind = @ + 1] ELSE handler[g]]
        /\ unaudited' = unaudited + (IF handler[h].correct THEN 1 ELSE 0)
        /\ UNCHANGED <<accNow, token, calls, exits>>

\* Plausible slip: the token is given before the audit row, which is then left.
GrantUnaudited(h) ==
    /\ handler[h].stage = "granting"
    /\ token' = [token EXCEPT ![handler[h].user] =
                   [until |-> accNow + TokenTicks, role |-> account[handler[h].user].role]]
    /\ handler' = [handler EXCEPT ![h] = Idle]
    /\ UNCHANGED <<accNow, account, calls, exits, story, unaudited>>

\* record_audit, which commits, and create_access_token with the role of now.
GrantToken(h) ==
    /\ handler[h].stage = "granting"
    /\ token' = [token EXCEPT ![handler[h].user] =
                   [until |-> accNow + TokenTicks, role |-> account[handler[h].user].role]]
    /\ handler' = [handler EXCEPT ![h] = Idle]
    /\ unaudited' = unaudited - 1
    /\ UNCHANGED <<accNow, account, calls, exits, story>>

-----------------------------------------------------------------------------
\* What require_role looks at.
RightsOf(row) == [active |-> row.active, role |-> row.role]

\* A request with a token that has not expired, to an endpoint for roles need.
\* The role claim of a token is written and never read, so the token that
\* expires last stands for all tokens of its user.
ReceiveRequest(h, u, need) ==
    /\ Receive(h)
    /\ accNow < token[u].until
    /\ handler' = [handler EXCEPT ![h] = [Idle EXCEPT !.stage = "received", !.user = u,
                                                      !.need = need,
                                                      !.claim = token[u].role,
                                                      !.seen = {RightsOf(account[u])}]]

\* Plausible slip: the role is taken from the token, as its claim invites to.
AllowedByClaim(h) == account[handler[h].user].active /\ handler[h].claim \in handler[h].need

\* get_current_user and _check: the row of the moment decides.
Allowed(h) ==
    LET row == account[handler[h].user]
    IN  row.active /\ row.role \in handler[h].need

Authorise(h) ==
    /\ handler[h].stage = "received"
    /\ handler' = [handler EXCEPT ![h] = IF Allowed(h) THEN [@ EXCEPT !.stage = "running"]
                                                       ELSE Idle]
    /\ UNCHANGED <<accNow, account, token, calls, exits, story, unaudited>>

\* Reading endpoints answer; requests for administrators change an account.
Answer(h) ==
    /\ handler[h].stage = "running" /\ handler[h].need # {"ADMIN"}
    /\ handler' = [handler EXCEPT ![h] = Idle]
    /\ UNCHANGED <<accNow, account, token, calls, exits, story, unaudited>>

\* The commit of a change: every request under way has seen the new rights.
ChangeAccount(h, u, row) ==
    /\ handler[h].stage = "running" /\ handler[h].need = {"ADMIN"}
    /\ account' = [account EXCEPT ![u] = row]
    /\ handler' = [g \in Handlers |->
         IF g = h THEN [handler[g] EXCEPT !.stage = "auditing"]
         ELSE IF handler[g].stage \in {"received", "running"} /\ handler[g].user = u
              THEN [handler[g] EXCEPT !.seen = @ \cup {RightsOf(row)}] ELSE handler[g]]
    /\ unaudited' = unaudited + 1
    /\ UNCHANGED <<accNow, token, calls, exits, story>>

\* create_user: a registered address is a 409, and the column is unique.
CreateUser(h, u, role) == ~account[u].exists /\ ChangeAccount(h, u, NewRow(role))

\* update_user: the fields of the payload; the lock and its count stay.
UpdateRole(h, u, role) ==
    account[u].exists /\ ChangeAccount(h, u, [account[u] EXCEPT !.role = role])

UpdateActive(h, u, active) ==
    account[u].exists /\ ChangeAccount(h, u, [account[u] EXCEPT !.active = active])

\* record_audit: a second commit, after that of the change.
RecordAudit(h) ==
    /\ handler[h].stage = "auditing"
    /\ handler' = [handler EXCEPT ![h] = Idle]
    /\ unaudited' = unaudited - 1
    /\ UNCHANGED <<accNow, account, token, calls, exits, story>>

\* The server is killed or restarted; what was committed stays.
HandlerDies(h) ==
    /\ handler[h].stage # "idle"
    /\ exits < MaxExits
    /\ exits' = exits + 1
    /\ handler' = [handler EXCEPT ![h] = Idle]
    /\ UNCHANGED <<accNow, account, token, calls, story, unaudited>>

AccNext ==
    \/ AccTick
    \/ \E h \in Handlers :
         \/ CommitLogin(h) \/ GrantToken(h) \/ Authorise(h) \/ Answer(h)
         \/ RecordAudit(h) \/ HandlerDies(h)
         \/ \E u \in Users :
              \/ \E correct \in BOOLEAN : BeginLogin(h, u, correct)
              \/ \E need \in {{"ADMIN"}, Role} : ReceiveRequest(h, u, need)
              \/ \E role \in Role : CreateUser(h, u, role) \/ UpdateRole(h, u, role)
              \/ \E active \in BOOLEAN : UpdateActive(h, u, active)

AccSpec == AccInit /\ [][AccNext]_accVars

-----------------------------------------------------------------------------
AccStage == {"idle", "verifying", "granting", "received", "running", "auditing"}

Rights == [active : BOOLEAN, role : Role]

Row == [exists : BOOLEAN, active : BOOLEAN, role : Role, failed : Nat, lockedUntil : Nat]

AccTypeOK ==
    /\ accNow \in 0 .. LastAccTick /\ calls \in 0 .. MaxCalls /\ exits \in 0 .. MaxExits
    /\ account \in [Users -> Row]
    /\ token \in [Users -> [until : Nat, role : Role]]
    /\ handler \in [Handlers -> [stage : AccStage, user : Users, correct : BOOLEAN,
                                 row : Row, behind : Nat, need : SUBSET Role,
                                 claim : Role, seen : SUBSET Rights]]
    /\ story \in [Users -> [wrong : Nat, at : Nat, crossed : Nat]]
    /\ unaudited \in Nat

\* Unless attempts overlap, an account is locked by the THRESHOLDth wrong
\* password in a row, and by every further one until a success, for
\* LOCKOUT_MINUTES from that password.  Attempts that overlap (login reads and
\* writes failed_login_count without a lock) hide at most one wrong password
\* for every commit that slipped in between.
LockoutIsExact ==
    \A u \in Users :
        /\ story[u].wrong <= account[u].failed + story[u].crossed
        /\ story[u].crossed = 0 =>
             /\ account[u].failed = story[u].wrong
             /\ account[u].lockedUntil =
                  IF story[u].wrong < Threshold THEN Unlocked
                  ELSE story[u].at + LockTicks

\* A request that runs was allowed by rights that its account has had since the
\* request arrived (get_current_user): a demoted or deactivated user cannot live
\* on a token that was issued before.
RightsAreCurrent ==
    \A h \in Handlers :
        handler[h].stage = "running" =>
            \E rights \in handler[h].seen :
                rights.active /\ rights.role \in handler[h].need

\* Every login and every change has its audit row, but for those that a handler
\* is about to write and those of handlers that died (record_audit commits
\* after the change has been committed).
TrailIsComplete ==
    unaudited <= exits + Cardinality({h \in Handlers :
                                        handler[h].stage \in {"granting", "auditing"}})
=============================================================================
