------------------------------ MODULE Dashboard -----------------------------
(***************************************************************************)
(* The dashboard and what keeps it current: a worker commits a change of   *)
(* state and publishes it (realtime.py), the API forwards what it receives *)
(* to the browser's socket (api/routers/status.py), and the browser        *)
(* (frontend/src/api/ws.ts) fetches the summary again.  While its socket   *)
(* is down, the browser polls instead.                                     *)
(***************************************************************************)
EXTENDS Naturals

CONSTANTS
    MaxVersions,    \* bound: changes of state
    MaxFetchErrors  \* bound: fetches that fail

ASSUME DashboardAssumption == MaxVersions \in Nat /\ MaxFetchErrors \in Nat

VARIABLES
    db,           \* number of the last committed change
    unpublished,  \* changes committed whose push is still to be sent
    socket,       \* the socket, see SocketState
    inbox,        \* pushes on their way to the browser
    fetch,        \* the request for the summary that is under way
    shown,        \* the summary on the page, if it is loaded: both of its queries
    fetchErrors,  \* number of fetches that have failed
    missed,       \* history: a push or a fetch was lost, and no fetch begun since
    passedOver    \* history: a push found the first load under way that had counted
                  \* already, and no fetch begun since

dashVars == <<db, unpublished, socket, inbox, fetch, shown, fetchErrors, missed, passedOver>>

\* accepted: the handshake is done, subscribe is not; broken: the server's side
\* is gone, and the browser has not noticed.
SocketState == {"down", "accepted", "subscribed", "broken"}

Version == 0 .. MaxVersions

\* What the server has read so far, and how often the fetch was tried before.
NoFetch == [stage |-> "none", overall |-> 0, grouped |-> 0, tries |-> 0]
NewFetch == [NoFetch EXCEPT !.stage = "sent"]

\* The page is just being opened for the first time, or was loaded before.
DashInit ==
    /\ db = 0 /\ unpublished = 0 /\ inbox = 0
    /\ socket = "down"
    /\ \E loaded \in BOOLEAN :
        /\ shown = [overall |-> 0, grouped |-> 0, loaded |-> loaded]
        /\ fetch = IF loaded THEN NoFetch ELSE NewFetch
    /\ fetchErrors = 0
    /\ missed = FALSE /\ passedOver = FALSE

Connected == socket # "down"

-----------------------------------------------------------------------------
\* A check changes a device's state (Evaluator): the commit, then the push.
CommitState ==
    /\ db < MaxVersions
    /\ db' = db + 1
    /\ unpublished' = unpublished + 1
    /\ UNCHANGED <<socket, inbox, fetch, shown, fetchErrors, missed, passedOver>>

\* Redis hands the push to the subscribers of the moment.
Publish ==
    /\ unpublished > 0
    /\ unpublished' = unpublished - 1
    /\ IF socket = "subscribed" THEN inbox' = inbox + 1 /\ UNCHANGED missed
                                ELSE missed' = TRUE /\ UNCHANGED inbox
    /\ UNCHANGED <<db, socket, fetch, shown, fetchErrors, passedOver>>

\* The worker has died, or Redis failed and publish_status_change passed over it.
LosePush ==
    /\ unpublished > 0
    /\ unpublished' = unpublished - 1
    /\ missed' = TRUE
    /\ UNCHANGED <<db, socket, inbox, fetch, shown, fetchErrors, passedOver>>

-----------------------------------------------------------------------------
SetSocket(next) ==
    /\ socket' = next
    /\ UNCHANGED <<db, unpublished, inbox, fetch, shown, fetchErrors, missed, passedOver>>

\* The retry timer: onopen follows accept, before the API has subscribed.
Connect == socket = "down" /\ SetSocket("accepted")

Subscribe == socket = "accepted" /\ SetSocket("subscribed")

\* The API is restarted, or Redis or the network fails: what was on its way is lost.
BreakSocket ==
    /\ socket \in {"accepted", "subscribed"}
    /\ socket' = "broken"
    /\ inbox' = 0
    /\ missed' = (missed \/ inbox > 0)
    /\ UNCHANGED <<db, unpublished, fetch, shown, fetchErrors, passedOver>>

\* onclose: from now on the page polls.
NoticeClose == socket = "broken" /\ SetSocket("down")

-----------------------------------------------------------------------------
\* Plausible slip: a push leaves a fetch alone that is under way.
InvalidateIfIdle ==
    /\ inbox > 0
    /\ inbox' = inbox - 1
    /\ fetch' = IF fetch.stage = "none" THEN NewFetch ELSE fetch
    /\ missed' = (missed /\ fetch.stage # "none")
    /\ UNCHANGED <<db, unpublished, socket, shown, fetchErrors, passedOver>>

\* onmessage: invalidateQueries cancels a fetch under way and starts a new one; but
\* the first load, while there is no data yet, it leaves alone (external: the query
\* client).
Invalidate ==
    LET left == fetch.stage # "none" /\ ~shown.loaded
    IN  /\ inbox > 0
        /\ inbox' = inbox - 1
        /\ fetch' = IF left THEN fetch ELSE NewFetch
        /\ missed' = (left /\ missed)
        /\ passedOver' = (left /\ (passedOver \/ fetch.stage \in {"counted", "answered"}))
        /\ UNCHANGED <<db, unpublished, socket, shown, fetchErrors>>

StartFetch ==
    /\ fetch.stage = "none"
    /\ fetch' = NewFetch
    /\ missed' = FALSE /\ passedOver' = FALSE
    /\ UNCHANGED <<db, unpublished, socket, inbox, fetchErrors>>

\* pollingInterval
Poll == ~Connected /\ StartFetch /\ UNCHANGED shown

\* Opening a page fetches what is stale; the client may have dropped what the page
\* showed the last time.
OpenPage ==
    /\ StartFetch
    /\ \E kept \in BOOLEAN : shown' = [shown EXCEPT !.loaded = @ /\ kept]

\* status_summary counts twice, in two queries.
CountOverall ==
    /\ fetch.stage = "sent"
    /\ fetch' = [fetch EXCEPT !.stage = "counted", !.overall = db]
    /\ UNCHANGED <<db, unpublished, socket, inbox, shown, fetchErrors, missed, passedOver>>

CountByBuilding ==
    /\ fetch.stage = "counted"
    /\ fetch' = [fetch EXCEPT !.stage = "answered", !.grouped = db]
    /\ UNCHANGED <<db, unpublished, socket, inbox, shown, fetchErrors, missed, passedOver>>

Show ==
    /\ fetch.stage = "answered"
    /\ shown' = [overall |-> fetch.overall, grouped |-> fetch.grouped, loaded |-> TRUE]
    /\ fetch' = NoFetch
    /\ UNCHANGED <<db, unpublished, socket, inbox, fetchErrors, missed, passedOver>>

\* The query client tries a fetch that failed once more.
FetchFails ==
    /\ fetch.stage # "none"
    /\ fetchErrors < MaxFetchErrors
    /\ fetchErrors' = fetchErrors + 1
    /\ fetch' = IF fetch.tries = 0 THEN [NewFetch EXCEPT !.tries = 1] ELSE NoFetch
    /\ missed' = (missed \/ fetch.tries = 1)
    /\ passedOver' = FALSE
    /\ UNCHANGED <<db, unpublished, socket, inbox, shown>>

FetchStep == CountOverall \/ CountByBuilding \/ Show

DashNext ==
    \/ CommitState \/ Publish \/ LosePush
    \/ Connect \/ Subscribe \/ BreakSocket \/ NoticeClose
    \/ Invalidate \/ Poll \/ OpenPage \/ FetchStep \/ FetchFails

\* Timers fire, sockets are read, requests are answered, and a worker that has
\* committed goes on; nobody has to change anything or to open a page.
DashSpec ==
    /\ DashInit /\ [][DashNext]_dashVars
    /\ WF_dashVars(Publish) /\ WF_dashVars(NoticeClose)
    /\ WF_dashVars(Invalidate) /\ WF_dashVars(Poll) /\ WF_dashVars(FetchStep)

-----------------------------------------------------------------------------
DashTypeOK ==
    /\ db \in Version /\ unpublished \in Version /\ inbox \in Version
    /\ socket \in SocketState
    /\ fetch \in [stage : {"none", "sent", "counted", "answered"},
                  overall : Version, grouped : Version, tries : 0 .. 1]
    /\ shown \in [overall : Version, grouped : Version, loaded : BOOLEAN]
    /\ fetchErrors \in 0 .. MaxFetchErrors /\ missed \in BOOLEAN /\ passedOver \in BOOLEAN

Current == shown.loaded /\ shown.overall = db /\ shown.grouped = db

\* A page that is behind catches up, both with its totals and with its table by
\* building, unless a push or a fetch was lost, or a push came in the middle of the
\* page's first load, and no fetch has begun since; and while the socket is down it
\* catches up in any case, because it polls.
DashboardCatchesUp ==
    /\ ~Current ~> (Current \/ missed \/ passedOver)
    /\ (~Current /\ ~Connected) ~> (Current \/ Connected)

\* realtime.py: "a missed push just means the dashboard's 15s polling fallback
\* picks it up instead", even if the socket is up from some time on.
MissedPushesArePolled ==
    <>[](socket = "subscribed") => (missed ~> (~missed \/ Current))
=============================================================================
