--------------------------- MODULE Notifications ----------------------------
(***************************************************************************)
(* notifications/dispatcher.py: the delivery of one alert's notifications. *)
(* The alert engine enqueues a send_notification job per recipient while   *)
(* its own transaction, with the alert row, is still open; escalations     *)
(* enqueue more of them later.  A notification worker takes the job, lets  *)
(* the channel's adapter send, commits a notification_log row that refers  *)
(* to the alert row, and, if the adapter failed, has Celery retry the job. *)
(* Jobs are acknowledged when taken: a worker that dies loses its job.     *)
(***************************************************************************)
EXTENDS Naturals, Sequences, FiniteSets

CONSTANTS
    Notifications,  \* the jobs of one alert: a recipient and a channel each
    MaxAttempts,    \* MAX_ATTEMPTS, given to Celery as max_retries
    MaxCrashes      \* bound: deaths of workers

ASSUME NotificationsAssumption == MaxAttempts \in Nat /\ MaxCrashes \in Nat

VARIABLES
    alert,     \* the alert row: "flushed", then "committed" or "aborted"
    stage,     \* where each notification stands
    retries,   \* self.request.retries of its job
    outcome,   \* what the adapter has reported and is not yet logged
    tried,     \* number of times the adapter has sent it or tried to
    log,       \* its notification_log rows, oldest first
    orphaned,  \* notifications whose log row the foreign key has refused
    crashes    \* number of workers that have died

vars == <<alert, stage, retries, outcome, tried, log, orphaned, crashes>>

Stage == {"none", "queued", "sending", "logging", "retrying", "ended"}

\* DeliveryResult.status; adapters turn every exception into FAILED.
Outcome == {"SENT", "FAILED", "SKIPPED_NOT_CONFIGURED"}

LogRow == [attempts : Nat, status : Outcome]

Init ==
    /\ alert = "flushed"
    /\ stage = [n \in Notifications |-> "none"]
    /\ retries = [n \in Notifications |-> 0]
    /\ outcome = [n \in Notifications |-> "FAILED"]
    /\ tried = [n \in Notifications |-> 0]
    /\ log = [n \in Notifications |-> << >>]
    /\ orphaned = {}
    /\ crashes = 0

Busy(n) == stage[n] \in {"sending", "logging", "retrying"}

-----------------------------------------------------------------------------
\* The engine enqueues before it commits, escalations only afterwards.
Enqueue(n) ==
    /\ stage[n] = "none"
    /\ alert # "aborted"
    /\ stage' = [stage EXCEPT ![n] = "queued"]
    /\ UNCHANGED <<alert, retries, outcome, tried, log, orphaned, crashes>>

\* The engine's transaction ends, one way or the other.
EndEngine(verdict) ==
    /\ alert = "flushed"
    /\ alert' = verdict
    /\ UNCHANGED <<stage, retries, outcome, tried, log, orphaned, crashes>>

-----------------------------------------------------------------------------
\* A plausible slip: the job waits until it finds its alert.
TakeWhenCommitted(n) ==
    /\ stage[n] = "queued"
    /\ alert = "committed"
    /\ stage' = [stage EXCEPT ![n] = "sending"]
    /\ UNCHANGED <<alert, retries, outcome, tried, log, orphaned, crashes>>

Take(n) ==
    /\ stage[n] = "queued"
    /\ stage' = [stage EXCEPT ![n] = "sending"]
    /\ UNCHANGED <<alert, retries, outcome, tried, log, orphaned, crashes>>

\* adapter.send, which may block for many seconds or, for a channel that is not
\* configured, return at once.
Send(n, result) ==
    /\ stage[n] = "sending"
    /\ stage' = [stage EXCEPT ![n] = "logging"]
    /\ outcome' = [outcome EXCEPT ![n] = result]
    /\ tried' = [tried EXCEPT ![n] = @ + 1]
    /\ UNCHANGED <<alert, retries, log, orphaned, crashes>>

\* Plausible slips: a skipped channel is retried, the limit is held against the
\* number of the next attempt, one retry too many is made, and the counter of the
\* attempts starts at 0.
RetryUnlessSent(n) == outcome[n] # "SENT" /\ retries[n] < MaxAttempts

RetryBelowLimit(n) == outcome[n] = "FAILED" /\ retries[n] + 2 < MaxAttempts

RetryOnceMore(n) == outcome[n] = "FAILED" /\ retries[n] <= MaxAttempts

AttemptFromZero(n) == retries[n]

\* Only a failure is retried, and only while retries are left.
WillRetry(n) == outcome[n] = "FAILED" /\ retries[n] < MaxAttempts

Attempt(n) == retries[n] + 1

\* The log row is committed, and Celery told to retry if need be.
LogAttempt(n) ==
    /\ stage[n] = "logging"
    /\ alert = "committed"
    /\ log' = [log EXCEPT ![n] = Append(@, [attempts |-> Attempt(n),
                                            status |-> outcome[n]])]
    /\ stage' = [stage EXCEPT ![n] = IF WillRetry(n) THEN "retrying" ELSE "ended"]
    /\ UNCHANGED <<alert, retries, outcome, tried, orphaned, crashes>>

\* The foreign key finds no alert row, not yet or never.  The commit raises,
\* and the task ends without a log row and without a retry.
RefuseLog(n) ==
    /\ stage[n] = "logging"
    /\ alert # "committed"
    /\ orphaned' = orphaned \cup {n}
    /\ stage' = [stage EXCEPT ![n] = "ended"]
    /\ UNCHANGED <<alert, retries, outcome, tried, log, crashes>>

\* self.retry: the job goes back to the broker with its counter raised.
Retry(n) ==
    /\ stage[n] = "retrying"
    /\ stage' = [stage EXCEPT ![n] = "queued"]
    /\ retries' = [retries EXCEPT ![n] = @ + 1]
    /\ UNCHANGED <<alert, outcome, tried, log, orphaned, crashes>>

Crash(n) ==
    /\ Busy(n)
    /\ crashes < MaxCrashes
    /\ crashes' = crashes + 1
    /\ stage' = [stage EXCEPT ![n] = "ended"]
    /\ UNCHANGED <<alert, retries, outcome, tried, log, orphaned>>

-----------------------------------------------------------------------------
WorkerStep(n) ==
    \/ Take(n)
    \/ \E result \in Outcome : Send(n, result)
    \/ LogAttempt(n)
    \/ RefuseLog(n)
    \/ Retry(n)

Next ==
    \/ \E verdict \in {"committed", "aborted"} : EndEngine(verdict)
    \/ \E n \in Notifications : Enqueue(n) \/ WorkerStep(n) \/ Crash(n)

Spec == Init /\ [][Next]_vars

(***************************************************************************)
(* Workers take the jobs that wait and finish what they have begun: the    *)
(* adapters have timeouts.  The engine may hang in its transaction.        *)
(***************************************************************************)
Fairness == \A n \in Notifications : WF_vars(WorkerStep(n))

FairSpec == Spec /\ Fairness

-----------------------------------------------------------------------------
\* Type correctness of the tables and of the jobs.
TypeOK ==
    /\ alert \in {"flushed", "committed", "aborted"}
    /\ stage \in [Notifications -> Stage]
    /\ retries \in [Notifications -> 0 .. MaxAttempts]
    /\ outcome \in [Notifications -> Outcome]
    /\ tried \in [Notifications -> Nat]
    /\ log \in [Notifications -> Seq(LogRow)]
    /\ orphaned \subseteq Notifications
    /\ crashes \in Nat

(***************************************************************************)
(* The log tells the story of a delivery: its rows are numbered from 1     *)
(* without gaps, and what is not in it is at most the attempt under way or *)
(* the one that ended the job (dispatcher.py 39-57).                       *)
(***************************************************************************)
LogTellsTheStory ==
    \A n \in Notifications :
        /\ \A i \in DOMAIN log[n] : log[n][i].attempts = i
        /\ \/ tried[n] = Len(log[n])
           \/ tried[n] = Len(log[n]) + 1 /\ stage[n] \in {"logging", "ended"}

(***************************************************************************)
(* A skipped channel and a delivered message are left alone: whatever the  *)
(* retries, crashes and lost log rows, nothing is sent after the log shows *)
(* an outcome other than FAILED.                                           *)
(***************************************************************************)
SettledIsFinal ==
    \A n \in Notifications : \A i \in DOMAIN log[n] :
        log[n][i].status # "FAILED" => stage[n] = "ended" /\ tried[n] = i

(***************************************************************************)
(* Nobody is left without the attempts that were promised: a notification  *)
(* that is over before MaxAttempts of them is settled, or its worker died, *)
(* or it outran the alert's commit (dispatcher.py 1-5: retries, queue and  *)
(* flush on restore).                                                      *)
(***************************************************************************)
Settled(n) == \E i \in DOMAIN log[n] : log[n][i].status # "FAILED"

GivenUp ==
    {n \in Notifications : stage[n] = "ended" /\ ~Settled(n)
                           /\ tried[n] < MaxAttempts}

NeverGivenUpEarly == Cardinality(GivenUp \ orphaned) <= crashes

(***************************************************************************)
(* Every job that is enqueued ends, even if its alert is rolled back or    *)
(* never committed.                                                        *)
(***************************************************************************)
EveryNotificationEnds ==
    \A n \in Notifications : stage[n] = "queued" ~> stage[n] = "ended"

(***************************************************************************)
(* dispatcher.py 1-5: exactly one notification_log row is written per      *)
(* attempt regardless of outcome.  Without any crash, an attempt that is   *)
(* over before the alert engine commits has no row.                        *)
(***************************************************************************)
OneRowPerAttempt ==
    \A n \in Notifications :
        (stage[n] = "ended" /\ crashes = 0) => tried[n] = Len(log[n])

(***************************************************************************)
(* dispatcher.py 1-2: "retries with exponential backoff (max 5 attempts)". *)
(* MAX_ATTEMPTS is a number of retries in the code, and the first attempt  *)
(* is none.                                                                *)
(***************************************************************************)
AtMostMaxAttempts == \A n \in Notifications : tried[n] <= MaxAttempts
=============================================================================
