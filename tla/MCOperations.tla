---------------------------- MODULE MCOperations ----------------------------
(***************************************************************************)
(* The components that keep the service going, side by side: escalation,   *)
(* the delivery of notifications, the dispatch of checks and the           *)
(* dashboard's push channel.  They share no variable here, so focus picks  *)
(* the one that moves, as in MCRecords, and fairness is that of the one    *)
(* that moves.                                                             *)
(***************************************************************************)
EXTENDS Notifications, Scheduler, Dashboard, MCEscalation

VARIABLE focus

operations == <<focus, vars, schedVars, dashVars, escVars>>

Focus == {"delivery", "dispatch", "dashboard", "escalation"}

OperationsInit ==
    /\ focus \in Focus
    /\ Init /\ SchedInit /\ DashInit /\ EscInit
    \* Nothing is due that never moves.
    /\ enabled = IF focus = "dispatch" THEN SchedDevices ELSE {}
    /\ focus = "dashboard" \/ shown.loaded

\* A step of one component while it has the focus.
Delivery(step) ==
    focus = "delivery" /\ step /\ UNCHANGED <<focus, schedVars, dashVars, escVars>>

Dispatch(step) ==
    focus = "dispatch" /\ step /\ UNCHANGED <<focus, vars, dashVars, escVars>>

Pushing(step) ==
    focus = "dashboard" /\ step /\ UNCHANGED <<focus, vars, schedVars, escVars>>

Escalating(step) ==
    focus = "escalation" /\ step /\ UNCHANGED <<focus, vars, schedVars, dashVars>>

OperationsNext ==
    \/ Delivery(Next)
    \/ Dispatch(SchedNext)
    \/ Pushing(DashNext)
    \/ Escalating(EscNext)

OperationsFairness ==
    /\ \A n \in Notifications : WF_operations(Delivery(WorkerStep(n)))
    /\ \A s \in Sweepers : WF_operations(Dispatch(SweepStep(s)))
    /\ WF_operations(Pushing(Publish)) /\ WF_operations(Pushing(NoticeClose))
    /\ WF_operations(Pushing(Invalidate)) /\ WF_operations(Pushing(Poll))
    /\ WF_operations(Pushing(FetchStep))
    /\ WF_operations(Escalating(Tick))
    /\ \A s \in Sweeps : WF_operations(Escalating(EscSweepStep(s)))

OperationsSpec ==
    OperationsInit /\ [][OperationsNext]_operations /\ OperationsFairness

\* Type correctness of every worker, job and table of these components.
OperationsTypeOK ==
    /\ focus \in Focus
    /\ focus = "delivery" => TypeOK
    /\ focus = "dispatch" => SchedTypeOK
    /\ focus = "dashboard" => DashTypeOK
    /\ focus = "escalation" => EscTypeOK

-----------------------------------------------------------------------------
\* A recorder, pinged every tick and examined every 2, and a window for it.
MCSite == [rec |-> [type |-> "NVR", building |-> "b2", nvr |-> NoRef]]
MCInterval == [k \in CheckKind |-> IF k = "ping" THEN 1 ELSE 2]
MCWindows == {[scope |-> "DEVICE", id |-> "rec", building |-> NoRef, from |-> 0, to |-> 1]}
=============================================================================
