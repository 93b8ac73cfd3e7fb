------------------------------- MODULE Ledger -------------------------------
(***************************************************************************)
(* What the evaluator promises, without its workers, locks, counters and   *)
(* crashes: every device has a ledger of check results, results are        *)
(* entered one at a time, and the state shown for the device is a function *)
(* of its ledger alone.                                                    *)
(***************************************************************************)
EXTENDS CheckHistory

CONSTANT Devices

VARIABLES
    history,  \* the check_results of each device, oldest first
    status    \* the state shown for each device

LedgerInit ==
    /\ history = [d \in Devices |-> << >>]
    /\ status = [d \in Devices |-> "UNKNOWN"]

Record(d, e) ==
    /\ history' = [history EXCEPT ![d] = Append(@, e)]
    /\ status' = [status EXCEPT ![d] = Verdict(history'[d])]

LedgerNext == \E d \in Devices, e \in Entry : Record(d, e)

LedgerSpec == LedgerInit /\ [][LedgerNext]_<<history, status>>
=============================================================================
