------------------------------ MODULE Debounce ------------------------------
(***************************************************************************)
(* The debouncing rule of evaluator/state_machine.py: how one check result *)
(* moves a device's state and its two counters of consecutive failures and *)
(* consecutive successes.  The module holds operators only; Evaluator      *)
(* applies them to device rows, and Ledger states what they add up to.     *)
(***************************************************************************)
EXTENDS Naturals, Sequences

CONSTANTS
    DownThreshold,  \* settings.debounce_down_count: failures in a row that mean DOWN
    UpThreshold     \* settings.debounce_up_count: successes in a row that end an outage

ASSUME ThresholdAssumption ==
    /\ DownThreshold \in Nat \ {0}
    /\ UpThreshold \in Nat \ {0}

DeviceState == {"UP", "DEGRADED", "DOWN", "MAINTENANCE", "UNKNOWN"}

CheckStatus == {"OK", "DEGRADED", "FAIL", "ERROR"}

\* A checker that raises is recorded as ERROR and counts like a failure.
HardFail == {"FAIL", "ERROR"}

\* The columns of a devices row that evaluation reads and writes, and active.
Row == [state : DeviceState, fail : Nat, ok : Nat, active : BOOLEAN]

NewDevice == [state |-> "UNKNOWN", fail |-> 0, ok |-> 0, active |-> TRUE]

-----------------------------------------------------------------------------
\* A plausible slip: a degraded picture leaves the failure counter running.
CountedDegradedKeepsFail(row, status) ==
    [row EXCEPT !.fail = IF status \in HardFail THEN @ + 1
                         ELSE IF status = "DEGRADED" THEN @ ELSE 0,
                !.ok   = IF status = "OK" THEN @ + 1 ELSE 0]

\* Both counters are reset by any result that does not extend their run.
Counted(row, status) ==
    [row EXCEPT !.fail = IF status \in HardFail THEN @ + 1 ELSE 0,
                !.ok   = IF status = "OK" THEN @ + 1 ELSE 0]

\* A plausible slip: > instead of >= on the failure threshold.
DecideLate(row, status) ==
    IF status \in HardFail
    THEN IF row.fail > DownThreshold THEN "DOWN" ELSE row.state
    ELSE IF row.state = "DOWN" /\ (status = "DEGRADED" \/ row.ok < UpThreshold)
         THEN "DOWN"
         ELSE IF status = "OK" THEN "UP" ELSE "DEGRADED"

(***************************************************************************)
(* next_state: hard failures move the device to DOWN once the threshold is *)
(* reached; a device that is DOWN leaves it only after enough successes;   *)
(* otherwise one OK or DEGRADED result decides at once.                    *)
(***************************************************************************)
Decide(row, status) ==
    IF status \in HardFail
    THEN IF row.fail >= DownThreshold THEN "DOWN" ELSE row.state
    ELSE IF row.state = "DOWN" /\ (status = "DEGRADED" \/ row.ok < UpThreshold)
         THEN "DOWN"
         ELSE IF status = "OK" THEN "UP" ELSE "DEGRADED"

NextState(row, status) ==
    IF row.state = "MAINTENANCE"
    THEN row
    ELSE LET counted == Counted(row, status)
         IN  [counted EXCEPT !.state = Decide(counted, status)]

-----------------------------------------------------------------------------
\* A device found in MAINTENANCE by an untagged check starts over, silently.
Reentered(r, flag) ==
    IF r.state = "MAINTENANCE" /\ ~flag
    THEN [r EXCEPT !.state = "UNKNOWN", !.fail = 0, !.ok = 0]
    ELSE r

\* The row that evaluate() leaves behind.
EvaluatedRow(r, status, flag) ==
    IF flag
    THEN [r EXCEPT !.state = "MAINTENANCE"]
    ELSE NextState(Reentered(r, flag), status)
=============================================================================
