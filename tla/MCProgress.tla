----------------------------- MODULE MCProgress -----------------------------
(***************************************************************************)
(* Two instances of Evaluator in one: a camera that is checked often, and  *)
(* an NVR with a camera behind it that are checked less.  share says how   *)
(* many results each device gets.  It bounds what is enqueued, and leaves  *)
(* a device alone that gets none; it bounds nothing that a worker does.    *)
(***************************************************************************)
EXTENDS MCEvaluator

VARIABLE share

Shares == {[d \in Devices |-> IF d = Camera THEN CameraResults ELSE 0],
           [d \in Devices |-> IF d = Camera THEN 1 ELSE NvrResults]}

WithinShare ==
    \A d \in Devices :
        /\ Len(results[d]) + InFlight(d) <= share[d]
        /\ share[d] = 0 => ~window[d] /\ row[d] = NewDevice

ProgressSpec ==
    /\ Init /\ share \in Shares
    /\ [][UNCHANGED share /\ Next /\ WithinShare']_<<vars, share>>
    /\ Fairness
=============================================================================
