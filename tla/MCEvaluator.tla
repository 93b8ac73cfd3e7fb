---------------------------- MODULE MCEvaluator -----------------------------
(***************************************************************************)
(* Instances of Evaluator for TLC: one device whose checks land in two     *)
(* workers at once, and an NVR with a camera behind it.                    *)
(***************************************************************************)
EXTENDS Evaluator, TLC

CONSTANTS Nvr, Camera, NvrResults, CameraResults

\* The camera hangs off the NVR; with one device there is no parent.
MCParent ==
    [d \in Devices |-> IF d = Camera /\ Nvr \in Devices THEN Nvr ELSE NoDevice]

MCMaxResults ==
    [d \in Devices |-> IF d = Camera THEN CameraResults ELSE NvrResults]

\* Workers are interchangeable.  Used by the runs without liveness only.
WorkerSymmetry == Permutations(Workers)
=============================================================================
