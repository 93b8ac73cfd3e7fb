--------------------------- MODULE MCAlertEngine ----------------------------
(***************************************************************************)
(* Instances of AlertEngine for TLC: an NVR, a camera behind it that goes  *)
(* down more than once, and other cameras behind it.                       *)
(***************************************************************************)
EXTENDS AlertEngine, TLC

CONSTANTS Nvr, Flapper, NvrEvents, FlapperEvents, OtherEvents

MCParent == [d \in Devices |-> IF d = Nvr THEN NoDevice ELSE Nvr]

MCMaxEvents ==
    [d \in Devices |-> IF d = Nvr THEN NvrEvents
                       ELSE IF d = Flapper THEN FlapperEvents ELSE OtherEvents]

MCNewStates ==
    [d \in Devices |-> IF d = Flapper THEN {"UP", "DOWN", "MAINTENANCE"} ELSE {"DOWN"}]

\* Handlers are interchangeable.
MCSymmetry == Permutations(Handlers)
=============================================================================
