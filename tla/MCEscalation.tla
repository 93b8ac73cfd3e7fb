--------------------------- MODULE MCEscalation -----------------------------
(***************************************************************************)
(* Instances of Escalation for TLC.  A tick is 30 minutes: a CRITICAL      *)
(* alert is escalated at 0 and at 1 tick (and at 2, with three tiers), a   *)
(* WARNING at once, as in DEFAULT_POLICY.                                  *)
(***************************************************************************)
EXTENDS Escalation

CONSTANTS Critical, CriticalTiers, Pagers

MCPolicy ==
    [a \in Alerts |-> IF a = Critical THEN [t \in 1 .. CriticalTiers |-> t - 1]
                      ELSE <<0>>]

MCUsers == [t \in 1 .. CriticalTiers |-> Pagers]
=============================================================================
