---------------------------- MODULE MCPartitions ----------------------------
(***************************************************************************)
(* An instance of Partitions for TLC: half a year across the end of one.   *)
(***************************************************************************)
EXTENDS Partitions

MCFirstMonth == <<2026, 10>>
MCLastMonth == <<2027, 3>>
=============================================================================
