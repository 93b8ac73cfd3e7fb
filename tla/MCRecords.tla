------------------------------ MODULE MCRecords -----------------------------
(***************************************************************************)
(* The components that observe and keep records, side by side: the         *)
(* checkers, the partitions, the rollup, the uptime reports, the sweeps,   *)
(* the accounts and the live view.  They share no variable here, so that a *)
(* behaviour of all of them is an interleaving of behaviours of each;      *)
(* focus picks the one that moves, which checks the same behaviours        *)
(* without the product of their states.                                    *)
(***************************************************************************)
EXTENDS Detection, MCPartitions, Uptime, Flapping, Accounts, LiveView, Retention, TLC

VARIABLE focus

records == <<focus, partVars, upVars, flapVars, accVars, liveVars, detVars, vars>>

Focus == {"partitions", "uptime", "flapping", "accounts", "live view", "detection",
          "retention"}

RecordsInit ==
    /\ focus \in Focus
    /\ PartInit /\ UpInit /\ FlapInit /\ AccInit /\ LiveInit /\ DetInit
    /\ Init

RecordsNext ==
    /\ UNCHANGED focus
    /\ \/ /\ focus = "partitions"
          /\ PartNext
          /\ UNCHANGED <<upVars, flapVars, accVars, liveVars, detVars, vars>>
       \/ /\ focus = "uptime"
          /\ UpNext
          /\ UNCHANGED <<partVars, flapVars, accVars, liveVars, detVars, vars>>
       \/ /\ focus = "flapping"
          /\ FlapNext
          /\ UNCHANGED <<partVars, upVars, accVars, liveVars, detVars, vars>>
       \/ /\ focus = "accounts"
          /\ AccNext
          /\ UNCHANGED <<partVars, upVars, flapVars, liveVars, detVars, vars>>
       \/ /\ focus = "live view"
          /\ LiveNext
          /\ UNCHANGED <<partVars, upVars, flapVars, accVars, detVars, vars>>
       \/ /\ focus = "detection"
          /\ DetNext
          /\ UNCHANGED <<partVars, upVars, flapVars, accVars, liveVars, vars>>
       \/ /\ focus = "retention"
          /\ Next
          /\ UNCHANGED <<partVars, upVars, flapVars, accVars, liveVars, detVars>>

RecordsSpec == RecordsInit /\ [][RecordsNext]_records

\* Type correctness of every table, task and handler of these components.
RecordsTypeOK ==
    /\ focus \in Focus
    /\ focus = "partitions" => PartTypeOK
    /\ focus = "uptime" => UpTypeOK
    /\ focus = "flapping" => FlapTypeOK
    /\ focus = "accounts" => AccTypeOK
    /\ focus = "live view" => LiveTypeOK
    /\ focus = "detection" => DetTypeOK
    /\ focus = "retention" => TypeOK

-----------------------------------------------------------------------------
\* Workers and threads of one kind are interchangeable.
WorkerSymmetry == Permutations(FlapSweeps) \cup Permutations(Handlers)
                    \cup Permutations(Editors) \cup Permutations(Runs)

\* p1 serves all queues, p2 only that of image checks: checks of the other kinds
\* share nothing, so a second one of those adds no behaviour.
MCDuties == ("p1" :> Kind) @@ ("p2" :> {"image"})

MCCooldown == [k \in AlertKind |-> 2]
=============================================================================
