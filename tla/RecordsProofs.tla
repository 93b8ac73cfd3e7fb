--------------------------- MODULE RecordsProofs ----------------------------
(***************************************************************************)
(* Proofs about the components that observe and keep records: Detection,   *)
(* LiveView, Flapping, Partitions and Uptime; those about Accounts and     *)
(* Retention are in modules of their own.                                  *)
(***************************************************************************)
EXTENDS MCRecords, AccountsProofs, RetentionProofs, SumLemmas

-----------------------------------------------------------------------------
(***************************************************************************)
(* Detection, for any streams and interfaces, any number of check workers  *)
(* that overlap and any turns of the simulator. A check is true to what it *)
(* saw because every step keeps what it has lived through (Tracks) and     *)
(* what it has found (Evidence); for the picture that is compared with the *)
(* last one, no picture is older than the last hash (FramesInv), so that   *)
(* an image check that had the files to itself finds them equal only when  *)
(* the picture is stuck (Fresh).                                           *)
(***************************************************************************)

WorldRec == [link : {"good", "slow", "cut"}, login : {"none", "wrong", "right"},
             url : BOOLEAN, admitted : BOOLEAN, able : BOOLEAN,
             feedFailed : BOOLEAN, feed : BOOLEAN, nvrFailed : BOOLEAN,
             trouble : SUBSET Trouble, look : Looks, stuck : BOOLEAN, frame : Nat]

ProbeRec == [stage : {"idle", "looking", "done"}, kind : Kind, step : 0 .. 3,
             got : 0 .. 3, frame : Nat, look : Looks, frozen : BOOLEAN,
             verdict : Status, overlapped : BOOLEAN, well : BOOLEAN, ill : BOOLEAN,
             blind : BOOLEAN]

CallRec == [stage : {"idle", "flag", "feed", "nvr"}, call : {"fail", "recover"},
            scope : {"stream", "nvr", "network"}]

DetTypes ==
    /\ world \in WorldRec
    /\ files \in [hash : Nat, reference : Looks \cup {"none"}]
    /\ probe \in [Probes -> ProbeRec]
    /\ caller \in [Callers -> CallRec]
    /\ turns \in 0 .. MaxTurns /\ looks \in 0 .. MaxLooks

\* Every picture is newer than the last hash or as old, and none is NoFrame.
FramesInv ==
    /\ world.frame <= turns + looks
    /\ files.hash = NoFrame \/ files.hash <= world.frame

\* A check that is not over knows what it has lived through.
Tracks(p) ==
    probe[p].stage # "idle" =>
        /\ Well(probe[p].kind, world) => probe[p].well
        /\ Ill(probe[p].kind, world) => probe[p].ill
        /\ Blind(probe[p].kind, world) => probe[p].blind

\* What a check has found so far it has found in the world.
Evidence(p) ==
    /\ probe[p].stage = "looking" => probe[p].verdict = "none"
    /\ probe[p].got <= probe[p].step
    /\ (probe[p].stage = "looking" /\ probe[p].kind = "ping") => probe[p].step <= 2
    /\ (probe[p].stage = "looking" /\ probe[p].kind = "ping" /\ probe[p].got > 0) => probe[p].well
    /\ (probe[p].stage = "looking" /\ probe[p].kind = "onvif" /\ probe[p].step > 0) => probe[p].well
    /\ (probe[p].stage = "looking" /\ probe[p].kind = "image" /\ probe[p].step > 0) =>
         /\ probe[p].look = "black" => probe[p].ill
         /\ probe[p].look \notin {"black", "blurred"} => probe[p].well

\* The picture an image check will compare is not that of the last hash, unless
\* it was stuck or another check had a hand in it.
Fresh(p) ==
    (probe[p].stage = "looking" /\ probe[p].kind = "image"
       /\ ~probe[p].overlapped /\ ~probe[p].ill) =>
        /\ probe[p].step = 0 => files.hash = NoFrame \/ files.hash < world.frame
        /\ probe[p].step = 1 =>
             /\ probe[p].frame < NoFrame
             /\ files.hash = NoFrame \/ files.hash < probe[p].frame
        /\ probe[p].step > 1 => ~probe[p].frozen

\* Image checks at the same time know of each other.
Crowded(p) ==
    \A q \in ImageChecks : (p \in ImageChecks /\ p # q) => probe[p].overlapped

StoredInv == \A p \in Probes :
    (probe[p].stage = "looking" /\ probe[p].kind = "image" /\ probe[p].step \in {1, 2}) =>
        probe[p].frame <= world.frame

Truthful(p) ==
    /\ probe[p].verdict = "FAIL" => probe[p].ill \/ probe[p].overlapped
    /\ probe[p].verdict = "ERROR" => probe[p].ill \/ probe[p].blind
    /\ probe[p].verdict = "OK" => probe[p].well

DetInv ==
    /\ DetTypes /\ FramesInv /\ StoredInv
    /\ \A p \in Probes : Tracks(p) /\ Evidence(p) /\ Fresh(p) /\ Crowded(p) /\ Truthful(p)

-----------------------------------------------------------------------------
LEMMA DetInitInv == DetInit => DetInv
  <1> SUFFICES ASSUME DetInit PROVE DetInv
    OBVIOUS
  <1>1. NoFrame \in Nat /\ NoFrame > MaxTurns + MaxLooks
    BY DetectionAssumption DEF NoFrame
  <1>2. NoProbe \in ProbeRec
    BY <1>1 DEF NoProbe, ProbeRec, Kind, Looks, Status
  <1>3. NoCall \in CallRec
    BY DEF NoCall, CallRec
  <1>4. Fine \in WorldRec
    BY DEF Fine, WorldRec, Looks, Trouble
  <1>5. DetTypes
    BY <1>1, <1>2, <1>3, <1>4, DetectionAssumption DEF DetInit, DetTypes, Looks
  <1>6. FramesInv /\ StoredInv
    BY <1>1 DEF DetInit, FramesInv, StoredInv, Fine, NoProbe
  <1>7. \A p \in Probes : Tracks(p) /\ Evidence(p) /\ Fresh(p) /\ Crowded(p) /\ Truthful(p)
    BY DEF DetInit, Tracks, Evidence, Fresh, Crowded, ImageChecks, Truthful, NoProbe
  <1> QED  BY <1>5, <1>6, <1>7 DEF DetInv

LEMMA DetInvTypes == DetInv => DetTypeOK
  <1> SUFFICES ASSUME DetInv PROVE DetTypeOK
    OBVIOUS
  <1>1. /\ MaxTurns \in Nat /\ MaxLooks \in Nat /\ turns \in Nat /\ looks \in Nat
        /\ turns <= MaxTurns /\ looks <= MaxLooks
    BY DetectionAssumption DEF DetInv, DetTypes
  <1>2. /\ world \in WorldRec /\ world.frame \in Nat
        /\ world.frame <= turns + looks
    BY DEF DetInv, DetTypes, WorldRec, FramesInv
  <1>3. world.frame \in 0 .. MaxTurns + MaxLooks
    BY <1>1, <1>2
  <1>4. world \in [link : {"good", "slow", "cut"}, login : {"none", "wrong", "right"},
                  url : BOOLEAN, admitted : BOOLEAN, able : BOOLEAN,
                  feedFailed : BOOLEAN, feed : BOOLEAN, nvrFailed : BOOLEAN,
                  trouble : SUBSET Trouble, look : Looks, stuck : BOOLEAN,
                  frame : 0 .. MaxTurns + MaxLooks]
    BY <1>2, <1>3 DEF WorldRec
  <1>5. files.hash \in 0 .. MaxTurns + MaxLooks \cup {NoFrame} /\ files.reference \in Looks \cup {"none"}
    BY <1>1, <1>2 DEF DetInv, DetTypes, FramesInv
  <1>6. \A p \in Probes : probe[p] \in ProbeRec
    BY DEF DetInv, DetTypes
  <1>7. \A c \in Callers : caller[c] \in CallRec
    BY DEF DetInv, DetTypes
  <1> QED
    BY <1>1, <1>4, <1>5, <1>6, <1>7 DEF DetTypeOK, ProbeRec, CallRec, DetInv, DetTypes

-----------------------------------------------------------------------------
\* The world may change as it likes: checks under way take note of it.
LEMMA BecomeStep ==
    ASSUME DetInv, turns' \in 0 .. MaxTurns, caller' \in [Callers -> CallRec]
    PROVE  \A w \in WorldRec :
             (Become(w) /\ world.frame <= w.frame /\ w.frame <= turns' + looks) => DetInv'
  <1> SUFFICES ASSUME NEW w \in WorldRec, Become(w),
                      world.frame <= w.frame, w.frame <= turns' + looks
               PROVE  DetInv'
    OBVIOUS
  <1>1. /\ world' = w /\ files' = files /\ looks' = looks
        /\ \A p \in Probes : probe'[p] = [probe[p] EXCEPT
             !.well = @ \/ (probe[p].stage # "idle" /\ Well(probe[p].kind, w)),
             !.ill = @ \/ (probe[p].stage # "idle" /\ Ill(probe[p].kind, w)),
             !.blind = @ \/ (probe[p].stage # "idle" /\ Blind(probe[p].kind, w))]
        /\ probe' = [p \in Probes |-> probe'[p]]
    BY DEF Become
  <1>2. \A p \in Probes : probe[p] \in ProbeRec
    BY DEF DetInv, DetTypes
  <1>3. ASSUME NEW p \in Probes
        PROVE  /\ probe'[p] \in ProbeRec
               /\ \A f \in {"stage", "kind", "step", "got", "frame", "look", "frozen",
                            "verdict", "overlapped"} : probe'[p][f] = probe[p][f]
               /\ probe'[p].well = (probe[p].well \/ (probe[p].stage # "idle" /\ Well(probe[p].kind, w)))
               /\ probe'[p].ill = (probe[p].ill \/ (probe[p].stage # "idle" /\ Ill(probe[p].kind, w)))
               /\ probe'[p].blind = (probe[p].blind \/ (probe[p].stage # "idle" /\ Blind(probe[p].kind, w)))
    <2> DEFINE a == probe[p].well \/ (probe[p].stage # "idle" /\ Well(probe[p].kind, w))
               b == probe[p].ill \/ (probe[p].stage # "idle" /\ Ill(probe[p].kind, w))
               c == probe[p].blind \/ (probe[p].stage # "idle" /\ Blind(probe[p].kind, w))
    <2>1. probe'[p] = [probe[p] EXCEPT !.well = a, !.ill = b, !.blind = c]
      BY <1>1, <1>2 DEF ProbeRec
    <2>2. a \in BOOLEAN /\ b \in BOOLEAN /\ c \in BOOLEAN
      BY <1>2 DEF ProbeRec
    <2> HIDE DEF a, b, c
    <2>3. /\ probe'[p] \in ProbeRec
          /\ \A f \in {"stage", "kind", "step", "got", "frame", "look", "frozen",
                            "verdict", "overlapped"} : probe'[p][f] = probe[p][f]
          /\ probe'[p].well = a /\ probe'[p].ill = b /\ probe'[p].blind = c
      BY <2>1, <2>2, <1>2 DEF ProbeRec
    <2> QED  BY <2>3 DEF a, b, c
  <1>4. DetTypes'
    <2>1. probe' \in [Probes -> ProbeRec]
      BY <1>1, <1>3, Zenon
    <2>2. /\ world' \in WorldRec /\ looks' \in 0 .. MaxLooks
          /\ files' \in [hash : Nat, reference : Looks \cup {"none"}]
      BY <1>1 DEF DetInv, DetTypes
    <2> QED  BY <2>1, <2>2 DEF DetTypes
  <1>0. /\ world.frame \in Nat /\ w.frame \in Nat /\ files.hash \in Nat
        /\ turns \in Nat /\ turns' \in Nat /\ looks \in Nat
    BY DetectionAssumption DEF DetInv, DetTypes, WorldRec
  <1>5. FramesInv'
    <2>1. world'.frame = w.frame /\ files'.hash = files.hash /\ looks' = looks
      BY <1>1
    <2>2. FramesInv
      BY DEF DetInv
    <2> QED  BY <2>1, <2>2, <1>0 DEF FramesInv
  <1>6. StoredInv'
    <2>1. SUFFICES ASSUME NEW p \in Probes,
                          (probe[p].stage = "looking" /\ probe[p].kind = "image"
                             /\ probe[p].step \in {1, 2})'
                   PROVE  (probe[p].frame <= world.frame)'
      BY DEF StoredInv
    <2>2. /\ probe'[p].stage = probe[p].stage /\ probe'[p].kind = probe[p].kind
          /\ probe'[p].step = probe[p].step /\ probe'[p].frame = probe[p].frame
      BY <1>3
    <2>3. probe[p].frame <= world.frame
      BY <2>1, <2>2 DEF DetInv, StoredInv
    <2>4. world'.frame = w.frame /\ probe[p].frame \in Nat
      BY <1>1, <1>2 DEF ProbeRec
    <2> QED  BY <2>2, <2>3, <2>4, <1>0
  <1>7. ASSUME NEW p \in Probes
        PROVE  (Tracks(p) /\ Evidence(p) /\ Fresh(p) /\ Crowded(p) /\ Truthful(p))'
    <2>1. Tracks(p)'
      BY <1>1, <1>3 DEF Tracks
    <2>2. /\ probe[p].well => probe'[p].well
          /\ probe[p].ill => probe'[p].ill
          /\ probe[p].blind => probe'[p].blind
      BY <1>3
    <2>3. (Evidence(p) /\ Truthful(p))'
      BY <2>2, <1>3 DEF DetInv, Evidence, Truthful
    <2>4. Fresh(p)'
      <3>1. /\ probe'[p].stage = probe[p].stage /\ probe'[p].kind = probe[p].kind
            /\ probe'[p].overlapped = probe[p].overlapped /\ probe'[p].step = probe[p].step
            /\ probe'[p].frame = probe[p].frame /\ probe'[p].frozen = probe[p].frozen
        BY <1>3
      <3>2. ~probe'[p].ill => ~probe[p].ill
        BY <2>2
      <3>3. world'.frame = w.frame /\ files' = files
        BY <1>1
      <3>4. Fresh(p)
        BY DEF DetInv
      <3> QED  BY <3>1, <3>2, <3>3, <3>4, <1>0 DEF Fresh
    <2>5. Crowded(p)'
      BY <1>3 DEF DetInv, Crowded, ImageChecks
    <2> QED  BY <2>1, <2>3, <2>4, <2>5
  <1> QED  BY <1>4, <1>5, <1>6, <1>7 DEF DetInv

\* A look of one check concerns that check only.
LEMMA LookStep ==
    ASSUME DetInv, NEW p \in Probes, probe'[p] \in ProbeRec,
           probe' = [probe EXCEPT ![p] = probe'[p]], Still,
           files' \in [hash : Nat, reference : Looks \cup {"none"}],
           files'.hash = files.hash,
           probe'[p].stage # "idle" =>
             /\ probe[p].stage = "looking" /\ probe'[p].kind = probe[p].kind
             /\ probe'[p].overlapped = probe[p].overlapped
             /\ probe'[p].well = probe[p].well /\ probe'[p].ill = probe[p].ill
             /\ probe'[p].blind = probe[p].blind,
           probe'[p].stage = "looking" /\ probe'[p].kind = "image" /\ probe'[p].step \in {1, 2}
              => probe'[p].frame <= world.frame,
           Evidence(p)', Fresh(p)', Truthful(p)'
    PROVE  DetInv'
  <1>1. /\ world' = world /\ caller' = caller /\ turns' = turns /\ looks' = looks
        /\ \A q \in Probes \ {p} : probe'[q] = probe[q]
    BY DEF Still, DetInv, DetTypes
  <1>2. DetTypes'
    BY <1>1 DEF DetInv, DetTypes
  <1>3. FramesInv'
    BY <1>1 DEF DetInv, FramesInv
  <1>4. StoredInv'
    BY <1>1 DEF DetInv, StoredInv
  <1>5. ImageChecks' \subseteq ImageChecks
    <2>1. probe[p].stage = "looking" => probe[p].verdict = "none"
      BY DEF DetInv, Evidence
    <2> QED  BY <1>1, <2>1 DEF ImageChecks
  <1>6. ASSUME NEW q \in Probes
        PROVE  (Tracks(q) /\ Evidence(q) /\ Fresh(q) /\ Crowded(q) /\ Truthful(q))'
    <2>1. Tracks(q)'
      <3>1. Tracks(q)
        BY DEF DetInv
      <3>2. CASE q = p
        BY <3>1, <3>2, <1>1 DEF Tracks
      <3>3. CASE q # p
        BY <3>1, <3>3, <1>1 DEF Tracks
      <3> QED  BY <3>2, <3>3
    <2>2. Crowded(q)'
      BY <1>1, <1>5 DEF DetInv, Crowded, ImageChecks
    <2>3. CASE q = p
      BY <2>1, <2>2, <2>3
    <2>4. CASE q # p
      BY <2>1, <2>2, <2>4, <1>1 DEF DetInv, Evidence, Fresh, Truthful
    <2> QED  BY <2>3, <2>4
  <1> QED  BY <1>2, <1>3, <1>4, <1>6 DEF DetInv

\* A verdict keeps what the check has lived through.
LEMMA VerdictIs ==
    ASSUME DetInv, NEW p \in Probes
    PROVE  \A status \in Status :
             LET r == Verdict(p, status)
             IN  /\ r \in ProbeRec /\ r.stage = "done" /\ r.kind = probe[p].kind
                 /\ r.overlapped = probe[p].overlapped /\ r.well = probe[p].well
                 /\ r.ill = probe[p].ill /\ r.blind = probe[p].blind /\ r.verdict = status /\ r.got = 0 /\ r.step = 0
  <1>1. TAKE status \in Status
  <1>2. probe[p] \in ProbeRec
    BY DEF DetInv, DetTypes
  <1>3. NoFrame \in Nat
    BY DetectionAssumption DEF NoFrame
  <1>4. "clear" \in Looks
    BY DEF Looks
  <1>5. PICK b \in ProbeRec : b = [probe[p] EXCEPT !.stage = "done", !.verdict = status]
    BY <1>2 DEF ProbeRec
  <1>6. PICK a \in ProbeRec : a = [b EXCEPT !.step = 0, !.got = 0]
    <2>1. 0 \in 0 .. 3
      OBVIOUS
    <2>2. [b EXCEPT !.step = 0, !.got = 0] \in ProbeRec
      BY <1>5, <2>1 DEF ProbeRec
    <2> QED  BY <2>2
  <1>7. Verdict(p, status) = [a EXCEPT !.frame = NoFrame, !.look = "clear", !.frozen = FALSE]
    BY <1>5, <1>6 DEF Verdict
  <1>8. [a EXCEPT !.frame = NoFrame, !.look = "clear", !.frozen = FALSE] \in ProbeRec
    BY <1>3, <1>4, <1>5 DEF ProbeRec
  <1>9. \A f \in {"stage", "kind", "overlapped", "well", "ill", "blind", "verdict", "got", "step"} :
           [a EXCEPT !.frame = NoFrame, !.look = "clear", !.frozen = FALSE][f] = a[f]
    BY <1>5 DEF ProbeRec
  <1>10. /\ b.stage = "done" /\ b.verdict = status
         /\ \A f \in {"kind", "overlapped", "well", "ill", "blind"} : b[f] = probe[p][f]
    BY <1>2, <1>5 DEF ProbeRec
  <1>11. /\ a.step = 0 /\ a.got = 0
         /\ \A f \in {"stage", "verdict", "kind", "overlapped", "well", "ill", "blind"} : a[f] = b[f]
    BY <1>6 DEF ProbeRec
  <1> QED  BY <1>7, <1>8, <1>9, <1>10, <1>11

\* A check that ends with a verdict that it can account for.
LEMMA ReportStep ==
    ASSUME DetInv, NEW p \in Probes, probe[p].stage = "looking", Still,
           files' \in [hash : Nat, reference : Looks \cup {"none"}],
           files'.hash = files.hash
    PROVE  \A status \in Status :
             /\ probe' = [probe EXCEPT ![p] = Verdict(p, status)]
             /\ status = "FAIL" => probe[p].ill \/ probe[p].overlapped
             /\ status = "ERROR" => probe[p].ill \/ probe[p].blind
             /\ status = "OK" => probe[p].well
             => DetInv'
  <1> SUFFICES ASSUME NEW status \in Status,
                      probe' = [probe EXCEPT ![p] = Verdict(p, status)],
                      status = "FAIL" => probe[p].ill \/ probe[p].overlapped,
                      status = "ERROR" => probe[p].ill \/ probe[p].blind,
                      status = "OK" => probe[p].well
               PROVE  DetInv'
    OBVIOUS
  <1>1. probe'[p] = Verdict(p, status)
    BY DEF DetInv, DetTypes
  <1>2. /\ probe'[p] \in ProbeRec /\ probe'[p].stage = "done" /\ probe'[p].kind = probe[p].kind
        /\ probe'[p].overlapped = probe[p].overlapped /\ probe'[p].well = probe[p].well
        /\ probe'[p].ill = probe[p].ill /\ probe'[p].blind = probe[p].blind
        /\ probe'[p].verdict = status /\ probe'[p].got = 0 /\ probe'[p].step = 0
    BY <1>1, VerdictIs
  <1>3. Evidence(p)' /\ Fresh(p)' /\ Truthful(p)'
    BY <1>2 DEF Evidence, Fresh, Truthful
  <1>4. probe' = [probe EXCEPT ![p] = probe'[p]]
    BY <1>1
  <1> QED  BY <1>2, <1>3, <1>4, LookStep
-----------------------------------------------------------------------------
LEMMA WorldChanges ==
    ASSUME DetInv
    PROVE  /\ \A link \in {"good", "slow", "cut"} : NetworkChanges(link) => DetInv'
           /\ \A login \in {"none", "wrong", "right"} : LoginChanges(login) => DetInv'
           /\ (UrlChanges => DetInv') /\ (AdmissionChanges => DetInv') /\ (HostChanges => DetInv')
           /\ \A look \in Looks : PictureChanges(look) => DetInv'
           /\ \A frame \in {world.frame, world.frame + 1} : PictureSticks(frame) => DetInv'
           /\ PictureMoves => DetInv'
           /\ \A trouble \in Trouble, on \in BOOLEAN : SetMetric(trouble, on) => DetInv'
  <1>1. /\ world \in WorldRec /\ world.frame \in Nat /\ turns \in Nat /\ looks \in Nat
        /\ world.frame <= turns + looks /\ caller \in [Callers -> CallRec]
    BY DetectionAssumption DEF DetInv, DetTypes, FramesInv, WorldRec
  <1>2. ASSUME Turn, UNCHANGED caller
        PROVE  \A w \in WorldRec :
                 Become(w) /\ w.frame \in {world.frame, world.frame + 1} => DetInv'
    <2>1. turns' \in 0 .. MaxTurns /\ turns' = turns + 1
      BY <1>1, <1>2, DetectionAssumption DEF Turn
    <2>2. \A w \in WorldRec : w.frame \in {world.frame, world.frame + 1} =>
             world.frame <= w.frame /\ w.frame <= turns' + looks
      BY <2>1, <1>1
    <2>3. caller' \in [Callers -> CallRec]
      BY <1>1, <1>2
    <2> QED  BY <2>1, <2>2, <2>3, BecomeStep
  <1>3. ASSUME NEW link \in {"good", "slow", "cut"}, NetworkChanges(link)  PROVE DetInv'
    <2>1. /\ [world EXCEPT !.link = link] \in WorldRec
          /\ [world EXCEPT !.link = link].frame = world.frame
      BY <1>1 DEF WorldRec
    <2> QED  BY <1>2, <1>3, <2>1 DEF NetworkChanges
  <1>4. ASSUME NEW login \in {"none", "wrong", "right"}, LoginChanges(login)  PROVE DetInv'
    <2>1. /\ [world EXCEPT !.login = login] \in WorldRec
          /\ [world EXCEPT !.login = login].frame = world.frame
      BY <1>1 DEF WorldRec
    <2> QED  BY <1>2, <1>4, <2>1 DEF LoginChanges
  <1>5. ASSUME NEW look \in Looks, PictureChanges(look)  PROVE DetInv'
    <2>1. /\ [world EXCEPT !.look = look] \in WorldRec
          /\ [world EXCEPT !.look = look].frame = world.frame
      BY <1>1 DEF WorldRec
    <2> QED  BY <1>2, <1>5, <2>1 DEF PictureChanges
  <1>6. ASSUME NEW frame \in {world.frame, world.frame + 1}, PictureSticks(frame)  PROVE DetInv'
    <2>1. PICK v \in WorldRec : v = [world EXCEPT !.stuck = TRUE]
      BY <1>1 DEF WorldRec
    <2>2. v.frame = world.frame
      BY <2>1, <1>1 DEF WorldRec
    <2>0. PICK n \in Nat : n = frame
      BY <1>1
    <2>3. /\ [v EXCEPT !.frame = frame] \in WorldRec
          /\ [v EXCEPT !.frame = frame].frame = frame
      <3>1. v \in WorldRec
        BY <2>1
      <3>2. [v EXCEPT !.frame = n] \in WorldRec /\ [v EXCEPT !.frame = n].frame = n
        BY <3>1 DEF WorldRec
      <3> QED  BY <3>2, <2>0
    <2>4. Turn /\ UNCHANGED caller /\ Become([v EXCEPT !.frame = frame])
      <3>1. [world EXCEPT !.stuck = TRUE, !.frame = frame] = [v EXCEPT !.frame = frame]
        BY <2>1, <1>1 DEF WorldRec
      <3> QED  BY <3>1, <1>6 DEF PictureSticks
    <2> QED  BY <1>1, <1>2, <1>6, <2>3, <2>4
  <1>7. ASSUME PictureMoves  PROVE DetInv'
    <2>1. PICK v \in WorldRec : v = [world EXCEPT !.stuck = FALSE]
      BY <1>1 DEF WorldRec
    <2>2. v.frame = world.frame
      BY <2>1, <1>1 DEF WorldRec
    <2>0. PICK n \in Nat : n = world.frame + 1
      BY <1>1
    <2>3. /\ [v EXCEPT !.frame = world.frame + 1] \in WorldRec
          /\ [v EXCEPT !.frame = world.frame + 1].frame = world.frame + 1
      <3>1. v \in WorldRec
        BY <2>1
      <3>2. [v EXCEPT !.frame = n] \in WorldRec /\ [v EXCEPT !.frame = n].frame = n
        BY <3>1 DEF WorldRec
      <3> QED  BY <3>2, <2>0
    <2>4. Turn /\ UNCHANGED caller /\ Become([v EXCEPT !.frame = world.frame + 1])
      <3>1. [world EXCEPT !.stuck = FALSE, !.frame = @ + 1] = [v EXCEPT !.frame = world.frame + 1]
        BY <2>1, <1>1 DEF WorldRec
      <3> QED  BY <3>1, <1>7 DEF PictureMoves
    <2> QED  BY <1>1, <1>2, <2>3, <2>4
  <1>8. ASSUME NEW trouble \in Trouble, NEW on \in BOOLEAN, SetMetric(trouble, on)
        PROVE  DetInv'
    <2> DEFINE t == IF on THEN world.trouble \cup {trouble} ELSE world.trouble \ {trouble}
    <2>1. t \in SUBSET Trouble
      BY <1>1 DEF WorldRec
    <2>2. Turn /\ UNCHANGED caller /\ Become([world EXCEPT !.trouble = t])
      BY <1>8, <1>1 DEF SetMetric, WorldRec
    <2> HIDE DEF t
    <2>3. /\ [world EXCEPT !.trouble = t] \in WorldRec
          /\ [world EXCEPT !.trouble = t].frame = world.frame
      BY <1>1, <2>1 DEF WorldRec
    <2> QED  BY <1>2, <2>2, <2>3
  <1>9. ASSUME UrlChanges  PROVE DetInv'
    <2>1. (~world.url) \in BOOLEAN
      OBVIOUS
    <2>2. /\ [world EXCEPT !.url = ~world.url] \in WorldRec
          /\ [world EXCEPT !.url = ~world.url].frame = world.frame
      BY <1>1, <2>1 DEF WorldRec
    <2> QED  BY <1>2, <1>9, <2>2 DEF UrlChanges
  <1>10. ASSUME AdmissionChanges  PROVE DetInv'
    <2>1. (~world.admitted) \in BOOLEAN
      OBVIOUS
    <2>2. /\ [world EXCEPT !.admitted = ~world.admitted] \in WorldRec
          /\ [world EXCEPT !.admitted = ~world.admitted].frame = world.frame
      BY <1>1, <2>1 DEF WorldRec
    <2> QED  BY <1>2, <1>10, <2>2 DEF AdmissionChanges
  <1>11. ASSUME HostChanges  PROVE DetInv'
    <2>1. (~world.able) \in BOOLEAN
      OBVIOUS
    <2>2. /\ [world EXCEPT !.able = ~world.able] \in WorldRec
          /\ [world EXCEPT !.able = ~world.able].frame = world.frame
      BY <1>1, <2>1 DEF WorldRec
    <2> QED  BY <1>2, <1>11, <2>2 DEF HostChanges
  <1> QED  BY <1>3, <1>4, <1>5, <1>6, <1>7, <1>8, <1>9, <1>10, <1>11

LEMMA CallChanges ==
    ASSUME DetInv, NEW c \in Callers
    PROVE  /\ SetFlag(c) => DetInv'
           /\ SwitchFeed(c) => DetInv'
           /\ SwitchRecorder(c) => DetInv'
           /\ \A x \in Calls : BeginCall(c, x[1], x[2]) => DetInv'
  <1>1. /\ world \in WorldRec /\ world.frame \in Nat /\ turns \in Nat /\ looks \in Nat
        /\ world.frame <= turns + looks /\ caller \in [Callers -> CallRec]
        /\ turns \in 0 .. MaxTurns
    BY DetectionAssumption DEF DetInv, DetTypes, FramesInv, WorldRec
  <1>2. ASSUME UNCHANGED turns, caller' \in [Callers -> CallRec]
        PROVE  \A w \in WorldRec : Become(w) /\ w.frame = world.frame => DetInv'
    <2>1. \A w \in WorldRec : w.frame = world.frame =>
             world.frame <= w.frame /\ w.frame <= turns' + looks
      BY <1>1, <1>2
    <2> QED  BY <1>1, <1>2, <2>1, BecomeStep
  <1>3. ASSUME SetFlag(c)  PROVE DetInv'
    <2> DEFINE b == caller[c].call = "fail"
    <2>1. /\ [world EXCEPT !.feedFailed = b] \in WorldRec
          /\ [world EXCEPT !.feedFailed = b].frame = world.frame
      BY <1>1 DEF WorldRec
    <2>2. caller' \in [Callers -> CallRec]
      BY <1>1, <1>3 DEF SetFlag, CallRec
    <2> QED  BY <1>2, <1>3, <2>1, <2>2 DEF SetFlag
  <1>4. ASSUME SwitchFeed(c)  PROVE DetInv'
    <2> DEFINE b == caller[c].call = "recover"
    <2>1. /\ [world EXCEPT !.feed = b] \in WorldRec
          /\ [world EXCEPT !.feed = b].frame = world.frame
      BY <1>1 DEF WorldRec
    <2>2. caller' \in [Callers -> CallRec]
      BY <1>1, <1>4 DEF SwitchFeed, CallRec
    <2> QED  BY <1>2, <1>4, <2>1, <2>2 DEF SwitchFeed
  <1>5. ASSUME SwitchRecorder(c)  PROVE DetInv'
    <2> DEFINE b == caller[c].call = "fail"
    <2>1. /\ [world EXCEPT !.nvrFailed = b] \in WorldRec
          /\ [world EXCEPT !.nvrFailed = b].frame = world.frame
      BY <1>1 DEF WorldRec
    <2>2. NoCall \in CallRec
      BY DEF NoCall, CallRec
    <2>3. caller' \in [Callers -> CallRec]
      BY <1>1, <1>5, <2>2 DEF SwitchRecorder
    <2> QED  BY <1>2, <1>5, <2>1, <2>3 DEF SwitchRecorder
  <1>6. ASSUME NEW x \in Calls, BeginCall(c, x[1], x[2])  PROVE DetInv'
    <2>1. x[1] \in {"fail", "recover"} /\ x[2] \in {"stream", "nvr", "network"}
      BY DEF Calls
    <2>2. caller' \in [Callers -> CallRec]
      BY <1>1, <1>6, <2>1 DEF BeginCall, CallRec
    <2>3. /\ turns' \in 0 .. MaxTurns /\ turns' = turns + 1
          /\ UNCHANGED <<world, files, probe, looks>>
      BY <1>1, <1>6, DetectionAssumption DEF BeginCall, Turn
    <2>4. DetTypes' /\ StoredInv' /\ ImageChecks' = ImageChecks
      BY <2>2, <2>3 DEF DetInv, DetTypes, StoredInv, ImageChecks
    <2>5. FramesInv'
      BY <2>3, <1>1 DEF DetInv, FramesInv
    <2>6. \A p \in Probes : (Tracks(p) /\ Evidence(p) /\ Fresh(p) /\ Crowded(p) /\ Truthful(p))'
      BY <2>3, <2>4 DEF DetInv, Tracks, Evidence, Fresh, Crowded, Truthful
    <2> QED  BY <2>4, <2>5, <2>6 DEF DetInv
  <1> QED  BY <1>3, <1>4, <1>5, <1>6

LEMMA FrameIsNoMatter ==
    ASSUME NEW w \in WorldRec, NEW v \in WorldRec, NEW kind \in Kind,
           \A f \in {"link", "login", "url", "admitted", "able", "feed", "nvrFailed", "trouble",
                    "look", "stuck"} : v[f] = w[f]
    PROVE  /\ Ill(kind, v) = Ill(kind, w) /\ Well(kind, v) = Well(kind, w)
           /\ Blind(kind, v) = Blind(kind, w)
  <1>1. Ill(kind, v) = Ill(kind, w)
    BY DEF Ill, Kind
  <1>2. Ill(kind, [v EXCEPT !.stuck = FALSE]) = Ill(kind, [w EXCEPT !.stuck = FALSE])
    BY DEF Ill, Kind, WorldRec
  <1>3. Blind(kind, v) = Blind(kind, w)
    BY DEF Blind
  <1> QED  BY <1>1, <1>2, <1>3 DEF Well

LEMMA BeginStep ==
    ASSUME DetInv, NEW p \in Probes, NEW kind \in Duties[p], BeginProbe(p, kind)
    PROVE  DetInv'
  <1> DEFINE crowd == kind = "image" /\ ImageChecks # {}
             moves == kind = "image" /\ ~crowd /\ ~world.stuck
  <1>1. kind \in Kind
    BY DutiesAssumption
  <1>2. /\ world \in WorldRec /\ world.frame \in Nat /\ turns \in Nat /\ looks \in Nat
        /\ files.hash \in Nat
        /\ probe \in [Probes -> ProbeRec] /\ \A q \in Probes : probe[q] \in ProbeRec
    BY DetectionAssumption DEF DetInv, DetTypes, WorldRec
  <1>3. PICK n \in Nat : n = IF moves THEN world.frame + 1 ELSE world.frame
    <2>1. world.frame + 1 \in Nat
      BY <1>2
    <2> QED  BY <1>2, <2>1, Zenon
  <1>4. /\ world' = [world EXCEPT !.frame = n] /\ looks' = looks + 1 /\ looks < MaxLooks
        /\ UNCHANGED <<files, caller, turns>> /\ probe[p].stage = "idle"
    BY <1>3, <1>2 DEF BeginProbe, WorldRec
  <1>5. /\ world' \in WorldRec /\ world'.frame = n
        /\ \A f \in {"link", "login", "url", "admitted", "able", "feed", "nvrFailed", "trouble",
                    "look", "stuck"} : world'[f] = world[f]
    BY <1>2, <1>4 DEF WorldRec
  <1>6. \A k \in Kind : /\ Ill(k, world') = Ill(k, world) /\ Well(k, world') = Well(k, world)
                       /\ Blind(k, world') = Blind(k, world)
    BY <1>2, <1>5, FrameIsNoMatter
  <1>7. /\ probe'[p] = [NoProbe EXCEPT !.stage = "looking", !.kind = kind, !.overlapped = crowd,
                                      !.well = Well(kind, world), !.ill = Ill(kind, world),
                                      !.blind = Blind(kind, world)]
        /\ \A q \in Probes \ {p} :
             probe'[q] = [probe[q] EXCEPT !.overlapped = @ \/ (crowd /\ q \in ImageChecks)]
        /\ probe' = [q \in Probes |-> probe'[q]]
    BY <1>4 DEF BeginProbe
  <1>8. /\ probe'[p] \in ProbeRec
        /\ probe'[p].stage = "looking" /\ probe'[p].kind = kind /\ probe'[p].step = 0
        /\ probe'[p].got = 0 /\ probe'[p].verdict = "none" /\ probe'[p].overlapped = crowd
        /\ probe'[p].well = Well(kind, world) /\ probe'[p].ill = Ill(kind, world)
        /\ probe'[p].blind = Blind(kind, world)
    <2>1. NoFrame \in Nat
      BY DetectionAssumption DEF NoFrame
    <2>2. PICK a \in BOOLEAN, b \in BOOLEAN, d \in BOOLEAN, e \in BOOLEAN :
             a = crowd /\ b = Well(kind, world) /\ d = Ill(kind, world) /\ e = Blind(kind, world)
      BY <1>1 DEF Well, Ill, Blind, Kind
    <2>3. probe'[p] = [stage |-> "looking", kind |-> kind, step |-> 0, got |-> 0,
             frame |-> NoFrame, look |-> "clear", frozen |-> FALSE, verdict |-> "none",
             overlapped |-> a, well |-> b, ill |-> d, blind |-> e]
      BY <1>7, <2>2 DEF NoProbe
    <2> QED  BY <2>1, <2>2, <2>3, <1>1 DEF ProbeRec, Looks, Status
  <1>9. ASSUME NEW q \in Probes \ {p}
        PROVE  /\ probe'[q] \in ProbeRec
               /\ \A f \in {"stage", "kind", "step", "got", "frame", "look", "frozen",
                            "verdict", "well", "ill", "blind"} : probe'[q][f] = probe[q][f]
               /\ probe'[q].overlapped = (probe[q].overlapped \/ (crowd /\ q \in ImageChecks))
    <2> DEFINE a == probe[q].overlapped \/ (crowd /\ q \in ImageChecks)
    <2>1. probe'[q] = [probe[q] EXCEPT !.overlapped = a]
      BY <1>2, <1>7 DEF ProbeRec
    <2>2. a \in BOOLEAN
      BY <1>2 DEF ProbeRec
    <2> HIDE DEF a
    <2>3. probe[q] \in ProbeRec
      BY <1>2
    <2>4. /\ probe'[q] \in ProbeRec
          /\ \A f \in {"stage", "kind", "step", "got", "frame", "look", "frozen",
                       "verdict", "well", "ill", "blind"} : probe'[q][f] = probe[q][f]
          /\ probe'[q].overlapped = a
      BY <2>1, <2>2, <2>3 DEF ProbeRec
    <2> QED  BY <2>4 DEF a
  <1>10. n >= world.frame /\ n <= world.frame + 1
    BY <1>2, <1>3
  <1>11. DetTypes'
    <2>1. probe' \in [Probes -> ProbeRec]
      BY <1>7, <1>8, <1>9, Zenon
    <2>2. looks' \in 0 .. MaxLooks
      BY <1>2, <1>4, DetectionAssumption
    <2> QED  BY <2>1, <2>2, <1>4, <1>5 DEF DetInv, DetTypes
  <1>12. FramesInv'
    BY <1>2, <1>4, <1>5, <1>10 DEF DetInv, FramesInv
  <1>13. StoredInv'
    <2> SUFFICES ASSUME NEW q \in Probes, (probe[q].stage = "looking" /\ probe[q].kind = "image"
                             /\ probe[q].step \in {1, 2})'
                 PROVE  (probe[q].frame <= world.frame)'
      BY DEF StoredInv
    <2>1. q # p
      BY <1>8
    <2>2. probe[q].frame <= world.frame /\ probe'[q].frame = probe[q].frame
      BY <2>1, <1>9 DEF DetInv, StoredInv
    <2>3. probe[q].frame \in Nat
      BY <1>2 DEF ProbeRec
    <2> QED  BY <2>2, <2>3, <1>2, <1>5, <1>10
  <1>14. ASSUME NEW q \in Probes
         PROVE  (Tracks(q) /\ Evidence(q) /\ Fresh(q) /\ Crowded(q) /\ Truthful(q))'
    <2>1. Tracks(q)'
      <3>1. CASE q = p
        BY <3>1, <1>1, <1>6, <1>8 DEF Tracks
      <3>2. CASE q # p
        <4>1. probe[q].kind \in Kind /\ Tracks(q)
          BY <1>2 DEF DetInv, ProbeRec
        <4> QED  BY <3>2, <4>1, <1>6, <1>9 DEF Tracks
      <3> QED  BY <3>1, <3>2
    <2>2. (Evidence(q) /\ Truthful(q))'
      <3>1. CASE q = p
        <4>1. /\ probe'[q].stage = "looking" /\ probe'[q].step = 0 /\ probe'[q].got = 0
              /\ probe'[q].verdict = "none"
          BY <3>1, <1>8
        <4> QED  BY <4>1 DEF Evidence, Truthful
      <3>2. CASE q # p
        <4>1. /\ probe'[q].stage = probe[q].stage /\ probe'[q].kind = probe[q].kind
              /\ probe'[q].step = probe[q].step /\ probe'[q].got = probe[q].got
              /\ probe'[q].look = probe[q].look /\ probe'[q].verdict = probe[q].verdict
              /\ probe'[q].well = probe[q].well /\ probe'[q].ill = probe[q].ill
              /\ probe'[q].blind = probe[q].blind
          BY <3>2, <1>9
        <4>2. probe[q].overlapped => probe'[q].overlapped
          BY <3>2, <1>9
        <4>3. Evidence(q) /\ Truthful(q)
          BY DEF DetInv
        <4>4. Evidence(q)'
          BY <4>1, <4>3 DEF Evidence
        <4>5. Truthful(q)'
          BY <4>1, <4>2, <4>3 DEF Truthful
        <4> QED  BY <4>4, <4>5
      <3> QED  BY <3>1, <3>2
    <2>3. Fresh(q)'
      <3>1. CASE q = p
        <4> SUFFICES ASSUME kind = "image", ~crowd, ~Ill("image", world)
                     PROVE  files'.hash = NoFrame \/ files'.hash < world'.frame
          <5>1. /\ probe'[q].kind = kind /\ probe'[q].step = 0 /\ probe'[q].overlapped = crowd
                /\ probe'[q].ill = Ill(kind, world)
            BY <3>1, <1>8
          <5>2. ~(probe'[q].step = 1) /\ ~(probe'[q].step > 1)
            BY <5>1
          <5> HIDE DEF crowd
          <5> QED  BY <5>1, <5>2 DEF Fresh
        <4>1. ~world.stuck
          BY DEF Ill
        <4>2. n = world.frame + 1
          BY <4>1, <1>3
        <4> QED  BY <4>2, <1>2, <1>4, <1>5 DEF DetInv, FramesInv
      <3>2. CASE q # p
        <4> SUFFICES ASSUME probe[q].stage = "looking", probe[q].kind = "image",
                            ~probe[q].overlapped, ~probe[q].ill, ~(crowd /\ q \in ImageChecks)
                     PROVE  Fresh(q)'
          BY <3>2, <1>9 DEF Fresh
        <4>1. q \in ImageChecks
          BY DEF ImageChecks, DetInv, Evidence
        <4>2. n = world.frame
          BY <4>1, <1>3
        <4>3. Fresh(q)
          BY DEF DetInv
        <4> QED  BY <4>2, <4>3, <3>2, <1>4, <1>5, <1>9 DEF Fresh
      <3> QED  BY <3>1, <3>2
    <2>4. Crowded(q)'
      <3> SUFFICES ASSUME NEW r \in ImageChecks', q \in ImageChecks', q # r
                   PROVE  probe'[q].overlapped
        BY DEF Crowded
      <3>1. \A s \in Probes \ {p} : s \in ImageChecks' <=> s \in ImageChecks
        BY <1>9 DEF ImageChecks
      <3>2. p \in ImageChecks' => kind = "image"
        BY <1>8 DEF ImageChecks
      <3>3. r \in Probes
        BY DEF ImageChecks
      <3>4. CASE q = p
        BY <3>1, <3>2, <3>3, <3>4, <1>8
      <3>5. CASE q # p /\ r = p
        BY <3>1, <3>2, <3>5, <1>9
      <3>6. CASE q # p /\ r # p
        BY <3>1, <3>3, <3>6, <1>9 DEF DetInv, Crowded
      <3> QED  BY <3>4, <3>5, <3>6
    <2> QED  BY <2>1, <2>2, <2>3, <2>4
  <1> QED  BY <1>11, <1>12, <1>13, <1>14 DEF DetInv
-----------------------------------------------------------------------------
\* A camera without a url is none of the image check's that overlap: its files
\* are left alone.
LEMMA NoUrlStep ==
    ASSUME DetInv, NEW p \in Probes, NEW kind \in Duties[p], NoUrl(p, kind)
    PROVE  DetInv'
  <1>1. /\ kind \in Kind /\ kind \in Streamed /\ ~world.url
        /\ looks \in Nat /\ looks < MaxLooks /\ looks' = looks + 1
        /\ world' = world /\ files' = files /\ caller' = caller /\ turns' = turns
    <2>1. kind \in Kind
      BY DutiesAssumption
    <2>2. looks \in Nat
      BY DetectionAssumption DEF DetInv, DetTypes
    <2> QED  BY <2>1, <2>2 DEF NoUrl
  <1>2. /\ world \in WorldRec /\ probe \in [Probes -> ProbeRec]
        /\ world.frame \in Nat /\ turns \in Nat /\ files.hash \in Nat
    BY DetectionAssumption DEF DetInv, DetTypes, WorldRec
  <1>3. /\ probe'[p] \in ProbeRec
        /\ probe'[p].stage = "done" /\ probe'[p].kind = kind /\ probe'[p].step = 0
        /\ probe'[p].got = 0 /\ probe'[p].verdict = "ERROR" /\ probe'[p].blind
        /\ probe'[p].well = Well(kind, world) /\ probe'[p].ill = Ill(kind, world)
    <2>1. NoFrame \in Nat
      BY DetectionAssumption DEF NoFrame
    <2>2. PICK b \in BOOLEAN, d \in BOOLEAN : b = Well(kind, world) /\ d = Ill(kind, world)
      BY <1>1 DEF Well, Ill, Kind
    <2>3. probe'[p] = [stage |-> "done", kind |-> kind, step |-> 0, got |-> 0,
             frame |-> NoFrame, look |-> "clear", frozen |-> FALSE, verdict |-> "ERROR",
             overlapped |-> FALSE, well |-> b, ill |-> d, blind |-> TRUE]
      BY <1>2, <2>2 DEF NoUrl, NoProbe
    <2> QED  BY <2>1, <2>2, <2>3, <1>1 DEF ProbeRec, Looks, Status
  <1>4. /\ \A q \in Probes \ {p} : probe'[q] = probe[q]
        /\ probe' = [probe EXCEPT ![p] = probe'[p]]
    BY <1>2 DEF NoUrl
  <1>5. DetTypes'
    <2>1. looks' \in 0 .. MaxLooks
      BY <1>1, DetectionAssumption
    <2> QED  BY <1>1, <1>3, <1>4, <2>1 DEF DetInv, DetTypes
  <1>6. FramesInv'
    BY <1>1, <1>2 DEF DetInv, FramesInv
  <1>7. StoredInv'
    BY <1>1, <1>3, <1>4 DEF DetInv, StoredInv
  <1>8. ImageChecks' = ImageChecks
    BY <1>3, <1>4 DEF ImageChecks, NoUrl
  <1>9. ASSUME NEW q \in Probes
        PROVE  (Tracks(q) /\ Evidence(q) /\ Fresh(q) /\ Crowded(q) /\ Truthful(q))'
    <2>1. CASE q = p
      <3>1. (Tracks(p) /\ Evidence(p) /\ Fresh(p) /\ Truthful(p))'
        BY <1>1, <1>3 DEF Tracks, Evidence, Fresh, Truthful
      <3>2. p \notin ImageChecks'
        BY <1>3 DEF ImageChecks
      <3> QED  BY <2>1, <3>1, <3>2 DEF Crowded
    <2>2. CASE q # p
      <3>1. probe'[q] = probe[q]
        BY <2>2, <1>4
      <3> QED  BY <3>1, <1>1, <1>8 DEF DetInv, Tracks, Evidence, Fresh, Crowded, Truthful
    <2> QED  BY <2>1, <2>2
  <1> QED  BY <1>5, <1>6, <1>7, <1>9 DEF DetInv

LEMMA EchoStep ==
    ASSUME DetInv, NEW p \in Probes, NEW answered \in BOOLEAN, Echo(p, answered)
    PROVE  DetInv'
  <1> DEFINE got == probe[p].got + (IF answered THEN 1 ELSE 0)
  <1>1. /\ probe[p] \in ProbeRec /\ probe[p].got \in 0 .. 3 /\ probe[p].step \in 0 .. 2
        /\ probe[p].got <= probe[p].step /\ probe \in [Probes -> ProbeRec]
        /\ Tracks(p) /\ Evidence(p) /\ Truthful(p)
    BY DEF DetInv, DetTypes, ProbeRec, Echo, Looking, Evidence
  <1>2. /\ probe[p].stage = "looking" /\ probe[p].kind = "ping" /\ Still
        /\ UNCHANGED files /\ files' \in [hash : Nat, reference : Looks \cup {"none"}]
    BY DEF Echo, Looking, DetInv, DetTypes
  <1>3. got > 0 => probe[p].well
    <2>1. CASE probe[p].got > 0
      BY <2>1, <1>1, <1>2 DEF Evidence
    <2>2. CASE answered
      <3>1. Well("ping", world)
        BY <2>2 DEF Echo, Well, Ill, DetInv, DetTypes, WorldRec
      <3> QED  BY <3>1, <1>1, <1>2 DEF Tracks
    <2> QED  BY <2>1, <2>2, <1>1
  <1>4. CASE probe[p].step = 2
    <2>1. probe' = [probe EXCEPT ![p] = Verdict(p, PingStatus(got))]
      BY <1>4 DEF Echo
    <2>2. PingStatus(got) \in Status
      BY DEF PingStatus, Status
    <2>3. PingStatus(got) = "FAIL" => probe[p].ill
      <3> SUFFICES ASSUME got = 0  PROVE probe[p].ill
        BY DEF PingStatus
      <3>1. ~answered /\ ~(probe[p].got > 0)
        BY <1>1
      <3>2. world.link = "cut"
        BY <3>1, <1>4 DEF Echo
      <3> QED  BY <3>2, <1>1, <1>2 DEF Tracks, Ill
    <2>4. PingStatus(got) # "ERROR" /\ (PingStatus(got) = "OK" => probe[p].well)
      <3>1. got \in Nat
        BY <1>1
      <3> QED  BY <3>1, <1>3 DEF PingStatus
    <2> HIDE DEF got
    <2> QED  BY <2>1, <2>2, <2>3, <2>4, <1>2, ReportStep
  <1>5. CASE probe[p].step # 2
    <2>1. PICK m \in 0 .. 2, k \in 0 .. 3 : m = probe[p].step + 1 /\ k = got /\ k <= m
      BY <1>1, <1>5
    <2>2. probe'[p] = [probe[p] EXCEPT !.step = m, !.got = k]
      <3>1. probe'[p] = [probe[p] EXCEPT !.step = probe[p].step + 1, !.got = got]
        BY <1>1, <1>5 DEF Echo
      <3> HIDE DEF got
      <3> QED  BY <3>1, <2>1
    <2>3. /\ probe'[p] \in ProbeRec /\ probe'[p].step = m /\ probe'[p].got = k
          /\ \A f \in {"stage", "kind", "frame", "look", "frozen", "verdict", "overlapped",
                       "well", "ill", "blind"} : probe'[p][f] = probe[p][f]
      <3>1. m \in 0 .. 3
        BY <2>1
      <3>2. PICK a \in ProbeRec : a = [probe[p] EXCEPT !.step = m]
        BY <1>1, <3>1 DEF ProbeRec
      <3>3. probe'[p] = [a EXCEPT !.got = k]
        BY <3>2, <2>2
      <3>4. /\ [a EXCEPT !.got = k] \in ProbeRec /\ [a EXCEPT !.got = k].got = k
            /\ \A f \in {"stage", "kind", "step", "frame", "look", "frozen", "verdict",
                         "overlapped", "well", "ill", "blind"} : [a EXCEPT !.got = k][f] = a[f]
        BY <3>2, <2>1 DEF ProbeRec
      <3>5. /\ a.step = m
            /\ \A f \in {"stage", "kind", "frame", "look", "frozen", "verdict",
                         "overlapped", "well", "ill", "blind"} : a[f] = probe[p][f]
        BY <3>2, <1>1 DEF ProbeRec
      <3> QED  BY <3>3, <3>4, <3>5
    <2>4. probe' = [probe EXCEPT ![p] = probe'[p]]
      BY <1>1, <1>5 DEF Echo
    <2>5. Evidence(p)' /\ Truthful(p)'
      BY <2>1, <2>3, <1>1, <1>2, <1>3 DEF Evidence, Truthful
    <2>6. Fresh(p)'
      BY <2>3, <1>2 DEF Fresh
    <2> HIDE DEF got
    <2> QED  BY <2>3, <2>4, <2>5, <2>6, <1>2, LookStep
  <1> QED  BY <1>4, <1>5

LEMMA RecorderSteps ==
    ASSUME DetInv, NEW p \in Probes
    PROVE  /\ NoEcho(p) => DetInv'
           /\ Ffprobe(p) => DetInv'
           /\ QueryStatus(p) => DetInv'
           /\ QueryInformation(p) => DetInv'
           /\ QueryClock(p) => DetInv'
  <1>1. /\ probe[p] \in ProbeRec /\ probe \in [Probes -> ProbeRec]
        /\ Tracks(p) /\ Evidence(p) /\ Truthful(p) /\ world \in WorldRec
        /\ files \in [hash : Nat, reference : Looks \cup {"none"}]
    BY DEF DetInv, DetTypes
  <1>2. ASSUME probe[p].stage = "looking", UNCHANGED files, Still
        PROVE  \A status \in Status :
                 /\ probe' = [probe EXCEPT ![p] = Verdict(p, status)]
                 /\ status = "FAIL" => Ill(probe[p].kind, world)
                 /\ status = "ERROR" => Ill(probe[p].kind, world) \/ Blind(probe[p].kind, world)
                 /\ status = "OK" => Well(probe[p].kind, world) \/ probe[p].well
                 => DetInv'
    BY <1>1, <1>2, ReportStep DEF Tracks
  <1>3. LinkError \in {"FAIL", "ERROR"}
    BY DEF LinkError
  <1>4. ASSUME Ffprobe(p)  PROVE DetInv'
    <2> DEFINE status == IF ~world.able THEN "ERROR" ELSE IF Watchable THEN "OK" ELSE "FAIL"
    <2>1. /\ status \in Status
          /\ status = "FAIL" => Ill("rtsp", world)
          /\ status = "ERROR" => Blind("rtsp", world)
          /\ status = "OK" => Well("rtsp", world)
      BY <1>1 DEF Status, Ill, Well, Blind, Watchable, WorldRec
    <2> QED  BY <1>2, <1>4, <2>1 DEF Ffprobe, Looking, Report
  <1>5. ASSUME QueryStatus(p)  PROVE DetInv'
    <2> DEFINE status == IF world.link # "good" THEN LinkError
                 ELSE IF SimulatorAnswers THEN NvrStatus(world.trouble) ELSE "ERROR"
    <2>1. /\ status \in Status
          /\ status \in {"FAIL", "ERROR"} => Ill("nvr", world)
      BY <1>3 DEF Status, Ill, SimulatorAnswers, NvrStatus
    <2>2. ASSUME status = "OK"  PROVE Well("nvr", world)
      <3>1. /\ world.link = "good" /\ ~world.nvrFailed
            /\ world.trouble \cap Severe = {} /\ world.trouble \cap Worrying = {}
        BY <2>2, <1>3 DEF SimulatorAnswers, NvrStatus
      <3> QED  BY <3>1, <1>1 DEF Well, Ill, WorldRec
    <2> HIDE DEF status
    <2>3. /\ probe' = [probe EXCEPT ![p] = Verdict(p, status)] /\ Looking(p, "nvr")
          /\ UNCHANGED files /\ Still
      BY <1>5 DEF QueryStatus, Report, status
    <2> QED  BY <1>2, <2>1, <2>2, <2>3 DEF Looking
  <1>6. ASSUME QueryInformation(p)  PROVE DetInv'
    <2> DEFINE status == IF world.login = "none" THEN "ERROR"
                         ELSE IF world.link # "good" THEN LinkError ELSE "ERROR"
    <2>1. CASE world.login = "none" \/ world.link # "good" \/ LoginRefused
      <3>1. status \in Status /\ status \in {"FAIL", "ERROR"} /\ Ill("onvif", world)
        BY <1>3, <2>1 DEF Status, Ill, LoginRefused
      <3>2. probe' = [probe EXCEPT ![p] = Verdict(p, status)] /\ Looking(p, "onvif")
        BY <1>6, <2>1 DEF QueryInformation
      <3> HIDE DEF status
      <3> QED  BY <1>2, <1>6, <3>1, <3>2 DEF QueryInformation, Looking
    <2>2. CASE ~(world.login = "none" \/ world.link # "good" \/ LoginRefused)
      <3>1. Well("onvif", world)
        BY <2>2, <1>1 DEF Well, Ill, LoginRefused, WorldRec
      <3>2. probe[p].stage = "looking" /\ probe[p].kind = "onvif" /\ probe[p].well /\ probe[p].step = 0
        BY <3>1, <1>1, <1>6 DEF QueryInformation, Looking, Tracks
      <3>3. /\ probe' = [probe EXCEPT ![p] = probe'[p]]
            /\ probe'[p] = [probe[p] EXCEPT !.step = 1]
        BY <1>1, <1>6, <2>2 DEF QueryInformation
      <3>4. /\ probe'[p] \in ProbeRec /\ probe'[p].step = 1
            /\ \A f \in {"stage", "kind", "got", "frame", "look", "frozen", "verdict",
                         "overlapped", "well", "ill", "blind"} : probe'[p][f] = probe[p][f]
        <4>1. 1 \in 0 .. 3
          OBVIOUS
        <4> QED  BY <3>3, <4>1, <1>1 DEF ProbeRec
      <3>5. Evidence(p)' /\ Fresh(p)' /\ Truthful(p)'
        <4>1. probe[p].got <= 0 /\ probe[p].got \in 0 .. 3
          BY <3>2, <1>1 DEF Evidence, ProbeRec
        <4> QED  BY <4>1, <3>2, <3>4, <1>1 DEF Evidence, Fresh, Truthful
      <3> QED  BY <3>2, <3>3, <3>4, <3>5, <1>1, <1>6, LookStep DEF QueryInformation
    <2> QED  BY <2>1, <2>2
  <1>7. ASSUME QueryClock(p)  PROVE DetInv'
    <2> DEFINE status == IF world.link # "good" THEN LinkError ELSE NvrStatus(ClockTrouble)
    <2>1. ClockTrouble \cap Severe = {}
      BY DEF ClockTrouble, Severe
    <2>2. status \in Status /\ (status \in {"FAIL", "ERROR"} => Ill("onvif", world))
      BY <1>3, <2>1 DEF NvrStatus, Status, Ill
    <2>3. /\ probe[p].stage = "looking" /\ probe[p].kind = "onvif" /\ probe[p].step = 1
          /\ UNCHANGED files /\ Still /\ probe' = [probe EXCEPT ![p] = Verdict(p, status)]
      BY <1>7 DEF QueryClock, Looking, Report
    <2>4. probe[p].well
      BY <2>3, <1>1 DEF Evidence
    <2> HIDE DEF status
    <2> QED  BY <1>2, <2>2, <2>3, <2>4
  <1>8. ASSUME NoEcho(p)  PROVE DetInv'
    <2>1. /\ probe[p].stage = "looking" /\ probe[p].kind = "ping" /\ ~world.able
          /\ UNCHANGED files /\ Still /\ probe' = [probe EXCEPT ![p] = Verdict(p, "ERROR")]
      BY <1>8 DEF NoEcho, Looking, Report
    <2>2. "ERROR" \in Status /\ Blind("ping", world)
      BY <2>1 DEF Status, Blind
    <2> QED  BY <1>2, <2>1, <2>2
  <1> QED  BY <1>4, <1>5, <1>6, <1>7, <1>8

LEMMA ImageSteps ==
    ASSUME DetInv, NEW p \in Probes
    PROVE  /\ Grab(p) => DetInv'
           /\ CompareHash(p) => DetInv'
           /\ StoreHash(p) => DetInv'
           /\ JudgePicture(p) => DetInv'
  <1>1. /\ probe[p] \in ProbeRec /\ probe \in [Probes -> ProbeRec]
        /\ Tracks(p) /\ Evidence(p) /\ Fresh(p) /\ Truthful(p) /\ world \in WorldRec
        /\ files \in [hash : Nat, reference : Looks \cup {"none"}]
        /\ world.frame \in Nat /\ files.hash \in Nat /\ probe[p].frame \in Nat
        /\ probe[p].got \in 0 .. 3 /\ probe[p].step \in 0 .. 3 /\ probe[p].got <= probe[p].step
        /\ (probe[p].stage = "looking" /\ probe[p].kind = "image" /\ probe[p].step \in {1, 2})
             => probe[p].frame <= world.frame
    BY DEF DetInv, DetTypes, ProbeRec, WorldRec, StoredInv, Evidence
  <1>2. world.frame < NoFrame
    <2>1. /\ world.frame <= turns + looks /\ turns \in 0 .. MaxTurns /\ looks \in 0 .. MaxLooks
      BY DEF DetInv, DetTypes, FramesInv
    <2> QED  BY <1>1, <2>1, DetectionAssumption DEF NoFrame
  <1>3. ASSUME Grab(p)  PROVE DetInv'
    <2>1. /\ probe[p].stage = "looking" /\ probe[p].kind = "image" /\ probe[p].step = 0
          /\ UNCHANGED files /\ Still
      BY <1>3 DEF Grab, Looking
    <2>2. CASE ~Watchable
      <3>1. probe' = [probe EXCEPT ![p] = Verdict(p, "FAIL")]
        BY <1>3, <2>2 DEF Grab
      <3>2. probe[p].ill
        BY <2>1, <2>2, <1>1 DEF Tracks, Ill, Watchable
      <3>3. "FAIL" \in Status
        BY DEF Status
      <3> QED  BY <1>1, <2>1, <3>1, <3>2, <3>3, ReportStep
    <2>3. CASE Watchable
      <3>1. probe' = [probe EXCEPT ![p] = [probe[p] EXCEPT !.step = 1, !.frame = world.frame,
                                                            !.look = world.look]]
        BY <1>3, <2>3 DEF Grab
      <3>2. PICK n \in Nat, k \in Looks : n = world.frame /\ k = world.look
        BY <1>1 DEF WorldRec
      <3>3. /\ probe'[p] = [probe[p] EXCEPT !.step = 1, !.frame = n, !.look = k]
            /\ probe' = [probe EXCEPT ![p] = probe'[p]]
        BY <3>1, <3>2, <1>1
      <3>4. /\ probe'[p] \in ProbeRec /\ probe'[p].step = 1 /\ probe'[p].frame = n
            /\ probe'[p].look = k
            /\ \A f \in {"stage", "kind", "got", "frozen", "verdict", "overlapped", "well", "ill", "blind"} :
                  probe'[p][f] = probe[p][f]
        <4>1. 1 \in 0 .. 3
          OBVIOUS
        <4>2. PICK a \in ProbeRec : a = [probe[p] EXCEPT !.step = 1]
          BY <1>1, <4>1 DEF ProbeRec
        <4>3. probe'[p] = [a EXCEPT !.frame = n, !.look = k]
          BY <3>3, <4>2
        <4>4. /\ [a EXCEPT !.frame = n, !.look = k] \in ProbeRec
              /\ [a EXCEPT !.frame = n, !.look = k].frame = n
              /\ [a EXCEPT !.frame = n, !.look = k].look = k
              /\ \A f \in {"stage", "kind", "step", "got", "frozen", "verdict", "overlapped",
                           "well", "ill", "blind"} : [a EXCEPT !.frame = n, !.look = k][f] = a[f]
          BY <4>2, <3>2 DEF ProbeRec
        <4>5. /\ a.step = 1
              /\ \A f \in {"stage", "kind", "got", "frozen", "verdict", "overlapped",
                           "well", "ill", "blind"} : a[f] = probe[p][f]
          BY <4>2, <1>1 DEF ProbeRec
        <4> QED  BY <4>3, <4>4, <4>5
      <3>5. k = "black" => probe[p].ill
        BY <3>2, <2>1, <1>1 DEF Tracks, Ill
      <3>6. k \notin {"black", "blurred"} => probe[p].well
        <4> SUFFICES ASSUME k \notin {"black", "blurred"}  PROVE probe[p].well
          OBVIOUS
        <4>1. Well("image", world)
          BY <3>2, <2>3, <1>1 DEF Well, Ill, Watchable, WorldRec
        <4> QED  BY <4>1, <2>1, <1>1 DEF Tracks
      <3>7. Evidence(p)' /\ Truthful(p)'
        BY <2>1, <3>4, <3>5, <3>6, <1>1 DEF Evidence, Truthful
      <3>8. Fresh(p)'
        <4>1. files' = files
          BY <2>1
        <4> QED  BY <4>1, <2>1, <3>2, <3>4, <1>1, <1>2 DEF Fresh
      <3>9. probe'[p].frame <= world.frame
        BY <3>2, <3>4, <1>1
      <3> QED  BY <2>1, <3>3, <3>4, <3>7, <3>8, <3>9, <1>1, LookStep
    <2> QED  BY <2>2, <2>3
  <1>4. ASSUME CompareHash(p)  PROVE DetInv'
    <2>1. /\ probe[p].stage = "looking" /\ probe[p].kind = "image" /\ probe[p].step = 1
          /\ files' = files /\ Still
      BY <1>4 DEF CompareHash, Looking
    <2> DEFINE b == files.hash = probe[p].frame
    <2>2. /\ probe'[p] = [probe[p] EXCEPT !.step = 2, !.frozen = b]
          /\ probe' = [probe EXCEPT ![p] = probe'[p]]
      <3>1. probe' = [probe EXCEPT ![p] = [probe[p] EXCEPT !.step = 2, !.frozen = b]]
        BY <1>1, <1>4 DEF CompareHash
      <3> QED  BY <3>1, <1>1
    <2>3. b = (files.hash = probe[p].frame) /\ b \in BOOLEAN
      OBVIOUS
    <2> HIDE DEF b
    <2>4. /\ probe'[p] \in ProbeRec /\ probe'[p].step = 2 /\ probe'[p].frozen = b
          /\ \A f \in {"stage", "kind", "got", "frame", "look", "verdict", "overlapped", "well", "ill", "blind"} :
                probe'[p][f] = probe[p][f]
      <3>1. 2 \in 0 .. 3
        OBVIOUS
      <3> QED  BY <2>2, <2>3, <3>1, <1>1 DEF ProbeRec
    <2>5. Evidence(p)' /\ Truthful(p)'
      BY <2>1, <2>4, <1>1 DEF Evidence, Truthful
    <2>6. Fresh(p)'
      <3>1. (~probe[p].overlapped /\ ~probe[p].ill) => files.hash # probe[p].frame
        BY <2>1, <1>1 DEF Fresh
      <3>2. (~probe[p].overlapped /\ ~probe[p].ill) => ~b
        BY <3>1, <2>3
      <3> QED  BY <3>2, <2>4 DEF Fresh
    <2> QED  BY <2>1, <2>2, <2>4, <2>5, <2>6, <1>1, LookStep
  <1>5. ASSUME StoreHash(p)  PROVE DetInv'
    <2>1. /\ probe[p].stage = "looking" /\ probe[p].kind = "image" /\ probe[p].step = 2
          /\ Still /\ p \in ImageChecks
      BY <1>5, <1>1 DEF StoreHash, Looking, ImageChecks, Evidence
    <2>2. /\ probe'[p] = [probe[p] EXCEPT !.step = 3]
          /\ \A q \in Probes \ {p} : probe'[q] = probe[q]
          /\ probe' = [probe EXCEPT ![p] = probe'[p]]
      BY <1>5, <1>1 DEF StoreHash
    <2>3. /\ probe'[p] \in ProbeRec /\ probe'[p].step = 3
          /\ \A f \in {"stage", "kind", "got", "frame", "look", "frozen", "verdict",
                       "overlapped", "well", "ill", "blind"} : probe'[p][f] = probe[p][f]
      <3>1. 3 \in 0 .. 3
        OBVIOUS
      <3> QED  BY <2>2, <3>1, <1>1 DEF ProbeRec
    <2>4. /\ files'.hash = probe[p].frame /\ files' \in [hash : Nat, reference : Looks \cup {"none"}]
      BY <1>5, <1>1 DEF StoreHash
    <2>5. /\ world' = world /\ caller' = caller /\ turns' = turns /\ looks' = looks
      BY <2>1 DEF Still
    <2>6. DetTypes'
      <3>1. probe' \in [Probes -> ProbeRec]
        BY <2>2, <2>3, <1>1
      <3> QED  BY <3>1, <2>4, <2>5 DEF DetInv, DetTypes
    <2>7. FramesInv'
      <3>1. files'.hash <= world.frame
        BY <2>1, <2>4, <1>1
      <3> QED  BY <3>1, <2>5 DEF DetInv, FramesInv
    <2>8. StoredInv'
      <3>1. probe'[p].step \notin {1, 2}
        BY <2>3
      <3>2. \A q \in Probes \ {p} : probe'[q] = probe[q]
        BY <2>2
      <3> QED  BY <3>1, <3>2, <2>5 DEF DetInv, StoredInv
    <2>9. ImageChecks' = ImageChecks
      BY <2>2, <2>3 DEF ImageChecks
    <2>10. ASSUME NEW q \in Probes
           PROVE  (Tracks(q) /\ Evidence(q) /\ Fresh(q) /\ Crowded(q) /\ Truthful(q))'
      <3>1. CASE q = p
        <4>1. (Tracks(q) /\ Evidence(q) /\ Truthful(q))'
          BY <3>1, <2>1, <2>3, <2>5, <1>1 DEF Tracks, Evidence, Truthful
        <4>2. Fresh(q)'
          BY <3>1, <2>1, <2>3, <1>1 DEF Fresh
        <4>3. Crowded(q)'
          BY <3>1, <2>3, <2>9 DEF DetInv, Crowded
        <4> QED  BY <4>1, <4>2, <4>3
      <3>2. CASE q # p
        <4>1. probe'[q] = probe[q]
          BY <3>2, <2>2
        <4>2. (Tracks(q) /\ Evidence(q) /\ Truthful(q))'
          BY <4>1, <2>5 DEF DetInv, Tracks, Evidence, Truthful
        <4>3. Fresh(q)'
          <5>1. q \in ImageChecks => probe[q].overlapped
            BY <3>2, <2>1 DEF DetInv, Crowded
          <5>2. probe[q].stage = "looking" => probe[q].verdict = "none"
            BY DEF DetInv, Evidence
          <5> QED  BY <4>1, <5>1, <5>2 DEF Fresh, ImageChecks
        <4>4. Crowded(q)'
          BY <4>1, <2>9 DEF DetInv, Crowded
        <4> QED  BY <4>2, <4>3, <4>4
      <3> QED  BY <3>1, <3>2
    <2> QED  BY <2>6, <2>7, <2>8, <2>10 DEF DetInv
  <1>6. ASSUME JudgePicture(p)  PROVE DetInv'
    <2> DEFINE first   == files.reference = "none"
               changed == ~first /\ probe[p].look # files.reference
               status  == IF probe[p].look = "black" \/ probe[p].frozen THEN "FAIL"
                          ELSE IF probe[p].look = "blurred" \/ changed THEN "DEGRADED" ELSE "OK"
    <2>1. /\ probe[p].stage = "looking" /\ probe[p].kind = "image" /\ probe[p].step = 3
          /\ Still /\ probe' = [probe EXCEPT ![p] = Verdict(p, status)]
          /\ files' = [files EXCEPT !.reference = IF first THEN probe[p].look ELSE @]
      BY <1>6, <1>1 DEF JudgePicture, Looking, Report
    <2>2. files' \in [hash : Nat, reference : Looks \cup {"none"}] /\ files'.hash = files.hash
      BY <2>1, <1>1 DEF ProbeRec
    <2>3. status \in Status
      BY DEF Status
    <2>4. status # "ERROR" /\ (status = "FAIL" => probe[p].ill \/ probe[p].overlapped)
      <3>1. probe[p].look = "black" => probe[p].ill
        BY <2>1, <1>1 DEF Evidence
      <3>2. probe[p].frozen => probe[p].ill \/ probe[p].overlapped
        BY <2>1, <1>1 DEF Fresh
      <3> QED  BY <3>1, <3>2 DEF status
    <2>5. status = "OK" => probe[p].well
      BY <2>1, <1>1 DEF Evidence
    <2> HIDE DEF status
    <2> QED  BY <2>1, <2>2, <2>3, <2>4, <2>5, ReportStep
  <1> QED  BY <1>3, <1>4, <1>5, <1>6

LEMMA DeliverStep ==
    ASSUME DetInv, NEW p \in Probes, Deliver(p)
    PROVE  DetInv'
  <1>1. NoProbe \in ProbeRec /\ NoProbe.stage = "idle" /\ NoProbe.verdict = "none"
        /\ NoProbe.got = 0 /\ NoProbe.step = 0
    <2>1. NoFrame \in Nat
      BY DetectionAssumption DEF NoFrame
    <2> QED  BY <2>1 DEF NoProbe, ProbeRec, Kind, Looks, Status
  <1>2. /\ probe'[p] = NoProbe /\ probe' = [probe EXCEPT ![p] = probe'[p]]
        /\ Still /\ files' = files /\ files \in [hash : Nat, reference : Looks \cup {"none"}]
    BY DEF Deliver, DetInv, DetTypes
  <1>3. Evidence(p)' /\ Fresh(p)' /\ Truthful(p)'
    BY <1>1, <1>2 DEF Evidence, Fresh, Truthful
  <1> QED  BY <1>1, <1>2, <1>3, LookStep

LEMMA DetStep == DetInv /\ [DetNext]_detVars => DetInv'
  <1> SUFFICES ASSUME DetInv, [DetNext]_detVars  PROVE DetInv'
    OBVIOUS
  <1>1. CASE UNCHANGED detVars
    <2>1. DetTypes' /\ FramesInv' /\ StoredInv' /\ ImageChecks' = ImageChecks
      BY <1>1 DEF detVars, DetInv, DetTypes, FramesInv, StoredInv, ImageChecks
    <2>2. \A p \in Probes : (Tracks(p) /\ Evidence(p) /\ Fresh(p) /\ Crowded(p) /\ Truthful(p))'
      BY <1>1, <2>1 DEF detVars, DetInv, Tracks, Evidence, Fresh, Crowded, Truthful
    <2> QED  BY <2>1, <2>2 DEF DetInv
  <1>2. CASE DetNext
    <2>1. world \in WorldRec
      BY DEF DetInv, DetTypes
    <2>2. ASSUME NEW c \in Callers,
                 \/ SetFlag(c) \/ SwitchFeed(c) \/ SwitchRecorder(c)
                 \/ \E x \in Calls : BeginCall(c, x[1], x[2])
          PROVE  DetInv'
      BY <2>2, CallChanges
    <2>3. ASSUME NEW p \in Probes,
                 \/ \E kind \in Duties[p] : BeginProbe(p, kind) \/ NoUrl(p, kind)
                 \/ NoEcho(p) \/ \E answered \in BOOLEAN : Echo(p, answered)
                 \/ Ffprobe(p) \/ QueryStatus(p) \/ QueryInformation(p) \/ QueryClock(p)
                 \/ Grab(p) \/ CompareHash(p) \/ StoreHash(p) \/ JudgePicture(p) \/ Deliver(p)
          PROVE  DetInv'
      BY <2>3, BeginStep, NoUrlStep, EchoStep, RecorderSteps, ImageSteps, DeliverStep
    <2> QED  BY <1>2, <2>2, <2>3, WorldChanges DEF DetNext
  <1> QED  BY <1>1, <1>2

\* The state of the world, the checks and the calls stays well formed.
THEOREM DetectionTypes == DetSpec => []DetTypeOK
  <1> QED  BY DetInitInv, DetStep, DetInvTypes, PTL DEF DetSpec

\* A device that fails a check was down, or refused its login, at some moment of
\* it; one whose check ends in an error was down, or could not be looked at, at
\* some moment; one that is called well was well at some moment.  Only image checks
\* that overlap may fail a moving picture: they share one hash file (ImageChecker).
THEOREM ChecksTellTruth == DetSpec => []VerdictsTellTruth
  <1>1. DetInv => VerdictsTellTruth
    BY DEF DetInv, Truthful, VerdictsTellTruth
  <1> QED  BY <1>1, DetInitInv, DetStep, PTL DEF DetSpec

-----------------------------------------------------------------------------
(***************************************************************************)
(* The live view, for every set of devices and of editors and any mishaps. *)
(* On a device where nothing went wrong and no two workers met, the one    *)
(* that works on it knows of the row and of the path what it needs         *)
(* (Owned), and when nobody does, the path is the row's (Settled).         *)
(***************************************************************************)

Workers == Editors \cup {Resync}

GearRow == LiveRow \cup {Gone}

EditorRec == [stage : LiveStage, on : Gear, todo : SUBSET Gear, row : GearRow,
              rows : [Gear -> GearRow], source : Source]

LiveTypes ==
    /\ gear \in [Gear -> GearRow] /\ path \in [Gear -> Source]
    /\ editor \in [Workers -> EditorRec]
    /\ edits \in 0 .. MaxEdits /\ mishaps \in 0 .. MaxMishaps
    /\ restarts \in 0 .. MaxRestarts /\ astray \subseteq Gear

Target(d) == IF HasLiveView(d, gear[d]) THEN SourceOf(gear[d], gear[d].login) ELSE NoPath

\* What a worker that has a device to itself knows about it.
Knows(e, d) ==
    /\ d \in editor[e].todo =>
         /\ HasLiveView(d, gear[d]) \/ path[d] = NoPath
         /\ (e = Resync /\ editor[e].stage # "start") => editor[e].rows[d] = gear[d]
    /\ editor[e].on = d =>
         /\ editor[e].stage = "login" => editor[e].row = gear[d] /\ HasLiveView(d, gear[d])
         /\ editor[e].stage \in {"add", "patch"} =>
              /\ HasLiveView(d, gear[d])
              /\ editor[e].source = SourceOf(gear[d], gear[d].login)
         /\ editor[e].stage = "patch" => path[d] # NoPath
         /\ editor[e].stage = "remove" => ~HasLiveView(d, gear[d])

\* Nobody else works on the device of such a worker.
Alone(e, d) == \A f \in Workers \ {e} : d \notin Working(f)

Owned == \A d \in Gear \ astray : \A e \in Workers :
    d \in Working(e) => Alone(e, d) /\ Knows(e, d)

Settled == \A d \in Gear \ astray :
    (\A e \in Workers : d \notin Working(e)) => path[d] = Target(d)

Started == \A e \in Workers : editor[e].stage = "start" => editor[e].todo = Gear

LiveInv == LiveTypes /\ Owned /\ Settled /\ Started

-----------------------------------------------------------------------------
LEMMA AtRestRec == AtRest \in EditorRec /\ AtRest.stage = "idle" /\ AtRest.todo = {}
  <1>1. (CHOOSE d \in Gear : TRUE) \in Gear
    BY LiveViewAssumption
  <1>2. Gone \in GearRow /\ NoPath \in Source
    BY DEF GearRow, NoPath, Source
  <1> QED  BY <1>1, <1>2 DEF AtRest, EditorRec, LiveStage

LEMMA LiveInitInv == LiveInit => LiveInv
  <1> SUFFICES ASSUME LiveInit PROVE LiveInv
    OBVIOUS
  <1>1. \A e \in Workers : editor[e] = AtRest /\ Working(e) = {}
    BY AtRestRec DEF LiveInit, Workers, Working
  <1>2. LiveTypes
    <2>1. Gone \in GearRow /\ NoPath \in Source
      BY DEF GearRow, NoPath, Source
    <2>2. editor \in [Workers -> EditorRec]
      BY AtRestRec DEF LiveInit, Workers
    <2> QED  BY <2>1, <2>2, LiveViewAssumption DEF LiveInit, LiveTypes
  <1>3. Owned /\ Started
    BY <1>1, AtRestRec DEF Owned, Started
  <1>4. Settled
    BY DEF LiveInit, Settled, Target, HasLiveView, Gone
  <1> QED  BY <1>2, <1>3, <1>4 DEF LiveInv

-----------------------------------------------------------------------------
\* A row that does not exist is no camera's, and has no path.
LEMMA RowFacts ==
    ASSUME LiveInv, NEW d \in Gear
    PROVE  /\ gear[d] \in GearRow
           /\ ~gear[d].exists => gear[d] = Gone /\ ~HasLiveView(d, gear[d])
           /\ HasLiveView(d, gear[d]) => gear[d].exists /\ gear[d].active /\ d \in Cameras
  <1>1. gear[d] \in LiveRow \cup {Gone}
    BY DEF LiveInv, LiveTypes, GearRow
  <1>2. CASE gear[d] = Gone
    BY <1>2 DEF Gone, HasLiveView, GearRow
  <1>3. CASE gear[d] \in LiveRow
    BY <1>3 DEF LiveRow, HasLiveView, GearRow
  <1> QED  BY <1>1, <1>2, <1>3

\* A request commits: whoever commits alone has the devices to itself.
LEMMA CommitStep ==
    ASSUME LiveInv, NEW e \in Editors,
           NEW ds \in SUBSET Gear,
           gear' \in [Gear -> GearRow], \A d \in Gear \ ds : gear'[d] = gear[d],
           editor[e].stage = "idle", editor' = [editor EXCEPT ![e] = editor'[e]],
           editor'[e] \in EditorRec, editor'[e].stage \in {"next", "remove"},
           Working(e)' = ds,
           UNCHANGED <<path, mishaps, restarts>>, edits < MaxEdits, edits' = edits + 1,
           astray' \subseteq Gear,
           ds \cap Others(e) \subseteq astray', astray \ ds \subseteq astray',
           \A d \in ds \ astray' : Knows(e, d)'
    PROVE  LiveInv'
  <1>1. e \in Workers /\ e # Resync
    BY LiveViewAssumption DEF Workers
  <1>2. LiveTypes'
    <2>1. editor' \in [Workers -> EditorRec]
      BY <1>1 DEF LiveInv, LiveTypes
    <2>2. edits' \in 0 .. MaxEdits
      BY LiveViewAssumption DEF LiveInv, LiveTypes
    <2> QED  BY <2>1, <2>2 DEF LiveInv, LiveTypes
  <1>3. \A f \in Workers \ {e} : editor'[f] = editor[f] /\ Working(f)' = Working(f)
    BY <1>1 DEF LiveInv, LiveTypes, Working
  <1>4. \A f \in Workers \ {e} : Working(f) \subseteq Others(e)
    BY DEF Others, Workers
  <1>5. Working(e) = {}
    BY DEF Working
  <1>6. Started'
    BY <1>1, <1>3 DEF LiveInv, Started
  <1>7. ASSUME NEW d \in Gear \ astray', NEW f \in Workers, d \in Working(f)'
        PROVE  (Alone(f, d) /\ Knows(f, d))'
    <2>1. CASE d \in ds
      <3>1. d \notin Others(e)
        BY <2>1
      <3>2. f = e
        BY <3>1, <1>3, <1>4, <1>7
      <3>3. Alone(e, d)'
        BY <3>1, <1>3, <1>4 DEF Alone
      <3> QED  BY <2>1, <3>2, <3>3
    <2>2. CASE d \notin ds
      <3>1. d \notin astray /\ f # e /\ d \in Working(f) /\ f \in Workers \ {e}
        BY <2>2, <1>3, <1>7
      <3>2. Alone(f, d) /\ Knows(f, d)
        BY <3>1 DEF LiveInv, Owned
      <3>3. Alone(f, d)'
        BY <2>2, <3>2, <1>3 DEF Alone
      <3>4. Knows(f, d)'
        BY <2>2, <3>1, <3>2, <1>3 DEF Knows
      <3> QED  BY <3>3, <3>4
    <2> QED  BY <2>1, <2>2
  <1>8. Settled'
    <2> SUFFICES ASSUME NEW d \in Gear \ astray', \A f \in Workers : d \notin Working(f)'
                 PROVE  path'[d] = Target(d)'
      BY DEF Settled
    <2>1. d \notin ds /\ d \notin astray
      BY <1>1
    <2>2. \A f \in Workers : d \notin Working(f)
      BY <1>3, <1>5
    <2>3. path[d] = Target(d)
      BY <2>1, <2>2 DEF LiveInv, Settled
    <2> QED  BY <2>1, <2>3 DEF Target
  <1> QED  BY <1>2, <1>6, <1>7, <1>8 DEF LiveInv, Owned

\* A step of one worker that leaves alone what it does not work on.
LEMMA WorkStep ==
    ASSUME LiveInv, NEW e \in Workers,
           LiveTypes', editor' = [editor EXCEPT ![e] = editor'[e]], UNCHANGED gear,
           astray \subseteq astray',
           editor'[e].stage = "start" => editor'[e].todo = Gear,
           Working(e)' \subseteq Working(e),
           \A d \in Gear \ Working(e) : path'[d] = path[d],
           \A d \in Working(e) \ astray' :
              IF d \in Working(e)' THEN Knows(e, d)' ELSE path'[d] = Target(d)
    PROVE  LiveInv'
  <1>1. \A f \in Workers \ {e} : editor'[f] = editor[f] /\ Working(f)' = Working(f)
    BY DEF LiveInv, LiveTypes, Working
  <1>2. Started'
    BY <1>1 DEF LiveInv, Started
  <1>3. ASSUME NEW d \in Gear \ astray', NEW f \in Workers, d \in Working(f)'
        PROVE  (Alone(f, d) /\ Knows(f, d))'
    <2>1. d \notin astray /\ d \in Working(f)
      BY <1>1, <1>3
    <2>2. Alone(f, d) /\ Knows(f, d)
      BY <2>1 DEF LiveInv, Owned
    <2>3. Alone(f, d)'
      BY <2>2, <1>1 DEF Alone
    <2>4. Knows(f, d)'
      <3>1. CASE f = e
        BY <3>1, <2>1, <1>3
      <3>2. CASE f # e
        <4>1. d \notin Working(e)
          BY <3>2, <2>2 DEF Alone
        <4>2. path'[d] = path[d]
          BY <4>1
        <4> QED  BY <3>2, <4>2, <2>2, <1>1 DEF Knows
      <3> QED  BY <3>1, <3>2
    <2> QED  BY <2>3, <2>4
  <1>4. Settled'
    <2> SUFFICES ASSUME NEW d \in Gear \ astray', \A f \in Workers : d \notin Working(f)'
                 PROVE  path'[d] = Target(d)'
      BY DEF Settled
    <2>0. Target(d)' = Target(d)
      BY DEF Target
    <2>1. CASE d \in Working(e)
      BY <2>0, <2>1
    <2>2. CASE d \notin Working(e)
      <3>1. \A f \in Workers : d \notin Working(f)
        BY <2>2, <1>1
      <3>2. path[d] = Target(d)
        BY <3>1 DEF LiveInv, Settled
      <3> QED  BY <2>0, <2>2, <3>2
    <2> QED  BY <2>1, <2>2
  <1> QED  BY <1>2, <1>3, <1>4 DEF LiveInv, Owned
-----------------------------------------------------------------------------
LEMMA WorkerFacts ==
    ASSUME LiveInv, NEW e \in Workers
    PROVE  /\ editor[e] \in EditorRec /\ editor[e].on \in Gear /\ editor[e].todo \subseteq Gear
           /\ editor[e].stage \in LiveStage /\ editor[e].row \in GearRow
           /\ editor[e].rows \in [Gear -> GearRow] /\ editor[e].source \in Source
           /\ editor \in [Workers -> EditorRec] /\ Working(e) \subseteq Gear
           /\ gear \in [Gear -> GearRow] /\ path \in [Gear -> Source] /\ astray \subseteq Gear
  <1>1. editor[e] \in EditorRec
    BY DEF LiveInv, LiveTypes
  <1> QED  BY <1>1 DEF EditorRec, Working, LiveInv, LiveTypes

LEMMA SourceIs ==
    ASSUME NEW row \in GearRow, NEW login \in BOOLEAN
    PROVE  SourceOf(row, login) \in Source
  <1>1. row.url \in Urls \cup {Nowhere}
    <2>1. CASE row = Gone
      BY <2>1 DEF Gone
    <2>2. CASE row \in LiveRow
      BY <2>2 DEF LiveRow
    <2> QED  BY <2>1, <2>2 DEF GearRow
  <1> QED  BY <1>1 DEF SourceOf, Source

LEMMA RequestSteps ==
    ASSUME LiveInv, NEW e \in Workers
    PROVE  /\ \A row \in LiveRow, ds \in SUBSET Gear : row.active /\ Create(e, ds, row) => LiveInv'
           /\ \A row \in LiveRow, d \in Gear : Update(e, d, row) => LiveInv'
           /\ \A d \in Gear : Deactivate(e, d) => LiveInv'
  <1>1. /\ editor[e] \in EditorRec /\ editor \in [Workers -> EditorRec]
        /\ gear \in [Gear -> GearRow] /\ astray \subseteq Gear
    BY WorkerFacts
  <1>2. Others(e) \subseteq Gear
    BY WorkerFacts DEF Others, Workers
  <1>3. ASSUME NEW row \in LiveRow, NEW ds \in SUBSET Gear, Create(e, ds, row)  PROVE LiveInv'
    <2>1. /\ editor[e].stage = "idle" /\ e \in Editors /\ edits < MaxEdits /\ edits' = edits + 1
          /\ gear' = [d \in Gear |-> IF d \in ds THEN row ELSE gear[d]]
          /\ astray' = (astray \ ({} \ Others(e))) \cup (ds \cap Others(e)) \cup {}
          /\ UNCHANGED <<path, mishaps, restarts>>
          /\ editor' = [editor EXCEPT ![e] = [AtRest EXCEPT !.stage = "next", !.todo = ds]]
          /\ \A d \in ds : ~gear[d].exists
      BY <1>3 DEF Create, Commit
    <2>2. /\ editor'[e] = [AtRest EXCEPT !.stage = "next", !.todo = ds]
          /\ editor' = [editor EXCEPT ![e] = editor'[e]]
      BY <2>1, <1>1
    <2>3. editor'[e] \in EditorRec /\ editor'[e].stage = "next" /\ editor'[e].todo = ds
      BY <2>2, AtRestRec DEF EditorRec, LiveStage
    <2>4. Working(e)' = ds
      BY <2>3 DEF Working
    <2>5. gear' \in [Gear -> GearRow] /\ \A d \in Gear \ ds : gear'[d] = gear[d]
      BY <2>1, <1>1 DEF GearRow
    <2>6. ASSUME NEW d \in ds \ astray'  PROVE Knows(e, d)'
      <3>1. d \notin Others(e) /\ d \notin astray /\ Working(e) = {}
        BY <2>1, <2>6 DEF Working
      <3>2. \A f \in Workers : d \notin Working(f)
        BY <3>1 DEF Others, Workers
      <3>3. path[d] = Target(d)
        BY <3>1, <3>2 DEF LiveInv, Settled
      <3>4. path'[d] = NoPath
        BY <2>1, <3>3, RowFacts DEF Target
      <3>5. e # Resync
        BY <2>1, LiveViewAssumption
      <3> QED  BY <2>3, <3>4, <3>5 DEF Knows
    <2>7. /\ astray' \subseteq Gear /\ ds \cap Others(e) \subseteq astray'
          /\ astray \ ds \subseteq astray'
      BY <2>1, <1>1, <1>2
    <2> QED  BY <2>1, <2>2, <2>3, <2>4, <2>5, <2>6, <2>7, CommitStep
  <1>4. ASSUME NEW row \in LiveRow, NEW d \in Gear, Update(e, d, row)  PROVE LiveInv'
    <2> DEFINE repaired == IF HasLiveView(d, row) THEN {d} ELSE {}
               left == IF HasLiveView(d, row) \/ path[d] = NoPath THEN {} ELSE {d}
    <2>1. /\ editor[e].stage = "idle" /\ e \in Editors /\ edits < MaxEdits /\ edits' = edits + 1
          /\ gear' = [gear EXCEPT ![d] = row]
          /\ astray' = (astray \ (repaired \ Others(e))) \cup ({d} \cap Others(e)) \cup left
          /\ UNCHANGED <<path, mishaps, restarts>>
          /\ editor' = [editor EXCEPT ![e] = [AtRest EXCEPT !.stage = "next", !.todo = {d}]]
      BY <1>4 DEF Update, Commit
    <2>2. /\ editor'[e] = [AtRest EXCEPT !.stage = "next", !.todo = {d}]
          /\ editor' = [editor EXCEPT ![e] = editor'[e]]
      BY <2>1, <1>1
    <2>3. editor'[e] \in EditorRec /\ editor'[e].stage = "next" /\ editor'[e].todo = {d}
      <3>1. PICK ds \in SUBSET Gear : ds = {d}
        OBVIOUS
      <3>2. [AtRest EXCEPT !.stage = "next", !.todo = ds] \in EditorRec
        BY <3>1, AtRestRec DEF EditorRec, LiveStage
      <3>3. /\ [AtRest EXCEPT !.stage = "next", !.todo = ds].stage = "next"
            /\ [AtRest EXCEPT !.stage = "next", !.todo = ds].todo = ds
        BY <3>1, AtRestRec DEF EditorRec
      <3> QED  BY <2>2, <3>1, <3>2, <3>3
    <2>4. Working(e)' = {d}
      BY <2>3 DEF Working
    <2>5. gear' \in [Gear -> GearRow] /\ gear'[d] = row /\ \A c \in Gear \ {d} : gear'[c] = gear[c]
      BY <2>1, <1>1 DEF GearRow
    <2>0. {d} \in SUBSET Gear
      OBVIOUS
    <2>6. \A c \in {d} \ astray' : Knows(e, c)'
      <3> SUFFICES ASSUME d \notin astray'  PROVE Knows(e, d)'
        OBVIOUS
      <3>1. HasLiveView(d, row) \/ path[d] = NoPath
        BY <2>1
      <3>2. e # Resync
        BY <2>1, LiveViewAssumption
      <3>3. editor'[e].stage = "next" /\ gear'[d] = row /\ path' = path
        BY <2>1, <2>3, <2>5
      <3> QED  BY <3>1, <3>2, <3>3 DEF Knows
    <2>7. /\ astray' \subseteq Gear /\ {d} \cap Others(e) \subseteq astray'
          /\ astray \ {d} \subseteq astray'
      BY <2>1, <1>1, <1>2
    <2> HIDE DEF repaired, left
    <2> QED  BY <2>0, <2>1, <2>2, <2>3, <2>4, <2>5, <2>6, <2>7, CommitStep
  <1>5. ASSUME NEW d \in Gear, Deactivate(e, d)  PROVE LiveInv'
    <2>1. /\ editor[e].stage = "idle" /\ e \in Editors /\ edits < MaxEdits /\ edits' = edits + 1
          /\ gear' = [gear EXCEPT ![d].active = FALSE] /\ gear[d].exists
          /\ astray' = (astray \ ({d} \ Others(e))) \cup ({d} \cap Others(e)) \cup {}
          /\ UNCHANGED <<path, mishaps, restarts>>
          /\ editor' = [editor EXCEPT ![e] = [AtRest EXCEPT !.stage = "remove", !.on = d]]
      BY <1>5 DEF Deactivate, Commit
    <2>2. /\ editor'[e] = [AtRest EXCEPT !.stage = "remove", !.on = d]
          /\ editor' = [editor EXCEPT ![e] = editor'[e]]
      BY <2>1, <1>1
    <2>3. /\ editor'[e] \in EditorRec /\ editor'[e].stage = "remove" /\ editor'[e].todo = {}
          /\ editor'[e].on = d
      BY <2>2, AtRestRec DEF EditorRec, LiveStage
    <2>4. Working(e)' = {d}
      BY <2>3 DEF Working
    <2>5. /\ gear' \in [Gear -> GearRow] /\ gear'[d].active = FALSE
          /\ \A c \in Gear \ {d} : gear'[c] = gear[c]
      <3>1. gear[d] \in LiveRow
        BY <2>1, <1>1 DEF GearRow, Gone
      <3>2. [gear[d] EXCEPT !.active = FALSE] \in LiveRow /\ [gear[d] EXCEPT !.active = FALSE].active = FALSE
        BY <3>1 DEF LiveRow
      <3> QED  BY <2>1, <3>2, <1>1 DEF GearRow
    <2>0. {d} \in SUBSET Gear
      OBVIOUS
    <2>6. \A c \in {d} \ astray' : Knows(e, c)'
      <3> SUFFICES ASSUME d \notin astray'  PROVE Knows(e, d)'
        OBVIOUS
      <3>1. ~HasLiveView(d, gear'[d])
        BY <2>5 DEF HasLiveView
      <3>2. e # Resync
        BY <2>1, LiveViewAssumption
      <3> QED  BY <2>3, <3>1, <3>2 DEF Knows
    <2>7. /\ astray' \subseteq Gear /\ {d} \cap Others(e) \subseteq astray'
          /\ astray \ {d} \subseteq astray'
      BY <2>1, <1>1, <1>2
    <2> QED  BY <2>0, <2>1, <2>2, <2>3, <2>4, <2>5, <2>6, <2>7, CommitStep
  <1> QED  BY <1>3, <1>4, <1>5
-----------------------------------------------------------------------------
\* What moving on to another stage changes of a worker.
LEMMA StageOnly ==
    ASSUME LiveInv, NEW e \in Workers, NEW stage \in LiveStage,
           editor' = [editor EXCEPT ![e].stage = stage]
    PROVE  /\ editor' \in [Workers -> EditorRec] /\ editor' = [editor EXCEPT ![e] = editor'[e]]
           /\ editor'[e].stage = stage /\ editor'[e].on = editor[e].on
           /\ editor'[e].todo = editor[e].todo /\ editor'[e].row = editor[e].row
           /\ editor'[e].rows = editor[e].rows /\ editor'[e].source = editor[e].source
  <1>1. editor[e] \in EditorRec /\ editor \in [Workers -> EditorRec]
    BY WorkerFacts
  <1>2. editor'[e] = [editor[e] EXCEPT !.stage = stage]
    BY <1>1
  <1>3. editor'[e] \in EditorRec
    BY <1>1, <1>2 DEF EditorRec
  <1> QED  BY <1>1, <1>2, <1>3 DEF EditorRec

LEMMA SetPathStep ==
    ASSUME LiveInv, NEW e \in Workers, editor[e].stage \in {"add", "patch", "remove"}
    PROVE  \A source \in Source, stage \in {"next", "patch"} :
             /\ SetPath(e, stage, source)
             /\ IF stage = "patch" THEN editor[e].stage = "add" /\ path[editor[e].on] # NoPath
                                        /\ source = path[editor[e].on]
                ELSE editor[e].on \notin astray => source = Target(editor[e].on)
             => LiveInv'
  <1> SUFFICES ASSUME NEW source \in Source, NEW stage \in {"next", "patch"},
                      SetPath(e, stage, source),
                      IF stage = "patch"
                      THEN editor[e].stage = "add" /\ path[editor[e].on] # NoPath
                             /\ source = path[editor[e].on]
                      ELSE editor[e].on \notin astray => source = Target(editor[e].on)
               PROVE  LiveInv'
    OBVIOUS
  <1> DEFINE on == editor[e].on
  <1>1. /\ on \in Gear /\ path \in [Gear -> Source] /\ editor[e].todo \subseteq Gear
    BY WorkerFacts
  <1>2. /\ path' = [path EXCEPT ![on] = source]
        /\ editor' = [editor EXCEPT ![e].stage = stage]
        /\ UNCHANGED <<gear, edits, mishaps, restarts, astray>>
    BY DEF SetPath
  <1>3. /\ path'[on] = source /\ \A d \in Gear \ {on} : path'[d] = path[d]
        /\ path' \in [Gear -> Source]
    BY <1>1, <1>2
  <1>4. stage \in LiveStage
    BY DEF LiveStage
  <1>5. /\ editor' \in [Workers -> EditorRec] /\ editor' = [editor EXCEPT ![e] = editor'[e]]
        /\ editor'[e].stage = stage /\ editor'[e].on = on
        /\ editor'[e].todo = editor[e].todo /\ editor'[e].row = editor[e].row
        /\ editor'[e].rows = editor[e].rows /\ editor'[e].source = editor[e].source
    BY <1>2, <1>4, StageOnly
  <1>6. LiveTypes'
    BY <1>2, <1>3, <1>5 DEF LiveInv, LiveTypes
  <1>7. Working(e) = editor[e].todo \cup {on}
    BY DEF Working
  <1>8. Working(e)' = editor[e].todo \cup (IF stage = "patch" THEN {on} ELSE {})
    BY <1>5 DEF Working
  <1>9. ASSUME NEW d \in Working(e) \ astray'
        PROVE  IF d \in Working(e)' THEN Knows(e, d)' ELSE path'[d] = Target(d)
    <2>1. d \in Gear \ astray /\ Knows(e, d) /\ gear' = gear
      BY <1>1, <1>2, <1>7 DEF LiveInv, Owned
    <2>2. CASE d # on
      BY <2>1, <2>2, <1>3, <1>5, <1>7, <1>8 DEF Knows
    <2>3. CASE d = on /\ stage = "next"
      <3>1. path'[d] = Target(d)
        BY <2>1, <2>3, <1>3
      <3>2. HasLiveView(d, gear[d]) \/ path'[d] = NoPath
        BY <3>1 DEF Target
      <3>3. d \in editor[e].todo => (e = Resync => editor[e].rows[d] = gear[d])
        BY <2>1 DEF Knows
      <3> QED  BY <2>1, <2>3, <3>1, <3>2, <3>3, <1>5 DEF Knows
    <2>4. CASE d = on /\ stage = "patch"
      <3>1. path'[d] = path[d] /\ path[d] # NoPath
        BY <2>4, <1>3
      <3> QED  BY <2>1, <2>4, <3>1, <1>5, <1>8 DEF Knows
    <2> QED  BY <2>2, <2>3, <2>4
  <1>10. stage # "start"
    OBVIOUS
  <1> HIDE DEF on
  <1> QED  BY <1>2, <1>3, <1>5, <1>6, <1>7, <1>8, <1>9, <1>10, WorkStep DEF on

LEMMA PathSteps ==
    ASSUME LiveInv, NEW e \in Workers
    PROVE  (AddPath(e) \/ PatchPath(e) \/ RemovePath(e)) => LiveInv'
  <1> DEFINE on == editor[e].on
  <1>1. /\ on \in Gear /\ path[on] \in Source /\ editor[e].source \in Source /\ NoPath \in Source
    BY WorkerFacts DEF NoPath, Source
  <1>2. editor[e].stage \in {"add", "patch", "remove"} /\ on \notin astray => Knows(e, on)
    BY <1>1 DEF LiveInv, Owned, Working
  <1>3. editor[e].stage \in {"add", "patch"} /\ on \notin astray => editor[e].source = Target(on)
    BY <1>2 DEF Knows, Target
  <1>4. ASSUME AddPath(e)  PROVE LiveInv'
    <2>1. editor[e].stage = "add"
      BY <1>4 DEF AddPath
    <2>2. CASE path[on] = NoPath
      BY <1>1, <1>3, <1>4, <2>1, <2>2, SetPathStep DEF AddPath
    <2>3. CASE path[on] # NoPath
      BY <1>1, <1>4, <2>1, <2>3, SetPathStep DEF AddPath
    <2> QED  BY <2>2, <2>3
  <1>5. ASSUME PatchPath(e)  PROVE LiveInv'
    <2> DEFINE source == IF path[on] = NoPath THEN NoPath ELSE editor[e].source
    <2>1. editor[e].stage = "patch" /\ SetPath(e, "next", source) /\ source \in Source
      BY <1>1, <1>5 DEF PatchPath
    <2>2. on \notin astray => path[on] # NoPath
      BY <2>1, <1>2 DEF Knows
    <2>3. on \notin astray => source = Target(on)
      BY <2>1, <2>2, <1>3
    <2> HIDE DEF source
    <2> QED  BY <2>1, <2>3, SetPathStep
  <1>6. ASSUME RemovePath(e)  PROVE LiveInv'
    <2>1. editor[e].stage = "remove" /\ SetPath(e, "next", NoPath)
      BY <1>6 DEF RemovePath
    <2>2. on \notin astray => NoPath = Target(on)
      BY <2>1, <1>2 DEF Knows, Target
    <2> QED  BY <2>1, <2>2, <1>1, SetPathStep
  <1> QED  BY <1>4, <1>5, <1>6

LEMMA ReadingSteps ==
    ASSUME LiveInv, NEW e \in Workers
    PROVE  /\ ReadLogin(e) => LiveInv'
           /\ Finish(e) => LiveInv'
           /\ CallFails(e) => LiveInv'
           /\ EditorDies(e) => LiveInv'
           /\ \A d \in Gear : Refresh(e, d) => LiveInv'
  <1>1. /\ editor[e] \in EditorRec /\ editor \in [Workers -> EditorRec]
        /\ gear \in [Gear -> GearRow] /\ astray \subseteq Gear /\ Working(e) \subseteq Gear
        /\ editor[e].todo \subseteq Gear /\ editor[e].on \in Gear /\ editor[e].row \in GearRow
        /\ editor[e].rows \in [Gear -> GearRow]
    BY WorkerFacts
  <1>2. ASSUME editor' = [editor EXCEPT ![e] = AtRest], LiveTypes', UNCHANGED <<gear, path>>,
               Working(e) \subseteq astray', astray \subseteq astray'
        PROVE  LiveInv'
    <2>1. editor'[e] = AtRest /\ editor' = [editor EXCEPT ![e] = editor'[e]]
      BY <1>1, <1>2
    <2>2. Working(e)' = {} /\ editor'[e].stage # "start"
      BY <2>1, AtRestRec DEF Working
    <2> QED  BY <1>2, <2>1, <2>2, WorkStep
  <1>3. ASSUME ReadLogin(e)  PROVE LiveInv'
    <2>1. /\ editor[e].stage = "login"
          /\ editor' = [editor EXCEPT ![e].stage = "add",
                ![e].source = SourceOf(editor[e].row, gear[editor[e].on].login)]
          /\ UNCHANGED <<gear, path, edits, mishaps, restarts, astray>>
      BY <1>3 DEF ReadLogin
    <2>2. PICK source \in Source : source = SourceOf(editor[e].row, gear[editor[e].on].login)
      <3>1. gear[editor[e].on].login \in BOOLEAN
        <4>1. gear[editor[e].on] \in LiveRow \/ gear[editor[e].on] = Gone
          BY <1>1 DEF GearRow
        <4>2. Gone.login \in BOOLEAN /\ \A r \in LiveRow : r.login \in BOOLEAN
          BY DEF LiveRow, Gone
        <4> QED  BY <4>1, <4>2
      <3> QED  BY <3>1, <1>1, SourceIs
    <2>3. /\ editor'[e] = [editor[e] EXCEPT !.stage = "add", !.source = source]
          /\ editor' = [editor EXCEPT ![e] = editor'[e]]
      BY <2>1, <2>2, <1>1
    <2>4. /\ editor'[e] \in EditorRec /\ editor'[e].stage = "add" /\ editor'[e].source = source
          /\ editor'[e].on = editor[e].on /\ editor'[e].todo = editor[e].todo
          /\ editor'[e].rows = editor[e].rows
      BY <2>3, <2>2, <1>1 DEF EditorRec, LiveStage
    <2>5. LiveTypes'
      BY <2>1, <2>3, <2>4, <1>1 DEF LiveInv, LiveTypes
    <2>6. Working(e)' = Working(e)
      BY <2>1, <2>4 DEF Working
    <2>7. ASSUME NEW d \in Working(e) \ astray'  PROVE Knows(e, d)'
      <3>1. Knows(e, d)
        BY <2>1, <1>1 DEF LiveInv, Owned
      <3>2. editor[e].on = d => source = SourceOf(gear[d], gear[d].login) /\ HasLiveView(d, gear[d])
        BY <3>1, <2>1, <2>2 DEF Knows
      <3> QED  BY <3>1, <3>2, <2>1, <2>4 DEF Knows
    <2> QED  BY <2>1, <2>3, <2>4, <2>5, <2>6, <2>7, WorkStep
  <1>4. ASSUME Finish(e)  PROVE LiveInv'
    <2>1. LiveTypes'
      BY <1>4, <1>1, AtRestRec DEF Finish, LiveInv, LiveTypes
    <2>2. Working(e) = {}
      BY <1>4 DEF Finish, Working
    <2> QED  BY <1>2, <1>4, <2>1, <2>2 DEF Finish
  <1>5. ASSUME EditorDies(e)  PROVE LiveInv'
    <2>1. LiveTypes'
      BY <1>5, <1>1, AtRestRec, LiveViewAssumption DEF EditorDies, Mishap, LiveInv, LiveTypes
    <2> QED  BY <1>2, <1>5, <2>1 DEF EditorDies
  <1>6. ASSUME CallFails(e)  PROVE LiveInv'
    <2>1. /\ editor[e].stage \in {"add", "patch", "remove"}
          /\ astray' = astray \cup {editor[e].on}
          /\ editor' = [editor EXCEPT ![e].stage = "next"]
          /\ UNCHANGED <<gear, path, edits, restarts>> /\ Mishap
      BY <1>6 DEF CallFails
    <2>2. /\ editor' \in [Workers -> EditorRec] /\ editor' = [editor EXCEPT ![e] = editor'[e]]
          /\ editor'[e].stage = "next" /\ editor'[e].on = editor[e].on
          /\ editor'[e].todo = editor[e].todo /\ editor'[e].rows = editor[e].rows
      <3>1. "next" \in LiveStage
        BY DEF LiveStage
      <3> QED  BY <2>1, <3>1, StageOnly
    <2>3. LiveTypes'
      BY <2>1, <2>2, <1>1, LiveViewAssumption DEF Mishap, LiveInv, LiveTypes
    <2>4. /\ Working(e) = editor[e].todo \cup {editor[e].on}
          /\ Working(e)' = editor[e].todo
      BY <2>1, <2>2 DEF Working
    <2>5. ASSUME NEW d \in Working(e) \ astray'  PROVE d \in Working(e)' /\ Knows(e, d)'
      <3>1. Knows(e, d) /\ d # editor[e].on
        BY <2>1, <1>1, <2>5 DEF LiveInv, Owned
      <3> QED  BY <3>1, <2>1, <2>2, <2>4 DEF Knows
    <2> QED  BY <2>1, <2>2, <2>3, <2>4, <2>5, WorkStep
  <1>7. ASSUME NEW d \in Gear, Refresh(e, d)  PROVE LiveInv'
    <2>1. PICK row \in GearRow : row = IF e = Resync THEN editor[e].rows[d] ELSE gear[d]
      BY <1>1
    <2>2. PICK stage \in LiveStage : stage = IF HasLiveView(d, row) THEN "login" ELSE "next"
      BY DEF LiveStage
    <2>3. PICK todo \in SUBSET Gear : todo = editor[e].todo \ {d}
      BY <1>1
    <2>4. /\ editor[e].stage = "next" /\ d \in editor[e].todo
          /\ editor' = [editor EXCEPT ![e].todo = todo, ![e].on = d, ![e].row = row,
                                      ![e].stage = stage]
          /\ UNCHANGED <<gear, path, edits, mishaps, restarts, astray>>
      BY <1>7, <2>1, <2>2, <2>3, <1>1 DEF Refresh
    <2>5. /\ editor'[e] = [editor[e] EXCEPT !.todo = todo, !.on = d, !.row = row, !.stage = stage]
          /\ editor' = [editor EXCEPT ![e] = editor'[e]]
      BY <2>4, <1>1
    <2>6. /\ editor'[e] \in EditorRec /\ editor'[e].stage = stage /\ editor'[e].on = d
          /\ editor'[e].todo = todo /\ editor'[e].row = row
          /\ editor'[e].rows = editor[e].rows
      BY <2>1, <2>2, <2>3, <2>5, <1>1 DEF EditorRec
    <2>7. LiveTypes'
      BY <2>4, <2>5, <2>6, <1>1 DEF LiveInv, LiveTypes
    <2>8. Working(e) = editor[e].todo /\ Working(e)' = todo \cup (IF stage = "next" THEN {} ELSE {d})
      BY <2>2, <2>4, <2>6 DEF Working
    <2>9. stage # "start" /\ Working(e)' \subseteq Working(e)
      BY <2>2, <2>3, <2>4, <2>8
    <2>10. ASSUME NEW c \in Working(e) \ astray'
           PROVE  IF c \in Working(e)' THEN Knows(e, c)' ELSE path'[c] = Target(c)
      <3>1. Knows(e, c) /\ c \in Gear /\ c \in editor[e].todo
        BY <2>4, <2>8, <1>1 DEF LiveInv, Owned
      <3>2. CASE c # d
        BY <3>1, <3>2, <2>3, <2>4, <2>6, <2>8 DEF Knows
      <3>3. CASE c = d
        <4>1. row = gear[d]
          BY <3>1, <3>3, <2>1, <2>4 DEF Knows
        <4>2. CASE HasLiveView(d, row)
          <5>1. stage = "login" /\ d \in Working(e)'
            BY <4>2, <2>2, <2>8
          <5>2. editor'[e].row = gear'[d] /\ HasLiveView(d, gear'[d])
            BY <4>1, <4>2, <2>4, <2>6
          <5>3. d \notin editor'[e].todo
            BY <2>3, <2>6
          <5>4. Knows(e, d)'
            BY <5>1, <5>2, <5>3, <2>6 DEF Knows
          <5> QED  BY <3>3, <5>1, <5>4
        <4>3. CASE ~HasLiveView(d, row)
          <5>1. path'[d] = Target(d)
            BY <3>1, <3>3, <4>1, <4>3, <2>4 DEF Knows, Target
          <5> QED  BY <3>3, <4>3, <5>1, <2>2, <2>3, <2>8
        <4> QED  BY <4>2, <4>3
      <3> QED  BY <3>2, <3>3
    <2> QED  BY <2>4, <2>5, <2>6, <2>7, <2>9, <2>10, WorkStep
  <1> QED  BY <1>3, <1>4, <1>5, <1>6, <1>7

LEMMA BeginResyncStep == LiveInv /\ BeginResync => LiveInv'
  <1> SUFFICES ASSUME LiveInv, BeginResync  PROVE LiveInv'
    OBVIOUS
  <1> DEFINE e == Resync
             listed == {d \in Cameras : gear[d].exists /\ gear[d].active}
  <1>0. e \in Workers
    BY DEF Workers
  <1>1. /\ editor[e] \in EditorRec /\ editor \in [Workers -> EditorRec]
        /\ gear \in [Gear -> GearRow] /\ astray \subseteq Gear /\ editor[e].on \in Gear
    BY <1>0, WorkerFacts
  <1>2. PICK todo \in SUBSET Gear : todo = listed
    BY LiveViewAssumption
  <1>3. /\ editor[e].stage = "start"
        /\ editor' = [editor EXCEPT ![e].stage = "next", ![e].rows = gear, ![e].todo = todo]
        /\ UNCHANGED <<gear, path, edits, mishaps, restarts, astray>>
    BY <1>2 DEF BeginResync
  <1>4. /\ editor'[e] = [editor[e] EXCEPT !.stage = "next", !.rows = gear, !.todo = todo]
        /\ editor' = [editor EXCEPT ![e] = editor'[e]]
    BY <1>0, <1>1, <1>3
  <1>5. /\ editor'[e] \in EditorRec /\ editor'[e].stage = "next" /\ editor'[e].rows = gear
        /\ editor'[e].todo = todo
    BY <1>1, <1>2, <1>4 DEF EditorRec, LiveStage
  <1>6. LiveTypes'
    BY <1>1, <1>3, <1>4, <1>5 DEF LiveInv, LiveTypes
  <1>7. editor[e].todo = Gear
    BY <1>0, <1>3 DEF LiveInv, Started
  <1>8. Working(e) = Gear /\ Working(e)' = todo
    BY <1>1, <1>3, <1>5, <1>7 DEF Working
  <1>9. ASSUME NEW d \in Working(e) \ astray'
        PROVE  IF d \in Working(e)' THEN Knows(e, d)' ELSE path'[d] = Target(d)
    <2>1. Knows(e, d) /\ d \in Gear
      BY <1>0, <1>3, <1>8 DEF LiveInv, Owned
    <2>2. HasLiveView(d, gear[d]) \/ path[d] = NoPath
      BY <2>1, <1>7 DEF Knows
    <2>3. CASE d \in todo
      BY <2>2, <2>3, <1>3, <1>5, <1>8 DEF Knows
    <2>4. CASE d \notin todo
      <3>1. ~HasLiveView(d, gear[d])
        BY <2>1, <2>4, <1>2, RowFacts
      <3> QED  BY <2>2, <2>4, <3>1, <1>3, <1>8 DEF Target
    <2> QED  BY <2>3, <2>4
  <1> HIDE DEF e
  <1> QED  BY <1>0, <1>3, <1>4, <1>5, <1>6, <1>8, <1>9, WorkStep

LEMMA RestartStep == LiveInv /\ Restart => LiveInv'
  <1> SUFFICES ASSUME LiveInv, Restart  PROVE LiveInv'
    OBVIOUS
  <1>0. Resync \in Workers /\ Resync \notin Editors
    BY LiveViewAssumption DEF Workers
  <1>1. /\ editor \in [Workers -> EditorRec] /\ gear \in [Gear -> GearRow]
        /\ \A e \in Workers : Working(e) \subseteq Gear
    BY <1>0, WorkerFacts
  <1>2. /\ restarts < MaxRestarts /\ restarts' = restarts + 1
        /\ path' = [d \in Gear |-> NoPath]
        /\ editor' = [editor EXCEPT ![Resync] = [AtRest EXCEPT !.stage = "start", !.todo = Gear]]
        /\ astray' = UNION {Working(e) : e \in Editors}
        /\ UNCHANGED <<gear, edits, mishaps>>
    BY DEF Restart
  <1>3. /\ editor'[Resync] = [AtRest EXCEPT !.stage = "start", !.todo = Gear]
        /\ \A e \in Editors : editor'[e] = editor[e]
    BY <1>0, <1>1, <1>2 DEF Workers
  <1>4. /\ editor'[Resync] \in EditorRec /\ editor'[Resync].stage = "start"
        /\ editor'[Resync].todo = Gear
    BY <1>3, AtRestRec DEF EditorRec, LiveStage
  <1>5. Working(Resync)' = Gear
    <2>1. editor'[Resync].on \in Gear
      BY <1>4 DEF EditorRec
    <2> QED  BY <2>1, <1>4 DEF Working
  <1>6. \A e \in Editors : Working(e)' = Working(e) /\ Working(e) \subseteq astray'
    BY <1>2, <1>3 DEF Working
  <1>7. LiveTypes'
    <2>1. editor' \in [Workers -> EditorRec]
      BY <1>1, <1>2, <1>3, <1>4
    <2>2. path' \in [Gear -> Source]
      BY <1>2 DEF NoPath, Source
    <2>3. restarts' \in 0 .. MaxRestarts
      BY <1>2, LiveViewAssumption DEF LiveInv, LiveTypes
    <2>4. astray' \subseteq Gear
      BY <1>1, <1>2 DEF Workers
    <2> QED  BY <2>1, <2>2, <2>3, <2>4, <1>2 DEF LiveInv, LiveTypes
  <1>8. Started'
    BY <1>3, <1>4 DEF LiveInv, Started, Workers
  <1>9. Owned'
    <2> SUFFICES ASSUME NEW d \in Gear \ astray', NEW e \in Workers, d \in Working(e)'
                 PROVE  (Alone(e, d) /\ Knows(e, d))'
      BY DEF Owned
    <2>1. e = Resync
      BY <1>6 DEF Workers
    <2>2. Alone(e, d)'
      BY <2>1, <1>6 DEF Alone, Workers
    <2>3. path'[d] = NoPath
      BY <1>2
    <2>4. Knows(e, d)'
      BY <2>1, <2>3, <1>4 DEF Knows
    <2> QED  BY <2>2, <2>4
  <1>10. Settled'
    BY <1>0, <1>5 DEF Settled
  <1> QED  BY <1>7, <1>8, <1>9, <1>10 DEF LiveInv

LEMMA LiveStep == LiveInv /\ [LiveNext]_liveVars => LiveInv'
  <1> SUFFICES ASSUME LiveInv, [LiveNext]_liveVars  PROVE LiveInv'
    OBVIOUS
  <1>1. CASE UNCHANGED liveVars
    <2>1. \A e \in Workers : Working(e)' = Working(e)
      BY <1>1 DEF liveVars, Working
    <2>2. Owned'
      BY <1>1, <2>1 DEF liveVars, LiveInv, Owned, Alone, Knows
    <2>3. LiveTypes' /\ Started'
      BY <1>1 DEF liveVars, LiveInv, LiveTypes, Started
    <2>4. Settled'
      BY <1>1, <2>1 DEF liveVars, LiveInv, Settled, Target
    <2> QED  BY <2>2, <2>3, <2>4 DEF LiveInv
  <1>2. CASE LiveNext
    <2>1. ASSUME NEW e \in Workers,
                 \/ Finish(e) \/ ReadLogin(e) \/ AddPath(e) \/ PatchPath(e) \/ RemovePath(e)
                 \/ CallFails(e) \/ EditorDies(e)
                 \/ \E d \in Gear : Refresh(e, d) \/ Deactivate(e, d)
                 \/ \E row \in LiveRow :
                      \/ \E d \in Gear : Update(e, d, row)
                      \/ \E ds \in SUBSET Gear : row.active /\ Create(e, ds, row)
          PROVE  LiveInv'
      BY <2>1, PathSteps, ReadingSteps, RequestSteps
    <2> QED  BY <1>2, <2>1, BeginResyncStep, RestartStep DEF LiveNext, Workers
  <1> QED  BY <1>1, <1>2

\* The devices, the relay paths and the handlers stay well formed.
THEOREM LiveViewTypes == LiveSpec => []LiveTypeOK
  <1>1. LiveInv => LiveTypeOK
    <2> SUFFICES ASSUME LiveInv  PROVE LiveTypeOK
      OBVIOUS
    <2>1. \A e \in Editors \cup {Resync} :
            /\ editor[e].stage \in LiveStage /\ editor[e].on \in Gear
            /\ editor[e].todo \subseteq Gear /\ editor[e].row \in LiveRow \cup {Gone}
            /\ editor[e].rows \in [Gear -> LiveRow \cup {Gone}]
            /\ editor[e].source \in Source
      BY WorkerFacts DEF Workers, GearRow
    <2> QED  BY <2>1 DEF LiveTypeOK, LiveInv, LiveTypes, GearRow
  <1> QED  BY <1>1, LiveInitInv, LiveStep, PTL DEF LiveSpec

\* Once nobody works on a device the media server relays what the database says,
\* unless a call failed, a handler died, requests overlapped, or PUT switched the
\* view off (_sync_live_view and sync_live_view_paths.py).
THEOREM PathsFollow == LiveSpec => []PathsFollowDevices
  <1>1. LiveInv => PathsFollowDevices
    BY DEF LiveInv, Settled, PathsFollowDevices, Target, Workers
  <1> QED  BY <1>1, LiveInitInv, LiveStep, PTL DEF LiveSpec

-----------------------------------------------------------------------------
(***************************************************************************)
(* Flapping and disk sweeps, for any number of sweeps that overlap and any *)
(* cooldowns. A sweep that is about to add an alert is further from its    *)
(* own alerts than the cooldown (AboutToAdd), so that alerts of one sweep  *)
(* are spaced; alerts of one kind within a cooldown are then of different  *)
(* sweeps, and not more than there are.                                    *)
(***************************************************************************)

AlertRec == [kind : AlertKind, created : 0 .. FlapTicks, by : FlapSweeps]

PassRec == [stage : {"idle", "flap found", "disk found"} \cup AlertKind,
            at : 0 .. FlapTicks, created : 0 .. FlapTicks, add : BOOLEAN]

FlapTypes ==
    /\ flapNow \in 0 .. FlapTicks /\ downAt \subseteq 0 .. FlapTicks
    /\ diskAt \subseteq (0 .. FlapTicks) \X DiskLevels
    /\ raised \subseteq AlertRec
    /\ pass \in [FlapSweeps -> PassRec]

Found == {"flap found", "disk found"}

KindOf(s) == IF pass[s].stage = "flap found" THEN "FLAPPING" ELSE "DISK_FORECAST"

\* A sweep reads the time before it looks, and what it is about to add is not
\* too close to anything that it has added itself.
AboutToAdd(s) ==
    /\ pass[s].at <= flapNow
    /\ pass[s].created # 0 => pass[s].at <= pass[s].created
    /\ pass[s].stage \in Found => pass[s].at <= pass[s].created /\ pass[s].created <= flapNow
    /\ (pass[s].stage \in Found /\ pass[s].add) =>
         \A a \in raised : (a.by = s /\ a.kind = KindOf(s)) =>
             a.created + Cooldown[a.kind] < pass[s].created

\* Alerts of one kind by one sweep are further apart than the cooldown.
Spaced ==
    \A a, b \in raised : (a.by = b.by /\ a.kind = b.kind /\ a # b) =>
        \/ a.created + Cooldown[a.kind] < b.created
        \/ b.created + Cooldown[a.kind] < a.created

FlapInv == FlapTypes /\ Spaced /\ \A s \in FlapSweeps : AboutToAdd(s)

-----------------------------------------------------------------------------
LEMMA FlapInitInv == FlapInit => FlapInv
  <1> SUFFICES ASSUME FlapInit PROVE FlapInv
    OBVIOUS
  <1>1. NoPass \in PassRec
    BY FlappingAssumption DEF NoPass, PassRec
  <1>2. FlapTypes
    BY <1>1, FlappingAssumption DEF FlapInit, FlapTypes
  <1>3. Spaced
    BY DEF FlapInit, Spaced
  <1>4. \A s \in FlapSweeps : AboutToAdd(s)
    <2>1. \A s \in FlapSweeps : pass[s] = NoPass
      BY DEF FlapInit
    <2>2. /\ NoPass.stage \notin Found /\ NoPass.at = 0 /\ NoPass.created = 0
      BY DEF NoPass, Found
    <2>3. flapNow = 0
      BY DEF FlapInit
    <2> QED  BY <2>1, <2>2, <2>3 DEF AboutToAdd
  <1> QED  BY <1>2, <1>3, <1>4 DEF FlapInv

LEMMA TimeIsNat ==
    /\ FlapTicks \in Nat
    /\ \A k \in AlertKind : Cooldown[k] \in Nat /\ Cooldown[k] > 0
  BY FlappingAssumption

LEMMA PassFacts ==
    ASSUME FlapInv, NEW s \in FlapSweeps
    PROVE  /\ pass[s] \in PassRec /\ pass \in [FlapSweeps -> PassRec]
           /\ flapNow \in 0 .. FlapTicks /\ pass[s].at \in 0 .. FlapTicks
           /\ raised \subseteq AlertRec
           /\ pass[s].created \in 0 .. FlapTicks /\ 0 \in 0 .. FlapTicks
           /\ pass[s].at <= flapNow /\ AboutToAdd(s)
  <1>1. pass[s] \in PassRec /\ AboutToAdd(s)
    BY DEF FlapInv, FlapTypes
  <1>2. pass[s].at \in 0 .. FlapTicks /\ pass[s].created \in 0 .. FlapTicks
    BY <1>1 DEF PassRec
  <1>3. pass[s].at <= flapNow
    BY <1>1 DEF AboutToAdd
  <1> QED  BY <1>1, <1>2, <1>3, TimeIsNat DEF FlapInv, FlapTypes

\* A step of one sweep that adds no alert.
LEMMA PassStep ==
    ASSUME FlapInv, NEW s \in FlapSweeps, pass' = [pass EXCEPT ![s] = pass'[s]],
           pass'[s] \in PassRec, UNCHANGED <<flapNow, downAt, diskAt, raised>>,
           AboutToAdd(s)'
    PROVE  FlapInv'
  <1>1. FlapTypes'
    BY DEF FlapInv, FlapTypes
  <1>2. Spaced'
    BY DEF FlapInv, Spaced
  <1>3. ASSUME NEW q \in FlapSweeps  PROVE AboutToAdd(q)'
    <2>1. CASE q = s
      BY <2>1
    <2>2. CASE q # s
      <3>1. pass'[q] = pass[q]
        BY <2>2 DEF FlapInv, FlapTypes
      <3> QED  BY <3>1 DEF FlapInv, AboutToAdd, KindOf
    <2> QED  BY <2>1, <2>2
  <1> QED  BY <1>1, <1>2, <1>3 DEF FlapInv

LEMMA WorldSteps ==
    ASSUME FlapInv
    PROVE  /\ FlapTick => FlapInv'
           /\ GoDown => FlapInv'
           /\ \A pct \in DiskLevels : SampleDisk(pct) => FlapInv'
  <1>1. ASSUME flapNow' \in 0 .. FlapTicks, flapNow <= flapNow', UNCHANGED <<pass, raised>>,
               downAt' \subseteq 0 .. FlapTicks,
               diskAt' \subseteq (0 .. FlapTicks) \X DiskLevels
        PROVE  FlapInv'
    <2>1. FlapTypes' /\ Spaced'
      BY <1>1 DEF FlapInv, FlapTypes, Spaced
    <2>2. ASSUME NEW s \in FlapSweeps  PROVE AboutToAdd(s)'
      <3>1. /\ pass[s] \in PassRec /\ pass[s].at \in Nat /\ pass[s].created \in Nat
            /\ flapNow \in Nat /\ flapNow' \in Nat
        BY <1>1, TimeIsNat, PassFacts
      <3>2. AboutToAdd(s) /\ KindOf(s)' = KindOf(s) /\ pass' = pass /\ raised' = raised
        BY <1>1 DEF FlapInv, KindOf
      <3>3. pass[s].at <= flapNow' /\ (pass[s].created <= flapNow => pass[s].created <= flapNow')
        BY <3>1, <3>2, <1>1 DEF AboutToAdd
      <3> QED  BY <3>2, <3>3 DEF AboutToAdd
    <2> QED  BY <2>1, <2>2 DEF FlapInv
  <1>2. /\ flapNow \in 0 .. FlapTicks /\ downAt \subseteq 0 .. FlapTicks
        /\ diskAt \subseteq (0 .. FlapTicks) \X DiskLevels
    BY DEF FlapInv, FlapTypes
  <1>3. FlapTick => FlapInv'
    BY <1>1, <1>2, TimeIsNat DEF FlapTick
  <1>4. GoDown => FlapInv'
    BY <1>1, <1>2, TimeIsNat DEF GoDown
  <1>5. ASSUME NEW pct \in DiskLevels, SampleDisk(pct)  PROVE FlapInv'
    BY <1>1, <1>2, <1>5, TimeIsNat DEF SampleDisk
  <1> QED  BY <1>3, <1>4, <1>5

LEMMA SweepSteps ==
    ASSUME FlapInv, NEW s \in FlapSweeps
    PROVE  /\ BeginPass(s) => FlapInv'
           /\ LookForAlerts(s) => FlapInv'
           /\ DiePass(s) => FlapInv'
  <1>1. /\ pass[s] \in PassRec /\ pass \in [FlapSweeps -> PassRec]
        /\ flapNow \in 0 .. FlapTicks /\ pass[s].at \in 0 .. FlapTicks /\ raised \subseteq AlertRec
        /\ pass[s].created \in 0 .. FlapTicks /\ 0 \in 0 .. FlapTicks
        /\ pass[s].at <= flapNow
    BY PassFacts
  <1>2. /\ NoPass \in PassRec /\ NoPass.stage = "idle" /\ NoPass.created = 0 /\ NoPass.at = 0
        /\ NoPass.add = FALSE
    BY FlappingAssumption DEF NoPass, PassRec
  <1>3. ASSUME BeginPass(s)  PROVE FlapInv'
    <2>1. /\ pass'[s] = [NoPass EXCEPT !.stage = "FLAPPING", !.at = flapNow]
          /\ pass' = [pass EXCEPT ![s] = pass'[s]]
          /\ UNCHANGED <<flapNow, downAt, diskAt, raised>>
      BY <1>1, <1>3 DEF BeginPass
    <2>2. /\ pass'[s] \in PassRec /\ pass'[s].stage = "FLAPPING" /\ pass'[s].at = flapNow
          /\ pass'[s].created = 0
      BY <2>1, <1>1, <1>2 DEF PassRec, AlertKind
    <2>3. AboutToAdd(s)'
      BY <2>1, <2>2, <1>1 DEF AboutToAdd, Found
    <2> QED  BY <2>1, <2>2, <2>3, PassStep
  <1>4. ASSUME DiePass(s)  PROVE FlapInv'
    <2>1. /\ pass'[s] = NoPass /\ pass' = [pass EXCEPT ![s] = pass'[s]]
          /\ UNCHANGED <<flapNow, downAt, diskAt, raised>>
      BY <1>1, <1>4 DEF DiePass
    <2>2. AboutToAdd(s)'
      BY <2>1, <1>1, <1>2 DEF AboutToAdd, Found
    <2> QED  BY <2>1, <2>2, <1>2, PassStep
  <1>5. ASSUME LookForAlerts(s)  PROVE FlapInv'
    <2> DEFINE kind == pass[s].stage
               found == IF kind = "FLAPPING" THEN "flap found" ELSE "disk found"
    <2>0. kind \in AlertKind
      BY <1>5 DEF LookForAlerts
    <2>1. PICK add \in BOOLEAN : add = Wants(kind, pass[s].at)
      BY <2>0 DEF Wants, Flaps, FillsUp, Recent
    <2>2. /\ pass' = [pass EXCEPT ![s].stage = found, ![s].created = flapNow, ![s].add = add]
          /\ UNCHANGED <<flapNow, downAt, diskAt, raised>>
      BY <1>5, <2>1 DEF LookForAlerts
    <2>3. found \in Found
      BY DEF Found
    <2>4. /\ pass'[s] = [pass[s] EXCEPT !.stage = found, !.created = flapNow, !.add = add]
          /\ pass' = [pass EXCEPT ![s] = pass'[s]]
      BY <2>2, <1>1
    <2>5. (IF found = "flap found" THEN "FLAPPING" ELSE "DISK_FORECAST") = kind
      BY <2>0 DEF AlertKind
    <2> HIDE DEF found, kind
    <2>6. /\ pass'[s] \in PassRec /\ pass'[s].stage = found /\ pass'[s].created = flapNow
          /\ pass'[s].add = add /\ pass'[s].at = pass[s].at
      BY <2>3, <2>4, <1>1 DEF PassRec, Found
    <2>7. KindOf(s)' = kind
      BY <2>5, <2>6 DEF KindOf
    <2>8. ASSUME add, NEW a \in raised, a.kind = kind
          PROVE  a.created + Cooldown[a.kind] < flapNow
      <3>1. ~(a.created + Cooldown[kind] >= pass[s].at)
        BY <2>1, <2>8 DEF Wants, Recent
      <3>2. a.created \in Nat /\ Cooldown[kind] \in Nat
        BY <2>0, <1>1, TimeIsNat DEF AlertRec
      <3> QED  BY <3>1, <3>2, <2>8, <1>1
    <2>9. AboutToAdd(s)'
      BY <2>2, <2>6, <2>7, <2>8, <1>1 DEF AboutToAdd
    <2> QED  BY <2>2, <2>4, <2>6, <2>9, PassStep
  <1> QED  BY <1>3, <1>4, <1>5

LEMMA PassCommitStep ==
    ASSUME FlapInv, NEW s \in FlapSweeps, CommitPass(s)
    PROVE  FlapInv'
  <1> DEFINE alert == [kind |-> KindOf(s), created |-> pass[s].created, by |-> s]
  <1>1. /\ pass[s] \in PassRec /\ pass \in [FlapSweeps -> PassRec]
        /\ flapNow \in 0 .. FlapTicks /\ pass[s].at \in 0 .. FlapTicks /\ raised \subseteq AlertRec
        /\ pass[s].created \in 0 .. FlapTicks /\ 0 \in 0 .. FlapTicks
        /\ pass[s].at <= flapNow /\ AboutToAdd(s)
    BY PassFacts
  <1>2. /\ NoPass \in PassRec /\ NoPass.stage = "idle" /\ NoPass.created = 0 /\ NoPass.at = 0
        /\ NoPass.add = FALSE
    BY FlappingAssumption DEF NoPass, PassRec
  <1>3. /\ pass[s].stage \in Found
        /\ raised' = IF pass[s].add THEN raised \cup {alert} ELSE raised
        /\ UNCHANGED <<flapNow, downAt, diskAt>>
    BY DEF CommitPass, KindOf, Found
  <1>4. KindOf(s) \in AlertKind /\ alert \in AlertRec
    BY <1>1 DEF KindOf, AlertKind, AlertRec
  <1>5. /\ pass' = [pass EXCEPT ![s] = pass'[s]] /\ pass'[s] \in PassRec
        /\ pass'[s].at \in {0, pass[s].at} /\ pass'[s].created = 0 /\ pass'[s].stage \notin Found
    <2>1. CASE KindOf(s) = "FLAPPING"
      <3>1. pass' = [pass EXCEPT ![s] = [NoPass EXCEPT !.stage = "DISK_FORECAST", !.at = pass[s].at]]
        BY <2>1 DEF CommitPass, KindOf
      <3>2. pass'[s] = [NoPass EXCEPT !.stage = "DISK_FORECAST", !.at = pass[s].at]
        BY <3>1, <1>1
      <3> QED  BY <3>1, <3>2, <1>1, <1>2 DEF PassRec, AlertKind, Found
    <2>2. CASE KindOf(s) # "FLAPPING"
      <3>1. pass' = [pass EXCEPT ![s] = NoPass]
        BY <2>2 DEF CommitPass, KindOf
      <3> QED  BY <3>1, <1>1, <1>2 DEF Found
    <2> QED  BY <2>1, <2>2
  <1>6. FlapTypes'
    BY <1>1, <1>3, <1>4, <1>5 DEF FlapInv, FlapTypes
  <1>7. pass[s].add => \A a \in raised : (a.by = s /\ a.kind = KindOf(s)) =>
                          a.created + Cooldown[a.kind] < pass[s].created
    BY <1>1, <1>3 DEF AboutToAdd
  <1>8. Spaced'
    <2>1. alert.by = s /\ alert.kind = KindOf(s) /\ alert.created = pass[s].created
      OBVIOUS
    <2> HIDE DEF alert
    <2>2. Spaced
      BY DEF FlapInv
    <2> QED  BY <2>1, <2>2, <1>3, <1>7 DEF Spaced
  <1>9. ASSUME NEW q \in FlapSweeps  PROVE AboutToAdd(q)'
    <2>1. CASE q = s
      BY <2>1, <1>1, <1>3, <1>5 DEF AboutToAdd
    <2>2. CASE q # s
      <3>1. pass'[q] = pass[q] /\ AboutToAdd(q) /\ KindOf(q)' = KindOf(q)
        BY <2>2, <1>1, <1>5 DEF FlapInv, KindOf
      <3>2. \A a \in raised' : a.by = q => a \in raised
        BY <2>2, <1>3
      <3> QED  BY <3>1, <3>2, <1>3 DEF AboutToAdd
    <2> QED  BY <2>1, <2>2
  <1> QED  BY <1>6, <1>8, <1>9 DEF FlapInv

LEMMA FlapStep == FlapInv /\ [FlapNext]_flapVars => FlapInv'
  <1> SUFFICES ASSUME FlapInv, [FlapNext]_flapVars  PROVE FlapInv'
    OBVIOUS
  <1>1. CASE UNCHANGED flapVars
    BY <1>1 DEF flapVars, FlapInv, FlapTypes, Spaced, AboutToAdd, KindOf
  <1>2. CASE FlapNext
    BY <1>2, WorldSteps, SweepSteps, PassCommitStep DEF FlapNext
  <1> QED  BY <1>1, <1>2

\* Times, samples and alerts stay well formed.
THEOREM FlappingTypes == FlapSpec => []FlapTypeOK
  <1>1. FlapInv => FlapTypeOK
    <2> SUFFICES ASSUME FlapInv  PROVE FlapTypeOK
      OBVIOUS
    <2>1. \A s \in FlapSweeps : pass[s].at <= pass[s].created \/ pass[s].created = 0
      BY DEF FlapInv, AboutToAdd
    <2>2. \A a \in raised : a.kind \in AlertKind /\ a.created \in 0 .. FlapTicks
      BY DEF FlapInv, FlapTypes, AlertRec
    <2> QED  BY <2>1, <2>2 DEF FlapInv, FlapTypes, FlapTypeOK
  <1> QED  BY <1>1, FlapInitInv, FlapStep, PTL DEF FlapSpec

\* A device gets no more alerts of a kind within a cooldown than there are sweeps:
\* each of them must be another sweep's (check_flapping_and_disk_forecast).
THEOREM SpacedAlerts == FlapSpec => []AlertsAreSpaced
  <1>1. FlapInv => AlertsAreSpaced
    <2> SUFFICES ASSUME FlapInv, NEW kind \in AlertKind, NEW t \in 0 .. FlapTicks
                 PROVE  Cardinality({a \in raised : /\ a.kind = kind /\ t <= a.created
                                                    /\ a.created < t + Cooldown[kind]})
                          <= Cardinality(FlapSweeps)
      BY DEF AlertsAreSpaced
    <2> DEFINE A == {a \in raised : /\ a.kind = kind /\ t <= a.created
                                    /\ a.created < t + Cooldown[kind]}
               f == [a \in A |-> a.by]
    <2>1. \A a \in A : a \in raised /\ a \in AlertRec /\ a.by \in FlapSweeps /\ a.created \in Nat
      BY TimeIsNat DEF FlapInv, FlapTypes, AlertRec
    <2>2. Cooldown[kind] \in Nat /\ t \in Nat
      BY TimeIsNat
    <2>3. ASSUME NEW a \in A, NEW b \in A, a.by = b.by  PROVE a = b
      <3>1. \/ a = b \/ a.created + Cooldown[kind] < b.created
            \/ b.created + Cooldown[kind] < a.created
        BY <2>1, <2>3 DEF FlapInv, Spaced
      <3> QED  BY <3>1, <2>1, <2>2, <2>3
    <2>4. f \in Injection(A, FlapSweeps)
      <3>1. f \in [A -> FlapSweeps] /\ \A a, b \in A : f[a] = f[b] => a = b
        <4> HIDE DEF A
        <4> QED  BY <2>1, <2>3
      <3> HIDE DEF A, f
      <3> QED  BY <3>1 DEF Injection, IsInjective
    <2>5. IsFiniteSet(FlapSweeps)
      BY FlappingAssumption
    <2> HIDE DEF A, f
    <2>6. Cardinality(A) <= Cardinality(FlapSweeps)
      BY <2>4, <2>5, FS_Injection
    <2> QED  BY <2>6 DEF A
  <1> QED  BY <1>1, FlapInitInv, FlapStep, PTL DEF FlapSpec

-----------------------------------------------------------------------------
(***************************************************************************)
(* Partitions, for any calendar and any number of months ahead.            *)
(***************************************************************************)

Months == Nat \X (1 .. 12)

LEMMA MonthsGoOn ==
    ASSUME NEW m \in Months
    PROVE  MonthAfter(m) \in Months
  BY DEF Months, MonthAfter

LEMMA PartStep == PartTypeOK /\ [PartNext]_partVars => PartTypeOK'
  <1> SUFFICES ASSUME PartTypeOK, [PartNext]_partVars  PROVE PartTypeOK'
    OBVIOUS
  <1>0. today \in Months /\ stray \cup nights \subseteq Months
    BY DEF PartTypeOK, Months
  <1>1. CASE NextMonth
    <2>1. today' \in Months
      BY <1>0, <1>1, MonthsGoOn DEF NextMonth
    <2> QED  BY <1>1, <2>1 DEF NextMonth, PartTypeOK, Months
  <1>2. CASE FileResult
    <2>1. stray' \subseteq stray \cup {today} /\ UNCHANGED <<today, partitions, nights>>
      BY <1>2 DEF FileResult
    <2> QED  BY <1>0, <2>1 DEF PartTypeOK, Months
  <1>3. CASE EnsurePartitions
    <2>1. /\ partitions' \subseteq partitions \cup Wanted
          /\ nights' = nights \cup {today} /\ UNCHANGED <<today, stray>>
      BY <1>3 DEF EnsurePartitions
    <2>2. \A p \in Wanted : p = MonthBounds(p[1])
      BY DEF Wanted, MonthBounds
    <2> QED  BY <1>0, <2>1, <2>2 DEF PartTypeOK, Months
  <1>4. CASE RetireRows
    <2>1. stray' \subseteq stray /\ UNCHANGED <<today, partitions, nights>>
      BY <1>4 DEF RetireRows
    <2> QED  BY <1>0, <2>1 DEF PartTypeOK, Months
  <1>5. CASE UNCHANGED partVars
    BY <1>5 DEF partVars, PartTypeOK
  <1> QED  BY <1>1, <1>2, <1>3, <1>4, <1>5 DEF PartNext

\* The bounds of the partitions are months, whatever the calendar brings.
THEOREM PartitionTypes == PartSpec => []PartTypeOK
  <1>1. PartInit => PartTypeOK
    BY PartitionsAssumption DEF PartInit, PartTypeOK
  <1> QED  BY <1>1, PartStep, PTL DEF PartSpec

-----------------------------------------------------------------------------
(***************************************************************************)
(* Uptime, for any lengths of the month and of the page's period. The      *)
(* report is a sum over the events of a device, which SumLemmas takes      *)
(* apart: a tick of time adds its length to the one event that is open, an *)
(* event that begins or ends adds nothing, and the sum keeps up with the   *)
(* ticks that the device was really down (CountedTicks). A figure is       *)
(* computed when its month is over, and no later step changes the events   *)
(* of a month that is over.                                                *)
(***************************************************************************)

StatusRow == [state : ShownState, from : Nat, to : Nat, suppressed : BOOLEAN]

Charging(e) == e.state = "DOWN" /\ ~e.suppressed

\* What an event adds to the downtime of a period, at the time now.
Charge(e, now, start, end) ==
    IF Charging(e) /\ e.from < end
    THEN LET from == Greatest(e.from, start)
             to   == Least(IF e.to = Open THEN now ELSE e.to, end)
         IN  IF to > from THEN to - from ELSE 0
    ELSE 0

Charges(h, now, start, end) == [i \in DOMAIN h |-> Charge(h[i], now, start, end)]

\* The downtime of a period, as a sum over all the events of the device.
TotalCharge(h, now, start, end) == SumOf(Charges(h, now, start, end), DOMAIN h)

\* An event of the past or of now, which does not end before it begins.
InThePast(e, now) ==
    e.from <= now /\ (e.to = Open \/ (e.from <= e.to /\ e.to <= now))

\* The ticks of a period the device was really down.
Really(ticks, start, end) == {t \in ticks : start <= t /\ t < end}

UpTypes ==
    /\ UpTypeOK
    /\ report \in [left : SUBSET Recipients, month : Nat, figure : Nat]

\* The last event, and no other, is the one the device is in.
HistoryInOrder ==
    /\ \A i \in DOMAIN history : InThePast(history[i], upNow)
    /\ history = << >> => shown = "UNKNOWN"
    /\ history # << >> =>
          /\ history[Len(history)].state = shown
          /\ history[Len(history)].to = Open

CountedTicks(start, end) ==
    /\ TotalCharge(history, upNow, start, end) >= Cardinality(Really(outOfOrder, start, end))
    /\ NeverInterrupted =>
          TotalCharge(history, upNow, start, end) = Cardinality(Really(outOfOrder, start, end))

\* The month has ended, and the figure is its downtime.
TrueFigure(h, now, month, figure) ==
    /\ (month + 1) * Month <= now
    /\ figure = TotalCharge(h, now, month * Month, (month + 1) * Month)

\* What is reported, or will be, is of months that are over.
ReportsInOrder ==
    /\ \A m \in reportsDue : (m + 1) * Month <= upNow
    /\ report.left # {} => TrueFigure(history, upNow, report.month, report.figure)
    /\ \A r \in Recipients : \A f \in mailed[r] : TrueFigure(history, upNow, f[1], f[2])

UpInv ==
    /\ UpTypes
    /\ HistoryInOrder
    /\ \A t \in outOfOrder : t < upNow
    /\ \A start, end \in 0 .. upNow : start <= end => CountedTicks(start, end)
    /\ ReportsInOrder

-----------------------------------------------------------------------------
LEMMA ChargeTyped ==
    ASSUME NEW e \in StatusRow, NEW now \in Nat, NEW start \in Nat, NEW end \in Nat
    PROVE  Charge(e, now, start, end) \in Nat
  <1>1. e.from \in Nat /\ e.to \in Nat
    BY DEF StatusRow
  <1> QED  BY <1>1 DEF Charge, Greatest, Least

\* A period that has ended is charged the same a tick later.
LEMMA ChargeOfThePast ==
    ASSUME NEW e \in StatusRow, NEW now \in Nat, now < Open, InThePast(e, now),
           NEW start \in Nat, NEW end \in Nat, end <= now
    PROVE  Charge(e, now + 1, start, end) = Charge(e, now, start, end)
  <1>1. e.from \in Nat /\ e.to \in Nat
    BY DEF StatusRow
  <1> QED  BY <1>1 DEF Charge, Greatest, Least

\* A tick that passes is charged for an event that is open.
LEMMA ChargeOfTheTick ==
    ASSUME NEW e \in StatusRow, NEW now \in Nat, now < Open, InThePast(e, now),
           NEW start \in Nat, start <= now
    PROVE  Charge(e, now + 1, start, now + 1) =
              Charge(e, now, start, now) + (IF Charging(e) /\ e.to = Open THEN 1 ELSE 0)
  <1>1. e.from \in Nat /\ e.to \in Nat /\ e.from <= now
    BY DEF StatusRow, InThePast
  <1>2. CASE ~Charging(e)
    BY <1>2 DEF Charge
  <1>3. CASE Charging(e) /\ e.to = Open
    <2>1. Charge(e, now + 1, start, now + 1) = now + 1 - Greatest(e.from, start)
      BY <1>1, <1>3 DEF Charge, Greatest, Least
    <2>2. Charge(e, now, start, now) = now - Greatest(e.from, start)
      BY <1>1, <1>3 DEF Charge, Greatest, Least
    <2>3. Greatest(e.from, start) \in Nat
      BY <1>1 DEF Greatest
    <2> QED  BY <1>3, <2>1, <2>2, <2>3
  <1>4. CASE Charging(e) /\ e.to # Open
    <2>1. e.from <= e.to /\ e.to <= now
      BY <1>4 DEF InThePast
    <2>2. Charge(e, now + 1, start, now + 1) = Charge(e, now, start, now)
      BY <1>1, <1>4, <2>1 DEF Charge, Greatest, Least
    <2> QED  BY <1>1, <1>4, <2>2, ChargeTyped
  <1> QED  BY <1>2, <1>3, <1>4

\* An open event that is ended now is charged the same as before.
LEMMA ChargeWhenEnded ==
    ASSUME NEW e \in StatusRow, NEW now \in Nat, now < Open, e.to = Open,
           NEW f \in StatusRow, f.state = e.state, f.suppressed = e.suppressed,
           f.from = e.from, f.to = now,
           NEW start \in Nat, NEW end \in Nat
    PROVE  Charge(f, now, start, end) = Charge(e, now, start, end)
  <1>1. e.from \in Nat /\ e.to \in Nat /\ now # Open
    BY UptimeAssumption DEF StatusRow, Open
  <1> QED  BY <1>1 DEF Charge, Charging, Greatest, Least

\* An event that begins at the end of a period or later is not charged to it,
\* and nothing is to a period without a tick.
LEMMA NoCharge ==
    ASSUME NEW e \in StatusRow, NEW now \in Nat, NEW start \in Nat, NEW end \in Nat,
           end <= e.from \/ end <= start
    PROVE  Charge(e, now, start, end) = 0
  <1>1. e.from \in Nat /\ e.to \in Nat
    BY DEF StatusRow
  <1> QED  BY <1>1 DEF Charge, Greatest, Least

-----------------------------------------------------------------------------
LEMMA HistoryParts ==
    ASSUME NEW h \in Seq(StatusRow)
    PROVE  /\ IsFiniteSet(DOMAIN h) /\ DOMAIN h = 1 .. Len(h) /\ Len(h) \in Nat
           /\ \A i \in DOMAIN h : h[i] \in StatusRow
  <1>1. DOMAIN h = 1 .. Len(h) /\ Len(h) \in Nat
    OBVIOUS
  <1>2. IsFiniteSet(1 .. Len(h))
    BY <1>1, FS_Interval
  <1> QED  BY <1>1, <1>2

LEMMA ChargesTyped ==
    ASSUME NEW h \in Seq(StatusRow), NEW now \in Nat, NEW start \in Nat, NEW end \in Nat
    PROVE  Charges(h, now, start, end) \in [DOMAIN h -> Nat]
  BY HistoryParts, ChargeTyped DEF Charges

LEMMA ChargeTotalTyped ==
    ASSUME NEW h \in Seq(StatusRow), NEW now \in Nat, NEW start \in Nat, NEW end \in Nat
    PROVE  TotalCharge(h, now, start, end) \in Nat
  <1>1. Charges(h, now, start, end) \in [DOMAIN h -> Nat]
    BY ChargesTyped
  <1>2. IsFiniteSet(DOMAIN h) /\ DOMAIN h \in SUBSET DOMAIN h
    BY HistoryParts
  <1> QED  BY <1>1, <1>2, TotalTyped DEF TotalCharge

\* compute_device_uptime and the page of a device, as sums over all events.
LEMMA DowntimeIsTotal ==
    ASSUME history \in Seq(StatusRow), upNow \in Nat, NEW start \in Nat, NEW end \in Nat
    PROVE  Downtime(start, end) = TotalCharge(history, upNow, start, end)
  <1> DEFINE S == {i \in Charged : history[i].from < end}
             iter[s \in SUBSET S] ==
               IF s = {} THEN 0
               ELSE Overlap(history[CHOOSE x \in s : TRUE], start, end)
                      + iter[s \ {CHOOSE x \in s : TRUE}]
             D == DOMAIN history
  <1>1. Downtime(start, end) = iter[S]
    BY Zenon DEF Downtime, MapThenSumSet, MapThenFoldSet
  <1>2. PICK f \in [D -> Nat] : f = Charges(history, upNow, start, end)
    BY ChargesTyped
  <1>3. IsFiniteSet(D) /\ S \in SUBSET D
    BY HistoryParts DEF Charged, Downs
  <1>4. \A i \in S : Overlap(history[i], start, end) = f[i]
    BY <1>2, <1>3 DEF Charges, Charge, Charging, Overlap, EndOf, Charged, Downs
  <1>5. \A i \in D \ S : f[i] = 0
    BY <1>2 DEF Charges, Charge, Charging, Charged, Downs
  <1> HIDE DEF S, D
  <1>6. PICK I : Iterates(I, f, S)
    BY <1>3, FoldExists
  <1>7. \A s \in SUBSET S : s # {} => (CHOOSE x \in s : TRUE) \in S
    OBVIOUS
  <1>8. I = [s \in SUBSET S |-> IF s = {} THEN 0
                ELSE Overlap(history[CHOOSE x \in s : TRUE], start, end)
                       + I[s \ {CHOOSE x \in s : TRUE}]]
    BY <1>4, <1>6, <1>7 DEF Iterates
  <1>9. iter = [s \in SUBSET S |-> IF s = {} THEN 0
                   ELSE Overlap(history[CHOOSE x \in s : TRUE], start, end)
                          + iter[s \ {CHOOSE x \in s : TRUE}]]
    BY <1>8
  <1> HIDE DEF iter
  <1>10. Iterates(iter, f, S)
    BY <1>4, <1>7, <1>9 DEF Iterates
  <1>11. Adds(Sums(f, D), f, D)
    BY <1>3, SumsAdd
  <1>12. iter[S] = Sums(f, D)[D]
    <2>1. PICK G : G = Sums(f, D)
      OBVIOUS
    <2>2. Adds(G, f, D)
      BY <1>11, <2>1
    <2>3. iter[S] = G[D]
      BY ONLY <1>3, <1>5, <1>10, <2>2, FoldAdds
    <2> QED  BY <2>1, <2>3
  <1>13. Sums(f, D)[D] = SumOf(f, D)
    BY DEF Sums
  <1> QED  BY <1>1, <1>2, <1>12, <1>13 DEF TotalCharge, D

PageCharges ==
    [i \in DOMAIN history |->
        IF i \in Charged /\ history[i].from + PageSpan >= upNow
        THEN EndOf(history[i]) - history[i].from ELSE 0]

LEMMA PageIsTotal ==
    ASSUME history \in Seq(StatusRow), upNow \in Nat, PageCharges \in [DOMAIN history -> Nat]
    PROVE  PageDowntime = SumOf(PageCharges, DOMAIN history)
  <1> DEFINE S == {i \in Charged : history[i].from + PageSpan >= upNow}
             iter[s \in SUBSET S] ==
               IF s = {} THEN 0
               ELSE EndOf(history[CHOOSE x \in s : TRUE]) - history[CHOOSE x \in s : TRUE].from
                      + iter[s \ {CHOOSE x \in s : TRUE}]
             D == DOMAIN history
  <1>1. PageDowntime = iter[S]
    BY Zenon DEF PageDowntime, MapThenSumSet, MapThenFoldSet
  <1>2. PICK f \in [D -> Nat] : f = PageCharges
    OBVIOUS
  <1>3. IsFiniteSet(D) /\ S \in SUBSET D
    BY HistoryParts DEF Charged, Downs
  <1>4. \A i \in S : EndOf(history[i]) - history[i].from = f[i]
    BY <1>2, <1>3 DEF PageCharges
  <1>5. \A i \in D \ S : f[i] = 0
    BY <1>2 DEF PageCharges
  <1> HIDE DEF S, D
  <1>6. PICK I : Iterates(I, f, S)
    BY <1>3, FoldExists
  <1>7. \A s \in SUBSET S : s # {} => (CHOOSE x \in s : TRUE) \in S
    OBVIOUS
  <1>8. I = [s \in SUBSET S |-> IF s = {} THEN 0
                ELSE EndOf(history[CHOOSE x \in s : TRUE]) - history[CHOOSE x \in s : TRUE].from
                       + I[s \ {CHOOSE x \in s : TRUE}]]
    BY <1>4, <1>6, <1>7 DEF Iterates
  <1>9. iter = [s \in SUBSET S |-> IF s = {} THEN 0
                   ELSE EndOf(history[CHOOSE x \in s : TRUE]) - history[CHOOSE x \in s : TRUE].from
                          + iter[s \ {CHOOSE x \in s : TRUE}]]
    BY <1>8
  <1> HIDE DEF iter
  <1>10. Iterates(iter, f, S)
    BY <1>4, <1>7, <1>9 DEF Iterates
  <1>11. Adds(Sums(f, D), f, D)
    BY <1>3, SumsAdd
  <1>12. iter[S] = Sums(f, D)[D]
    <2>1. PICK G : G = Sums(f, D)
      OBVIOUS
    <2>2. Adds(G, f, D)
      BY <1>11, <2>1
    <2>3. iter[S] = G[D]
      BY ONLY <1>3, <1>5, <1>10, <2>2, FoldAdds
    <2> QED  BY <2>1, <2>3
  <1>13. Sums(f, D)[D] = SumOf(f, D)
    BY DEF Sums
  <1> QED  BY <1>1, <1>2, <1>12, <1>13 DEF D

-----------------------------------------------------------------------------
LEMMA UpParts ==
    ASSUME UpInv
    PROVE  /\ history \in Seq(StatusRow) /\ upNow \in Nat /\ upNow < Open
           /\ Len(history) \in Nat /\ DOMAIN history = 1 .. Len(history)
           /\ \A i \in DOMAIN history : history[i] \in StatusRow /\ InThePast(history[i], upNow)
           /\ Month \in Nat /\ Month > 0 /\ Open \in Nat /\ LastTick \in Nat
  <1>1. history \in Seq(StatusRow) /\ upNow \in 0 .. LastTick
    BY DEF UpInv, UpTypes, UpTypeOK, StatusRow
  <1>2. upNow \in Nat /\ upNow < Open /\ Open \in Nat /\ LastTick \in Nat
    BY <1>1, UptimeAssumption DEF Open
  <1>3. \A i \in DOMAIN history : InThePast(history[i], upNow)
    BY DEF UpInv, HistoryInOrder
  <1> QED  BY <1>1, <1>2, <1>3, HistoryParts, UptimeAssumption

\* The latest DOWN event of a device that is DOWN is its last event.
LEMMA LastDown ==
    ASSUME UpInv, shown = "DOWN"
    PROVE  /\ history # << >> /\ Len(history) \in Downs /\ Max(Downs) = Len(history)
           /\ history[Len(history)].state = "DOWN" /\ history[Len(history)].to = Open
  <1>1. history # << >>
    BY DEF UpInv, HistoryInOrder
  <1>2. history[Len(history)].state = "DOWN" /\ history[Len(history)].to = Open
    BY <1>1 DEF UpInv, HistoryInOrder
  <1>3. DOMAIN history = 1 .. Len(history) /\ Len(history) \in Nat /\ Len(history) # 0
    BY <1>1, UpParts
  <1>4. Len(history) \in Downs
    BY <1>2, <1>3 DEF Downs
  <1>5. \A i \in Downs : i \in Nat /\ Len(history) >= i
    BY <1>3 DEF Downs
  <1>6. Max(Downs) \in Downs /\ \A i \in Downs : Max(Downs) >= i
    BY <1>4, <1>5 DEF Max
  <1>7. Max(Downs) = Len(history)
    BY <1>3, <1>4, <1>5, <1>6
  <1> QED  BY <1>1, <1>2, <1>4, <1>7

\* What a transition writes: a new event, and the end of the last one at most.
LEMMA MoveWrites ==
    ASSUME UpInv, NEW next \in ShownState, NEW suppressed \in BOOLEAN, Move(next, suppressed)
    PROVE  /\ history' \in Seq(StatusRow) /\ Len(history') = Len(history) + 1
           /\ history'[Len(history) + 1] = [state |-> next, from |-> upNow, to |-> Open,
                                            suppressed |-> suppressed]
           /\ \A i \in DOMAIN history :
                 \/ history'[i] = history[i]
                 \/ /\ i = Len(history) /\ history[i].to = Open
                    /\ history'[i].state = history[i].state
                    /\ history'[i].from = history[i].from
                    /\ history'[i].suppressed = history[i].suppressed
                    /\ history'[i].to = upNow
  <1> DEFINE n == Len(history)
             row == [state |-> next, from |-> upNow, to |-> Open, suppressed |-> suppressed]
  <1>0. /\ history \in Seq(StatusRow) /\ upNow \in Nat /\ n \in Nat /\ DOMAIN history = 1 .. n
        /\ Open \in Nat
    BY UpParts
  <1>1. row \in StatusRow
    BY <1>0 DEF StatusRow
  <1>2. PICK h : h = Ended(next) /\ history' = Append(h, row)
    BY DEF Move
  <1>3. CASE h = history
    BY <1>0, <1>1, <1>2, <1>3
  <1>4. CASE h # history
    <2>1. shown = "DOWN" /\ h = [history EXCEPT ![Max(Downs)].to = upNow]
      BY <1>2, <1>4 DEF Ended
    <2>2. Max(Downs) = n /\ n \in DOMAIN history /\ history[n].to = Open
      BY <2>1, LastDown DEF Downs
    <2>3. PICK e \in StatusRow : e = [history[n] EXCEPT !.to = upNow]
      <3>1. PICK r \in StatusRow : r = history[n]
        BY <1>0, <2>2, HistoryParts
      <3>2. [r EXCEPT !.to = upNow] \in StatusRow
        BY <1>0 DEF StatusRow
      <3> QED  BY <3>1, <3>2
    <2>4. h = [history EXCEPT ![n] = e]
      BY <2>1, <2>2, <2>3
    <2>5. h \in Seq(StatusRow) /\ Len(h) = n /\ h[n] = e
      BY <1>0, <2>2, <2>4
    <2>6. \A i \in DOMAIN history : i # n => h[i] = history[i]
      BY <2>4
    <2>7. e.state = history[n].state /\ e.from = history[n].from /\ e.to = upNow
          /\ e.suppressed = history[n].suppressed
      BY <1>0, <2>2, <2>3 DEF StatusRow
    <2>8. history' \in Seq(StatusRow) /\ Len(history') = n + 1 /\ history'[n + 1] = row
      BY <1>0, <1>1, <1>2, <2>5
    <2>9. \A i \in DOMAIN history : history'[i] = h[i]
      BY <1>0, <1>1, <1>2, <2>5
    <2> QED  BY <2>2, <2>5, <2>6, <2>7, <2>8, <2>9
  <1> QED  BY <1>3, <1>4

\* A transition changes the downtime of no period that is over.
LEMMA MoveTotals ==
    ASSUME UpInv, NEW next \in ShownState, NEW suppressed \in BOOLEAN, Move(next, suppressed),
           NEW start \in Nat, NEW end \in Nat, end <= upNow
    PROVE  TotalCharge(history', upNow, start, end) = TotalCharge(history, upNow, start, end)
  <1>0. /\ history \in Seq(StatusRow) /\ upNow \in Nat /\ upNow < Open /\ Len(history) \in Nat
        /\ \A i \in DOMAIN history : history[i] \in StatusRow
        /\ DOMAIN history = 1 .. Len(history)
    BY UpParts
  <1>1. history' \in Seq(StatusRow) /\ Len(history') = Len(history) + 1
    BY MoveWrites
  <1>2. /\ DOMAIN history' = 1 .. (Len(history) + 1)
        /\ \A i \in DOMAIN history' : history'[i] \in StatusRow
    BY <1>1, HistoryParts
  <1>3. PICK f \in [DOMAIN history -> Nat] : f = Charges(history, upNow, start, end)
    BY <1>0, ChargesTyped
  <1>4. PICK g \in [DOMAIN history' -> Nat] : g = Charges(history', upNow, start, end)
    BY <1>0, <1>1, ChargesTyped
  <1>5. ASSUME NEW i \in DOMAIN history  PROVE f[i] = g[i]
    <2>1. i \in DOMAIN history' /\ history[i] \in StatusRow /\ history'[i] \in StatusRow
      BY <1>0, <1>2
    <2>2. Charge(history'[i], upNow, start, end) = Charge(history[i], upNow, start, end)
      <3>1. CASE history'[i] = history[i]
        BY <3>1
      <3>2. CASE history'[i] # history[i]
        <4>1. /\ history[i].to = Open /\ history'[i].state = history[i].state
              /\ history'[i].from = history[i].from /\ history'[i].to = upNow
              /\ history'[i].suppressed = history[i].suppressed
          BY <3>2, MoveWrites
        <4> QED  BY <1>0, <2>1, <4>1, ChargeWhenEnded
      <3> QED  BY <3>1, <3>2
    <2> QED  BY <1>3, <1>4, <2>1, <2>2 DEF Charges
  <1>6. ASSUME NEW i \in (DOMAIN history') \ (DOMAIN history)  PROVE g[i] = 0
    <2>1. i = Len(history) + 1
      BY <1>0, <1>2
    <2>2. history'[i].from = upNow /\ history'[i] \in StatusRow
      <3>1. history'[i] = [state |-> next, from |-> upNow, to |-> Open, suppressed |-> suppressed]
        BY <2>1, MoveWrites
      <3> QED  BY <1>2, <3>1
    <2>3. Charge(history'[i], upNow, start, end) = 0
      BY <1>0, <2>2, NoCharge
    <2> QED  BY <1>4, <2>3 DEF Charges
  <1>7. /\ IsFiniteSet(DOMAIN history) /\ IsFiniteSet(DOMAIN history')
        /\ DOMAIN history \in SUBSET (DOMAIN history) /\ DOMAIN history \subseteq DOMAIN history'
    BY <1>0, <1>1, <1>2, HistoryParts
  <1>8. SumOf(f, DOMAIN history) = SumOf(g, DOMAIN history')
    BY <1>5, <1>6, <1>7, TotalSame
  <1> QED  BY <1>3, <1>4, <1>8 DEF TotalCharge

\* Nor does the time that passes.
LEMMA TickTotals ==
    ASSUME UpInv, NEW start \in Nat, NEW end \in Nat, end <= upNow
    PROVE  TotalCharge(history, upNow + 1, start, end) = TotalCharge(history, upNow, start, end)
  <1>1. ASSUME NEW i \in DOMAIN history
        PROVE  Charge(history[i], upNow + 1, start, end) = Charge(history[i], upNow, start, end)
    BY UpParts, ChargeOfThePast
  <1>2. Charges(history, upNow + 1, start, end) = Charges(history, upNow, start, end)
    BY <1>1 DEF Charges
  <1> QED  BY <1>2 DEF TotalCharge

-----------------------------------------------------------------------------
LEMMA ReallyFinite ==
    ASSUME NEW ticks, ticks \subseteq 0 .. LastTick, NEW start, NEW end
    PROVE  IsFiniteSet(Really(ticks, start, end)) /\ Cardinality(Really(ticks, start, end)) \in Nat
  <1>1. IsFiniteSet(0 .. LastTick)
    BY UptimeAssumption, FS_Interval
  <1>2. Really(ticks, start, end) \subseteq 0 .. LastTick
    BY DEF Really
  <1> QED  BY <1>1, <1>2, FS_Subset, FS_CardinalityType

\* The tick that passes is counted on both sides, or on neither unless
\* maintenance has interrupted an outage.
LEMMA TickCountsOnce ==
    ASSUME UpInv, UpTick, NEW start \in Nat, start <= upNow, NEW end \in Nat, end = upNow + 1
    PROVE  CountedTicks(start, end)'
  <1> DEFINE now == upNow
             n == Len(history)
             D == DOMAIN history
             Down == shown = "DOWN" /\ ~history[n].suppressed
  <1>0. /\ history \in Seq(StatusRow) /\ now \in Nat /\ now < Open /\ n \in Nat /\ D = 1 .. n
        /\ \A i \in D : history[i] \in StatusRow /\ InThePast(history[i], now)
    BY UpParts
  <1>1. upNow' = end /\ history' = history
    BY DEF UpTick
  <1>2. outOfOrder' = IF Down THEN outOfOrder \cup {now} ELSE outOfOrder
    BY DEF UpTick, Last
  <1>3. PICK f \in [D -> Nat] : f = Charges(history, now, start, now)
    BY <1>0, ChargesTyped
  <1>4. PICK g \in [D -> Nat] : g = Charges(history, end, start, end)
    BY <1>0, <1>1, ChargesTyped
  <1>5. \A i \in D : g[i] = f[i] + (IF Charging(history[i]) /\ history[i].to = Open THEN 1 ELSE 0)
    BY <1>0, <1>3, <1>4, ChargeOfTheTick DEF Charges
  <1>6. IsFiniteSet(D) /\ D \in SUBSET D
    BY <1>0, HistoryParts
  <1>7. SumOf(f, D) \in Nat /\ SumOf(g, D) \in Nat
    BY <1>6, TotalTyped
  <1> DEFINE before == Really(outOfOrder, start, now)
             after == Really(outOfOrder', start, end)
  <1>8. outOfOrder \subseteq 0 .. LastTick /\ \A t \in outOfOrder : t \in Nat /\ t < now
    BY UptimeAssumption DEF UpInv, UpTypes, UpTypeOK
  <1>9. IsFiniteSet(before) /\ Cardinality(before) \in Nat /\ now \notin before
    <2>1. now \notin before
      <3>1. now \notin outOfOrder
        <4> SUFFICES ASSUME now \in outOfOrder  PROVE FALSE
          OBVIOUS
        <4>1. now < now
          BY <1>8
        <4> QED  BY <1>0, <4>1
      <3> QED  BY <3>1 DEF Really
    <2> QED  BY <1>8, <2>1, ReallyFinite
  <1>10. CountedTicks(start, now)
    <2>1. start \in 0 .. now /\ now \in 0 .. now
      BY <1>0
    <2> QED  BY <2>1 DEF UpInv
  <1>11. /\ SumOf(f, D) >= Cardinality(before)
         /\ NeverInterrupted => SumOf(f, D) = Cardinality(before)
    BY <1>3, <1>10 DEF CountedTicks, TotalCharge
  <1>12. SUFFICES /\ SumOf(g, D) >= Cardinality(after)
                  /\ NeverInterrupted => SumOf(g, D) = Cardinality(after)
    <2>1. NeverInterrupted' = NeverInterrupted
      BY <1>1 DEF NeverInterrupted, Downs
    <2>2. TotalCharge(history', upNow', start, end) = SumOf(g, D)
      BY <1>1, <1>4 DEF TotalCharge
    <2> QED  BY <2>1, <2>2 DEF CountedTicks
  <1>13. \A i \in D : history[i].state = "DOWN" <=> i \in Downs
    BY DEF Downs
  <1>14. /\ Down => after = before \cup {now}
         /\ ~Down => after = before
    <2> HIDE DEF Down
    <2>1. \A t \in outOfOrder : t < now /\ t < end
      BY <1>0, <1>8
    <2>2. now < end /\ start <= now
      BY <1>0
    <2>3. Really(outOfOrder, start, end) = before
      BY <2>1 DEF Really
    <2>4. Really(outOfOrder \cup {now}, start, end) = before \cup {now}
      BY <2>1, <2>2 DEF Really
    <2> QED  BY <1>2, <2>3, <2>4
  <1>15. Down => n \in D /\ Charging(history[n]) /\ history[n].to = Open
    BY LastDown DEF Charging, Downs
  <1>16. \A i \in D : i = n /\ Charging(history[i]) => Down
    <2> SUFFICES ASSUME n \in D, Charging(history[n])  PROVE Down
      OBVIOUS
    <2>1. history # << >>
      BY <1>0
    <2>2. history[n].state = shown
      BY <2>1 DEF UpInv, HistoryInOrder
    <2> QED  BY <2>2 DEF Charging
  <1>17. NeverInterrupted =>
            \A i \in D : Charging(history[i]) /\ history[i].to = Open => i = n
    BY <1>13 DEF NeverInterrupted, Charging
  <1> HIDE DEF Down, D, n, before, after, now
  <1>18. CASE Down
    <2>1. n \in D /\ Charging(history[n]) /\ history[n].to = Open
      BY <1>15, <1>18
    <2>2. PICK h \in [D -> Nat] : h = [f EXCEPT ![n] = f[n] + 1]
      <3>1. f[n] + 1 \in Nat
        BY <2>1
      <3> QED  BY <3>1
    <2>3. h[n] = f[n] + 1 /\ \A i \in D : i # n => h[i] = f[i]
      BY <2>1, <2>2
    <2>4. SumOf(h, D) = SumOf(f, D) + 1
      BY <1>6, <2>1, <2>3, TotalOneMore
    <2>5. \A i \in D : h[i] <= g[i]
      BY <1>5, <2>1, <2>3
    <2>6. SumOf(h, D) <= SumOf(g, D)
      BY <1>6, <2>5, TotalGrows
    <2>7. after = before \cup {now}
      BY <1>14, <1>18
    <2>8. Cardinality(after) = Cardinality(before) + 1
      BY <1>9, <2>7, FS_AddElement
    <2>9. NeverInterrupted => SumOf(g, D) = SumOf(h, D)
      <3> SUFFICES ASSUME NeverInterrupted  PROVE SumOf(g, D) = SumOf(h, D)
        OBVIOUS
      <3>1. \A i \in D : g[i] = h[i]
        BY <1>5, <1>17, <2>1, <2>3
      <3>2. g = h
        BY <3>1
      <3> QED  BY <3>2
    <2> QED  BY <1>7, <1>9, <1>11, <2>4, <2>6, <2>8, <2>9
  <1>19. CASE ~Down
    <2>1. \A i \in D : f[i] <= g[i]
      BY <1>5
    <2>2. SumOf(f, D) <= SumOf(g, D)
      BY <1>6, <2>1, TotalGrows
    <2>3. after = before
      BY <1>14, <1>19
    <2>4. NeverInterrupted => SumOf(g, D) = SumOf(f, D)
      <3> SUFFICES ASSUME NeverInterrupted  PROVE SumOf(g, D) = SumOf(f, D)
        OBVIOUS
      <3>1. \A i \in D : g[i] = f[i]
        BY <1>5, <1>16, <1>17, <1>19
      <3>2. g = f
        BY <3>1
      <3> QED  BY <3>2
    <2> QED  BY <1>7, <1>9, <1>11, <2>2, <2>3, <2>4
  <1> QED  BY <1>18, <1>19

LEMMA CountedStep ==
    ASSUME UpInv, [UpNext]_upVars, NEW start \in 0 .. upNow', NEW end \in 0 .. upNow',
           start <= end
    PROVE  CountedTicks(start, end)'
  <1>0. /\ upNow \in Nat /\ upNow < Open /\ history \in Seq(StatusRow) /\ Len(history) \in Nat
        /\ \A i \in DOMAIN history : history[i] \in StatusRow
        /\ outOfOrder \subseteq 0 .. LastTick /\ \A t \in outOfOrder : t \in Nat /\ t < upNow
    BY UpParts, UptimeAssumption DEF UpInv, UpTypes, UpTypeOK
  <1>1. CASE UpTick
    <2>1. upNow' = upNow + 1 /\ history' = history /\ start \in Nat /\ end \in Nat
      BY <1>0, <1>1 DEF UpTick
    <2>2. NeverInterrupted' = NeverInterrupted
      BY <2>1 DEF NeverInterrupted, Downs
    <2>3. CASE end <= upNow
      <3>1. CountedTicks(start, end)
        <4>1. start \in 0 .. upNow /\ end \in 0 .. upNow
          BY <1>0, <2>1, <2>3
        <4> QED  BY <4>1 DEF UpInv
      <3>2. Really(outOfOrder', start, end) = Really(outOfOrder, start, end)
        <4>1. outOfOrder' = outOfOrder \/ outOfOrder' = outOfOrder \cup {upNow}
          BY <1>1 DEF UpTick
        <4> QED  BY <1>0, <2>1, <2>3, <4>1 DEF Really
      <3>3. TotalCharge(history', upNow', start, end) = TotalCharge(history, upNow, start, end)
        BY <2>1, <2>3, TickTotals
      <3> QED  BY <2>2, <3>1, <3>2, <3>3 DEF CountedTicks
    <2>4. CASE end = upNow + 1 /\ start <= upNow
      BY <1>1, <2>1, <2>4, TickCountsOnce
    <2>5. CASE end = upNow + 1 /\ start = upNow + 1
      <3>0. upNow + 1 \in Nat
        BY <1>0
      <3>1. PICK f \in [DOMAIN history -> Nat] : f = Charges(history, upNow + 1, start, end)
        BY <1>0, <2>1, <3>0, ChargesTyped
      <3>2. \A i \in DOMAIN history : f[i] = 0
        BY <1>0, <2>1, <2>5, <3>0, <3>1, NoCharge DEF Charges
      <3>3. IsFiniteSet(DOMAIN history) /\ DOMAIN history \in SUBSET (DOMAIN history)
        BY <1>0, HistoryParts
      <3>4. SumOf(f, DOMAIN history) = 0
        BY <3>2, <3>3, TotalZero
      <3>5. TotalCharge(history', upNow', start, end) = 0
        BY <2>1, <3>1, <3>4 DEF TotalCharge
      <3>6. \A t \in outOfOrder' : t \in Nat
        BY <1>0, <1>1 DEF UpTick
      <3>7. Really(outOfOrder', start, end) = {}
        BY <2>1, <2>5, <3>6 DEF Really
      <3> QED  BY <3>5, <3>7, FS_EmptySet DEF CountedTicks
    <2> QED  BY <1>0, <2>1, <2>3, <2>4, <2>5
  <1>2. ASSUME NEW next \in ShownState, NEW s \in BOOLEAN, Move(next, s)
        PROVE  CountedTicks(start, end)'
    <2>1. upNow' = upNow /\ outOfOrder' = outOfOrder
      BY <1>2 DEF Move
    <2>2. CountedTicks(start, end) /\ start \in Nat /\ end \in Nat /\ end <= upNow
      BY <1>0, <2>1 DEF UpInv
    <2>3. TotalCharge(history', upNow', start, end) = TotalCharge(history, upNow, start, end)
      BY <1>2, <2>1, <2>2, MoveTotals
    <2>4. NeverInterrupted' => NeverInterrupted
      <3> SUFFICES ASSUME NeverInterrupted', NEW i \in Downs, history[i].to = Open,
                          i # Len(history)
                   PROVE  FALSE
        BY DEF NeverInterrupted
      <3>1. i \in DOMAIN history /\ history[i].state = "DOWN"
        BY DEF Downs
      <3>2. history'[i] = history[i]
        BY <1>2, <3>1, MoveWrites
      <3>3. Len(history') = Len(history) + 1 /\ history' \in Seq(StatusRow)
        BY <1>2, MoveWrites
      <3>4. i \in DOMAIN history' /\ i # Len(history')
        BY <1>0, <3>1, <3>3
      <3>5. i \in Downs'
        BY <3>1, <3>2, <3>4 DEF Downs
      <3> QED  BY <3>2, <3>4, <3>5 DEF NeverInterrupted
    <2> QED  BY <2>1, <2>2, <2>3, <2>4 DEF CountedTicks
  <1>3. CASE UNCHANGED <<upNow, history, outOfOrder>>
    BY <1>3 DEF UpInv, CountedTicks, NeverInterrupted, Downs
  <1> QED
    BY <1>1, <1>2, <1>3 DEF UpNext, upVars, LoseReport, BeginReport, MailReport

-----------------------------------------------------------------------------
\* At the first tick of a month, the month before has just ended.
LEMMA MonthEnds ==
    ASSUME NEW m \in Nat \ {0}, NEW now \in Nat, now > 0, now % m = 0
    PROVE  (now \div m) - 1 \in Nat /\ ((now \div m) - 1 + 1) * m = now
  <1>1. now \div m \in Nat
    OBVIOUS
  <1>2. now = m * (now \div m) + (now % m)
    OBVIOUS
  <1>3. PICK q \in Nat : q = now \div m
    BY <1>1
  <1>4. now = m * q
    BY <1>2, <1>3
  <1>5. q # 0
    BY <1>4
  <1>6. q - 1 \in Nat /\ q - 1 + 1 = q
    BY <1>5
  <1>7. q * m = now
    BY <1>4
  <1> QED  BY <1>3, <1>6, <1>7

LEMMA OrderStep ==
    UpInv /\ [UpNext]_upVars => HistoryInOrder' /\ \A t \in outOfOrder' : t < upNow'
  <1> SUFFICES ASSUME UpInv, [UpNext]_upVars
               PROVE  HistoryInOrder' /\ \A t \in outOfOrder' : t < upNow'
    OBVIOUS
  <1>0. /\ upNow \in Nat /\ upNow < Open /\ history \in Seq(StatusRow) /\ Len(history) \in Nat
        /\ DOMAIN history = 1 .. Len(history) /\ Open \in Nat
        /\ \A i \in DOMAIN history : history[i] \in StatusRow /\ InThePast(history[i], upNow)
        /\ \A t \in outOfOrder : t \in Nat /\ t < upNow
    BY UpParts, UptimeAssumption DEF UpInv, UpTypes, UpTypeOK
  <1>1. CASE UpTick
    <2>1. upNow' = upNow + 1 /\ history' = history /\ shown' = shown
      BY <1>1 DEF UpTick
    <2>2. ASSUME NEW i \in DOMAIN history  PROVE InThePast(history[i], upNow + 1)
      <3>1. history[i].from \in Nat /\ history[i].to \in Nat
        BY <1>0 DEF StatusRow
      <3>2. InThePast(history[i], upNow)
        BY <1>0
      <3> QED  BY <1>0, <3>1, <3>2 DEF InThePast
    <2>3. HistoryInOrder'
      BY <2>1, <2>2 DEF HistoryInOrder, UpInv
    <2>4. \A t \in outOfOrder : t < upNow + 1
      BY <1>0
    <2>5. upNow < upNow + 1
      BY <1>0
    <2>6. \A t \in outOfOrder' : t < upNow'
      BY <1>1, <2>1, <2>4, <2>5 DEF UpTick
    <2> QED  BY <2>3, <2>6
  <1>2. ASSUME NEW next \in ShownState, NEW s \in BOOLEAN, Move(next, s)
        PROVE  HistoryInOrder' /\ \A t \in outOfOrder' : t < upNow'
    <2> DEFINE n == Len(history)
    <2>1. upNow' = upNow /\ outOfOrder' = outOfOrder /\ shown' = next
      BY <1>2 DEF Move
    <2>2. /\ history' \in Seq(StatusRow) /\ Len(history') = n + 1
          /\ history'[n + 1] = [state |-> next, from |-> upNow, to |-> Open, suppressed |-> s]
      BY <1>2, MoveWrites
    <2>3. history'[n + 1].state = next /\ history'[n + 1].from = upNow /\ history'[n + 1].to = Open
      BY <2>2
    <2>4. InThePast(history'[n + 1], upNow)
      BY <1>0, <2>3 DEF InThePast
    <2>5. ASSUME NEW i \in DOMAIN history  PROVE InThePast(history'[i], upNow)
      <3>1. history[i].from \in Nat /\ InThePast(history[i], upNow)
        BY <1>0 DEF StatusRow
      <3>2. CASE history'[i] = history[i]
        BY <3>1, <3>2
      <3>3. CASE history'[i] # history[i]
        <4>1. history'[i].from = history[i].from /\ history'[i].to = upNow
          BY <1>2, <3>3, MoveWrites
        <4> QED  BY <1>0, <3>1, <4>1 DEF InThePast
      <3> QED  BY <3>2, <3>3
    <2>6. DOMAIN history' = 1 .. (n + 1)
      BY <2>2
    <2>7. \A i \in DOMAIN history' : InThePast(history'[i], upNow)
      BY <1>0, <2>4, <2>5, <2>6
    <2>8. history' # << >>
      BY <1>0, <2>2
    <2>9. HistoryInOrder'
      BY <2>1, <2>2, <2>3, <2>7, <2>8 DEF HistoryInOrder
    <2> QED  BY <1>0, <2>1, <2>9
  <1>3. CASE UNCHANGED <<upNow, shown, history, outOfOrder>>
    BY <1>3 DEF UpInv, HistoryInOrder
  <1> QED
    BY <1>1, <1>2, <1>3 DEF UpNext, upVars, LoseReport, BeginReport, MailReport

\* A figure that is true of a month stays true.
LEMMA FigureStays ==
    ASSUME UpInv, [UpNext]_upVars, NEW month \in Nat, NEW figure,
           TrueFigure(history, upNow, month, figure)
    PROVE  TrueFigure(history', upNow', month, figure)
  <1>0. upNow \in Nat /\ Month \in Nat
    BY UpParts
  <1>1. PICK start \in Nat, end \in Nat : start = month * Month /\ end = (month + 1) * Month
    BY <1>0
  <1>2. end <= upNow /\ figure = TotalCharge(history, upNow, start, end)
    BY <1>1 DEF TrueFigure
  <1>3. SUFFICES end <= upNow' /\ figure = TotalCharge(history', upNow', start, end)
    BY <1>1 DEF TrueFigure
  <1>4. CASE UpTick
    <2>1. upNow' = upNow + 1 /\ history' = history
      BY <1>4 DEF UpTick
    <2>2. end <= upNow'
      BY <1>0, <1>2, <2>1
    <2> QED  BY <1>2, <2>1, <2>2, TickTotals
  <1>5. ASSUME NEW next \in ShownState, NEW s \in BOOLEAN, Move(next, s)
        PROVE  end <= upNow' /\ figure = TotalCharge(history', upNow', start, end)
    BY <1>2, <1>5, MoveTotals DEF Move
  <1>6. CASE UNCHANGED <<upNow, history>>
    BY <1>2, <1>6
  <1> QED
    BY <1>4, <1>5, <1>6 DEF UpNext, upVars, LoseReport, BeginReport, MailReport

LEMMA MonthlyReportStep == UpInv /\ [UpNext]_upVars => ReportsInOrder'
  <1> SUFFICES ASSUME UpInv, [UpNext]_upVars PROVE ReportsInOrder'
    OBVIOUS
  <1>0. /\ upNow \in Nat /\ Month \in Nat \ {0} /\ reportsDue \subseteq Nat
        /\ report \in [left : SUBSET Recipients, month : Nat, figure : Nat]
        /\ mailed \in [Recipients -> SUBSET (Nat \X Nat)] /\ history \in Seq(StatusRow)
    BY UpParts, UptimeAssumption DEF UpInv, UpTypes, UpTypeOK
  <1> DEFINE True(month, figure) == TrueFigure(history, upNow, month, figure)
             TrueNext(month, figure) == TrueFigure(history', upNow', month, figure)
  <1>1. \A month \in Nat : \A figure : True(month, figure) => TrueNext(month, figure)
    BY FigureStays
  <1>2. \A r \in Recipients : \A f \in mailed[r] : f[1] \in Nat /\ True(f[1], f[2])
    BY <1>0 DEF UpInv, ReportsInOrder
  <1>3. report.left # {} => True(report.month, report.figure)
    BY DEF UpInv, ReportsInOrder
  <1>4. \A m \in reportsDue : (m + 1) * Month <= upNow
    BY DEF UpInv, ReportsInOrder
  <1>5. upNow' \in Nat /\ upNow <= upNow'
    <2>1. upNow' = upNow \/ upNow' = upNow + 1
      BY DEF UpNext, upVars, UpTick, LoseReport, BeginReport, MailReport, Move
    <2> QED  BY <1>0, <2>1
  <1> HIDE DEF True, TrueNext
  <1>6. \A m \in reportsDue : (m + 1) * Month <= upNow'
    <2> SUFFICES ASSUME NEW m \in reportsDue  PROVE (m + 1) * Month <= upNow'
      OBVIOUS
    <2>1. PICK end \in Nat : end = (m + 1) * Month
      BY <1>0
    <2> QED  BY <1>0, <1>4, <1>5, <2>1
  <1>7. \A r \in Recipients : \A f \in mailed[r] : TrueNext(f[1], f[2])
    BY <1>1, <1>2
  <1>8. report.left # {} => TrueNext(report.month, report.figure)
    BY <1>0, <1>1, <1>3
  <1>9. ASSUME NEW r \in Recipients, NEW d \in BOOLEAN, MailReport(r, d)
        PROVE  ReportsInOrder'
    <2>1. report.left # {} /\ report'.month = report.month /\ report'.figure = report.figure
      BY <1>0, <1>9 DEF MailReport
    <2>2. \A q \in Recipients : mailed'[q] \subseteq mailed[q] \cup {<<report.month, report.figure>>}
      BY <1>0, <1>9 DEF MailReport
    <2>3. \A q \in Recipients : \A f \in mailed'[q] : TrueNext(f[1], f[2])
      BY <1>7, <1>8, <2>1, <2>2
    <2>4. reportsDue' = reportsDue
      BY <1>9 DEF MailReport
    <2> QED  BY <1>6, <1>8, <2>1, <2>3, <2>4 DEF ReportsInOrder, TrueNext
  <1>10. ASSUME NEW m \in reportsDue, BeginReport(m)  PROVE ReportsInOrder'
    <2>1. /\ report'.month = m /\ report'.figure = Downtime(m * Month, (m + 1) * Month)
          /\ reportsDue' \subseteq reportsDue /\ mailed' = mailed
      BY <1>10 DEF BeginReport
    <2>2. m \in Nat
      BY <1>0
    <2>3. PICK start \in Nat, end \in Nat : start = m * Month /\ end = (m + 1) * Month
      BY <1>0, <2>2
    <2>4. Downtime(start, end) = TotalCharge(history, upNow, start, end)
      BY <1>0, DowntimeIsTotal
    <2>5. True(m, report'.figure)
      BY <1>4, <2>1, <2>3, <2>4 DEF True, TrueFigure
    <2>6. TrueNext(m, report'.figure)
      BY <1>1, <2>2, <2>5
    <2> QED  BY <1>6, <1>7, <2>1, <2>6 DEF ReportsInOrder, TrueNext
  <1>11. CASE UpTick
    <2>1. \A m \in reportsDue' : (m + 1) * Month <= upNow'
      <3> SUFFICES ASSUME NEW m \in reportsDue'  PROVE (m + 1) * Month <= upNow'
        OBVIOUS
      <3>1. CASE m \in reportsDue
        BY <1>6, <3>1
      <3>2. CASE m \notin reportsDue
        <4>1. upNow' % Month = 0 /\ m = (upNow' \div Month) - 1 /\ upNow' = upNow + 1
          BY <1>11, <3>2 DEF UpTick
        <4>2. PICK now \in Nat : now = upNow'
          BY <1>5
        <4>3. now > 0
          BY <1>0, <4>1, <4>2
        <4>4. (m + 1) * Month = now
          BY <1>0, <4>1, <4>2, <4>3, MonthEnds
        <4> QED  BY <4>2, <4>4
      <3> QED  BY <3>1, <3>2
    <2>2. report' = report /\ mailed' = mailed
      BY <1>11 DEF UpTick
    <2> QED  BY <1>7, <1>8, <2>1, <2>2 DEF ReportsInOrder, TrueNext
  <1>12. CASE LoseReport
    <2>1. report'.left = {} /\ mailed' = mailed /\ reportsDue' = reportsDue
      BY <1>12 DEF LoseReport, NoReport
    <2> QED  BY <1>6, <1>7, <2>1 DEF ReportsInOrder, TrueNext
  <1>13. CASE UNCHANGED <<reportsDue, report, mailed>>
    BY <1>6, <1>7, <1>8, <1>13 DEF ReportsInOrder, TrueNext
  <1> QED
    BY <1>9, <1>10, <1>11, <1>12, <1>13 DEF UpNext, upVars, Move

LEMMA UpTypesStep == UpInv /\ [UpNext]_upVars => UpTypes'
  <1> SUFFICES ASSUME UpInv, [UpNext]_upVars PROVE UpTypes'
    OBVIOUS
  <1>0. UpTypes /\ LastTick \in Nat /\ Month \in Nat \ {0} /\ MaxLost \in Nat
    BY UptimeAssumption DEF UpInv
  <1> USE DEF UpTypes, UpTypeOK
  <1>1. upNow' \in 0 .. LastTick /\ shown' \in ShownState
    <2>1. upNow' = upNow \/ (upNow < LastTick /\ upNow' = upNow + 1)
      BY DEF UpNext, upVars, UpTick, LoseReport, BeginReport, MailReport, Move
    <2>2. shown' \in ShownState
      BY <1>0 DEF UpNext, upVars, UpTick, LoseReport, BeginReport, MailReport, Move
    <2> QED  BY <1>0, <2>1, <2>2
  <1>2. history' \in Seq(StatusRow)
    <2>1. ASSUME NEW next \in ShownState, NEW s \in BOOLEAN, Move(next, s)
          PROVE  history' \in Seq(StatusRow)
      BY <2>1, MoveWrites
    <2>2. history \in Seq(StatusRow)
      BY UpParts
    <2> QED  BY <2>1, <2>2 DEF UpNext, upVars, UpTick, LoseReport, BeginReport, MailReport
  <1>3. outOfOrder' \subseteq 0 .. LastTick
    <2>1. upNow \in 0 .. LastTick /\ outOfOrder \subseteq 0 .. LastTick
      BY <1>0
    <2>2. outOfOrder' \subseteq outOfOrder \cup {upNow}
      BY DEF UpNext, upVars, UpTick, LoseReport, BeginReport, MailReport, Move
    <2> QED  BY <2>1, <2>2
  <1>4. reportsDue' \subseteq Nat
    <2>1. CASE UpTick
      <3>1. PICK now \in Nat : now = upNow' /\ now > 0
        BY <1>0, <2>1 DEF UpTick
      <3>2. now % Month = 0 => (now \div Month) - 1 \in Nat
        BY <1>0, <3>1, MonthEnds
      <3> QED  BY <1>0, <2>1, <3>1, <3>2 DEF UpTick
    <2> QED  BY <1>0, <2>1 DEF UpNext, upVars, LoseReport, BeginReport, MailReport, Move
  <1>5. lost' \in 0 .. MaxLost
    <2>1. lost' = lost \/ (lost < MaxLost /\ lost' = lost + 1)
      BY DEF UpNext, upVars, UpTick, LoseReport, BeginReport, MailReport, Move
    <2> QED  BY <1>0, <2>1
  <1>6. report' \in [left : SUBSET Recipients, month : Nat, figure : Nat]
    <2>1. ASSUME NEW m \in reportsDue, BeginReport(m)
          PROVE  report' \in [left : SUBSET Recipients, month : Nat, figure : Nat]
      <3>1. PICK start \in Nat, end \in Nat : start = m * Month /\ end = (m + 1) * Month
        BY <1>0
      <3>2. Downtime(start, end) \in Nat
        <4>1. history \in Seq(StatusRow) /\ upNow \in Nat
          BY UpParts
        <4>2. TotalCharge(history, upNow, start, end) \in Nat
          BY <4>1, ChargeTotalTyped
        <4> QED  BY <4>1, <4>2, DowntimeIsTotal
      <3>3. m \in Nat
        BY <1>0
      <3> QED  BY <2>1, <3>1, <3>2, <3>3 DEF BeginReport
    <2>2. ASSUME NEW r \in Recipients, NEW d \in BOOLEAN, MailReport(r, d)
          PROVE  report' \in [left : SUBSET Recipients, month : Nat, figure : Nat]
      BY <1>0, <2>2 DEF MailReport
    <2>3. CASE LoseReport
      BY <2>3 DEF LoseReport, NoReport
    <2> QED  BY <1>0, <2>1, <2>2, <2>3 DEF UpNext, upVars, UpTick, Move
  <1>7. mailed' \in [Recipients -> SUBSET (Nat \X Nat)]
    <2>1. ASSUME NEW r \in Recipients, NEW d \in BOOLEAN, MailReport(r, d)
          PROVE  mailed' \in [Recipients -> SUBSET (Nat \X Nat)]
      <3>1. <<report.month, report.figure>> \in Nat \X Nat
        BY <1>0
      <3>2. PICK sent \in SUBSET (Nat \X Nat) :
               sent = mailed[r] \cup {<<report.month, report.figure>>}
        BY <1>0, <3>1
      <3>3. mailed' = mailed \/ mailed' = [mailed EXCEPT ![r] = sent]
        BY <2>1, <3>2 DEF MailReport
      <3> QED  BY <1>0, <3>3
    <2> QED  BY <1>0, <2>1 DEF UpNext, upVars, UpTick, LoseReport, BeginReport, Move
  <1> QED  BY <1>1, <1>2, <1>3, <1>4, <1>5, <1>6, <1>7 DEF StatusRow

LEMMA UpInitInv == UpInit => UpInv
  <1> SUFFICES ASSUME UpInit PROVE UpInv
    OBVIOUS
  <1>1. UpTypes
    BY UptimeAssumption DEF UpInit, UpTypes, UpTypeOK, ShownState, NoReport
  <1>2. HistoryInOrder /\ ReportsInOrder
    BY DEF UpInit, HistoryInOrder, ReportsInOrder, NoReport
  <1>3. ASSUME NEW start \in 0 .. upNow, NEW end \in 0 .. upNow, start <= end
        PROVE  CountedTicks(start, end)
    <2>1. Really(outOfOrder, start, end) = {}
      BY DEF UpInit, Really
    <2>2. DOMAIN history = {}
      BY DEF UpInit
    <2>3. PICK f \in [DOMAIN history -> Nat] : f = Charges(history, upNow, start, end)
      BY <2>2 DEF Charges
    <2>4. IsFiniteSet(DOMAIN history) /\ DOMAIN history \in SUBSET (DOMAIN history)
      BY <2>2, FS_EmptySet
    <2>5. \A i \in DOMAIN history : f[i] = 0
      BY <2>2
    <2>6. SumOf(f, DOMAIN history) = 0
      BY <2>4, <2>5, TotalZero
    <2> QED  BY <2>1, <2>3, <2>6, FS_EmptySet DEF CountedTicks, TotalCharge
  <1>4. \A t \in outOfOrder : t < upNow
    BY DEF UpInit
  <1> QED  BY <1>1, <1>2, <1>3, <1>4 DEF UpInv

LEMMA UpStepInv == UpInv /\ [UpNext]_upVars => UpInv'
  <1> SUFFICES ASSUME UpInv, [UpNext]_upVars PROVE UpInv'
    OBVIOUS
  <1>1. \A start, end \in 0 .. upNow' : start <= end => CountedTicks(start, end)'
    BY CountedStep
  <1> QED  BY <1>1, UpTypesStep, OrderStep, MonthlyReportStep DEF UpInv

LEMMA UptimeInvariant == UpSpec => []UpInv
  BY UpInitInv, UpStepInv, PTL DEF UpSpec

\* Every row of status_events and every figure is one the code can hold.
THEOREM UptimeTypes == UpSpec => []UpTypeOK
  <1>1. UpInv => UpTypeOK
    BY DEF UpInv, UpTypes
  <1> QED  BY <1>1, UptimeInvariant, PTL

\* compute_device_uptime over what _transition wrote counts the ticks that the
\* device was down of its own, and more only where maintenance interrupted it.
THEOREM DowntimeIsCounted == UpSpec => []ReportCountsDowntime
  <1>1. UpInv => ReportCountsDowntime
    <2> SUFFICES ASSUME UpInv, NEW p \in Periods
                 PROVE  /\ Downtime(p[1], p[2]) >= Cardinality(Really(outOfOrder, p[1], p[2]))
                        /\ NeverInterrupted =>
                              Downtime(p[1], p[2]) = Cardinality(Really(outOfOrder, p[1], p[2]))
      BY DEF ReportCountsDowntime, Really
    <2>1. PICK start \in 0 .. upNow, end \in 0 .. upNow :
             start = p[1] /\ end = p[2] /\ start <= end
      BY DEF Periods
    <2>2. history \in Seq(StatusRow) /\ upNow \in Nat /\ start \in Nat /\ end \in Nat
      BY UpParts
    <2>3. Downtime(start, end) = TotalCharge(history, upNow, start, end)
      BY <2>2, DowntimeIsTotal
    <2>4. CountedTicks(start, end)
      BY <2>1 DEF UpInv
    <2> QED  BY <2>1, <2>3, <2>4 DEF CountedTicks
  <1> QED  BY <1>1, UptimeInvariant, PTL

\* A figure that generate_monthly_report mailed is for ever what the report of
\* that month gives.
THEOREM FiguresStayTrue == UpSpec => []MailedFiguresStayTrue
  <1>1. UpInv => MailedFiguresStayTrue
    <2> SUFFICES ASSUME UpInv, NEW r \in Recipients, NEW f \in mailed[r]
                 PROVE  f[2] = Downtime(f[1] * Month, (f[1] + 1) * Month)
      BY DEF MailedFiguresStayTrue
    <2>1. f[1] \in Nat
      BY DEF UpInv, UpTypes, UpTypeOK
    <2>2. TrueFigure(history, upNow, f[1], f[2])
      BY DEF UpInv, ReportsInOrder
    <2>3. history \in Seq(StatusRow) /\ upNow \in Nat /\ Month \in Nat
      BY UpParts
    <2>4. PICK start \in Nat, end \in Nat : start = f[1] * Month /\ end = (f[1] + 1) * Month
      <3>1. \A a, b \in Nat : a * b \in Nat
        OBVIOUS
      <3>2. f[1] + 1 \in Nat
        BY <2>1
      <3>3. f[1] * Month \in Nat /\ (f[1] + 1) * Month \in Nat
        BY <2>1, <2>3, <3>1, <3>2
      <3> QED  BY <3>3
    <2>5. Downtime(start, end) = TotalCharge(history, upNow, start, end)
      BY <2>3, DowntimeIsTotal
    <2> QED  BY <2>2, <2>4, <2>5 DEF TrueFigure
  <1> QED  BY <1>1, UptimeInvariant, PTL

\* The page of a device shows no more than the report of the last 24 hours, and
\* as much unless an outage went on from before them (device_history).
THEOREM PageIsTrue == UpSpec => []PageAgreesWithReport
  <1>1. UpInv => PageAgreesWithReport
    <2> SUFFICES ASSUME UpInv PROVE PageAgreesWithReport
      OBVIOUS
    <2> DEFINE since == IF upNow > PageSpan THEN upNow - PageSpan ELSE 0
               D == DOMAIN history
    <2>0. /\ history \in Seq(StatusRow) /\ upNow \in Nat /\ upNow < Open
          /\ \A i \in D : history[i] \in StatusRow /\ InThePast(history[i], upNow)
          /\ PageSpan \in Nat
      BY UpParts, UptimeAssumption
    <2>1. since \in Nat /\ since <= upNow
      BY <2>0
    <2>2. PICK f \in [D -> Nat] : f = Charges(history, upNow, since, upNow)
      BY <2>0, <2>1, ChargesTyped
    <2>3. ASSUME NEW i \in D
          PROVE  /\ i \in Charged <=> Charging(history[i])
                 /\ history[i].from \in Nat /\ EndOf(history[i]) \in Nat
                 /\ history[i].from <= EndOf(history[i]) /\ EndOf(history[i]) <= upNow
      <3>1. i \in Charged <=> Charging(history[i])
        BY DEF Charged, Downs, Charging
      <3>2. /\ history[i].from \in Nat /\ history[i].to \in Nat
            /\ InThePast(history[i], upNow)
        BY <2>0 DEF StatusRow
      <3> QED  BY <2>0, <3>1, <3>2 DEF EndOf, InThePast
    <2>4. ASSUME NEW i \in D
          PROVE  f[i] = IF i \in Charged /\ history[i].from < upNow
                        THEN Overlap(history[i], since, upNow) ELSE 0
      BY <2>2, <2>3 DEF Charges, Charge, Overlap, EndOf
    <2>5. \A i \in D : history[i].from + PageSpan >= upNow <=> history[i].from >= since
      BY <2>0, <2>3
    <2>6. PageCharges \in [D -> Nat]
      BY <2>3 DEF PageCharges
    <2>7. PICK g \in [D -> Nat] : g = PageCharges
      BY <2>6
    <2>8. ASSUME NEW i \in D
          PROVE  g[i] = IF i \in Charged /\ history[i].from >= since
                        THEN EndOf(history[i]) - history[i].from ELSE 0
      BY <2>5, <2>7 DEF PageCharges
    <2>9. IsFiniteSet(D) /\ D \in SUBSET D
      BY <2>0, HistoryParts
    <2>10. Downtime(since, upNow) = SumOf(f, D)
      <3> HIDE DEF since, D
      <3> QED  BY <2>0, <2>1, <2>2, DowntimeIsTotal DEF TotalCharge, D
    <2>11. PageDowntime = SumOf(g, D)
      BY <2>0, <2>6, <2>7, PageIsTotal
    <2> HIDE DEF since
    <2>12. ASSUME NEW i \in D, i \in Charged, history[i].from >= since
           PROVE  f[i] = g[i]
      <3>1. Overlap(history[i], since, upNow) = EndOf(history[i]) - history[i].from
        BY <2>0, <2>1, <2>3, <2>12 DEF Overlap, Greatest, Least
      <3>2. CASE history[i].from < upNow
        BY <2>4, <2>8, <2>12, <3>1, <3>2
      <3>3. CASE ~(history[i].from < upNow)
        <4>1. EndOf(history[i]) - history[i].from = 0
          BY <2>0, <2>3, <3>3
        <4> QED  BY <2>4, <2>8, <2>12, <3>3, <4>1
      <3> QED  BY <3>2, <3>3
    <2>13. ASSUME NEW i \in D, ~(i \in Charged /\ history[i].from >= since)
           PROVE  g[i] = 0
      BY <2>8, <2>13
    <2>14. \A i \in D : g[i] <= f[i]
      BY <2>12, <2>13
    <2>15. PageDowntime <= Downtime(since, upNow)
      BY <2>9, <2>10, <2>11, <2>14, TotalGrows
    <2>16. ASSUME \A i \in Charged : history[i].from < since => EndOf(history[i]) <= since
           PROVE  PageDowntime = Downtime(since, upNow)
      <3>1. ASSUME NEW i \in D  PROVE f[i] = g[i]
        <4>1. CASE i \in Charged /\ history[i].from >= since
          BY <2>12, <4>1
        <4>2. CASE i \notin Charged
          BY <2>4, <2>8, <4>2
        <4>3. CASE i \in Charged /\ ~(history[i].from >= since)
          <5>1. EndOf(history[i]) <= since
            BY <2>1, <2>3, <2>16, <4>3
          <5>2. Overlap(history[i], since, upNow) = 0
            BY <2>0, <2>1, <2>3, <4>3, <5>1 DEF Overlap, Greatest, Least
          <5> QED  BY <2>4, <2>13, <4>3, <5>2
        <4> QED  BY <4>1, <4>2, <4>3
      <3>2. f = g
        BY <3>1
      <3> QED  BY <2>10, <2>11, <3>2
    <2> QED  BY <2>15, <2>16 DEF PageAgreesWithReport, since
  <1> QED  BY <1>1, UptimeInvariant, PTL

-----------------------------------------------------------------------------
(***************************************************************************)
(* The components side by side, as the runs check them: a step of one is a *)
(* step or a stutter of each.                                              *)
(***************************************************************************)

\* What a behaviour of all components is for each of them: in every step one of
\* them moves and the others stutter.
LEMMA RecordsSplit ==
    RecordsSpec => /\ [](focus \in Focus)
                   /\ PartSpec /\ UpSpec /\ FlapSpec /\ AccSpec /\ LiveSpec /\ DetSpec /\ Spec
  <1>1. RecordsInit => /\ focus \in Focus
                       /\ PartInit /\ UpInit /\ FlapInit /\ AccInit /\ LiveInit /\ DetInit /\ Init
    BY DEF RecordsInit
  <1>2. [RecordsNext]_records =>
            /\ UNCHANGED focus
            /\ [PartNext]_partVars /\ [UpNext]_upVars /\ [FlapNext]_flapVars /\ [AccNext]_accVars
            /\ [LiveNext]_liveVars /\ [DetNext]_detVars /\ [Next]_vars
    BY Zenon DEF RecordsNext, records
  <1>3. focus \in Focus /\ UNCHANGED focus => (focus \in Focus)'
    BY DEF Focus
  <1> QED
    BY <1>1, <1>2, <1>3, PTL
       DEF RecordsSpec, PartSpec, UpSpec, FlapSpec, AccSpec, LiveSpec, DetSpec, Spec

\* Every table, task and handler of the seven components is what its type says,
\* in the specification that the run checks.
THEOREM RecordsTypes == RecordsSpec => []RecordsTypeOK
  <1>1. /\ focus \in Focus
        /\ PartTypeOK /\ UpTypeOK /\ FlapTypeOK /\ AccTypeOK /\ LiveTypeOK /\ DetTypeOK /\ TypeOK
        => RecordsTypeOK
    BY DEF RecordsTypeOK
  <1> QED
    BY <1>1, RecordsSplit, PartitionTypes, UptimeTypes, FlappingTypes, AccountsTypes,
       LiveViewTypes, DetectionTypes, RetentionTypes, PTL

\* What the run checks of the components holds of all of them together: nothing
\* that one of them does can disturb what the others promise.
THEOREM RecordsSafe ==
    RecordsSpec => /\ []ReportCountsDowntime /\ []PageAgreesWithReport /\ []MailedFiguresStayTrue
                   /\ []AlertsAreSpaced
                   /\ []LockoutIsExact /\ []RightsAreCurrent /\ []TrailIsComplete
                   /\ []PathsFollowDevices
                   /\ []RecentResultsKept /\ []NeverOvercounted /\ []NoDayVanishes
                   /\ []VerdictsTellTruth
  <1> QED
    BY RecordsSplit, DowntimeIsCounted, PageIsTrue, FiguresStayTrue,
       SpacedAlerts, LockoutCorrect, RightsCorrect, TrailCorrect, PathsFollow,
       KeptCorrect, CountCorrect, RollCorrect, ChecksTellTruth, PTL
=============================================================================
