------------------------------ MODULE Detection -----------------------------
(***************************************************************************)
(* The checkers (checkers/ping.py, rtsp.py, nvr.py with onvif_client.py,   *)
(* image.py) look at one camera and its recorder while these change: the   *)
(* simulator's control calls (simulator/ccms_sim) fail and recover them,   *)
(* and the network, the picture, the settings and the workers' host change *)
(* by themselves.  A check takes several looks, and checks of one device   *)
(* may overlap.                                                            *)
(***************************************************************************)
EXTENDS Naturals, FiniteSets

CONSTANTS
    Probes,      \* check workers
    Duties,      \* the kinds of check that come to each of them by its queues
    Callers,     \* requests to the simulator's control API
    MaxTurns,    \* bound: control calls and other changes of the world
    MaxLooks     \* bound: checks

ASSUME DetectionAssumption == MaxTurns \in Nat /\ MaxLooks \in Nat

\* onvif: the checks of a recorder that is not the simulator's.
Kind == {"ping", "rtsp", "nvr", "onvif", "image"}

ASSUME DutiesAssumption == Duties \in [Probes -> SUBSET Kind]

VARIABLES
    world,     \* what the checkers look at, see Fine
    files,     \* the image checker's files: the last hash and the reference
    probe,     \* the local variables of every check
    caller,    \* the local variables of every control call
    turns,     \* number of control calls and other changes
    looks      \* number of checks begun

detVars == <<world, files, probe, caller, turns, looks>>

\* NvrState: recording is False, a bad hdd_status, disk_pct and clock_drift_s
\* past their limits.
Trouble == {"recording", "hdd", "disk", "drift"}
Severe == {"recording", "hdd"}
Worrying == {"disk", "drift"}

Looks == {"clear", "black", "blurred", "moved"}

\* login: the recorder's, in the database; url: the camera has an rtsp_url there;
\* admitted: with the login that it has there, or none, the camera lets one in;
\* able: the host can run ffprobe and open an ICMP socket.
\* feed: the camera's ffmpeg process runs; stuck: it repeats its last frame.
Fine == [link |-> "good", login |-> "right", url |-> TRUE, admitted |-> TRUE,
         able |-> TRUE, feedFailed |-> FALSE, feed |-> TRUE,
         nvrFailed |-> FALSE, trouble |-> {}, look |-> "clear", stuck |-> FALSE,
         frame |-> 0]

NoFrame == MaxTurns + MaxLooks + 1

NoProbe == [stage |-> "idle", kind |-> "ping", step |-> 0, got |-> 0, frame |-> NoFrame,
            look |-> "clear", frozen |-> FALSE, verdict |-> "none",
            overlapped |-> FALSE, well |-> FALSE, ill |-> FALSE, blind |-> FALSE]

NoCall == [stage |-> "idle", call |-> "recover", scope |-> "stream"]

DetInit ==
    /\ world = Fine
    /\ files = [hash |-> NoFrame, reference |-> "none"]
    /\ probe = [p \in Probes |-> NoProbe]
    /\ caller = [c \in Callers |-> NoCall]
    /\ turns = 0 /\ looks = 0

-----------------------------------------------------------------------------
\* Ground truth: what a check of each kind should call down, and should not.
Ill(kind, w) ==
    CASE kind = "ping"  -> w.link = "cut"
      [] kind = "rtsp"  -> w.link # "good" \/ ~w.feed \/ ~w.admitted
      [] kind = "nvr"   -> w.link # "good" \/ w.nvrFailed \/ w.trouble \cap Severe # {}
      [] kind = "onvif" -> w.link # "good" \/ w.login # "right"
      [] kind = "image" -> \/ w.link # "good" \/ ~w.feed \/ ~w.admitted
                           \/ w.look = "black" \/ w.stuck

\* One picture cannot show that the next will be the same: stuck is Ill only.
Well(kind, w) ==
    /\ ~Ill(kind, [w EXCEPT !.stuck = FALSE])
    /\ kind = "nvr" => w.trouble \cap Worrying = {}
    /\ kind = "image" => w.look # "blurred"

\* What keeps a check from looking at the device at all.
Streamed == {"rtsp", "image"}

Blind(kind, w) == (kind \in Streamed /\ ~w.url) \/ (kind \in {"ping", "rtsp"} /\ ~w.able)

\* Every check under way has lived through the new state of the world.
Become(w) ==
    /\ world' = w
    /\ probe' = [p \in Probes |-> [probe[p] EXCEPT
                   !.well = @ \/ (probe[p].stage # "idle" /\ Well(probe[p].kind, w)),
                   !.ill = @ \/ (probe[p].stage # "idle" /\ Ill(probe[p].kind, w)),
                   !.blind = @ \/ (probe[p].stage # "idle" /\ Blind(probe[p].kind, w))]]
    /\ UNCHANGED <<files, looks>>

Turn == turns < MaxTurns /\ turns' = turns + 1

\* The network, the settings and passwords, the host, the picture (external).  A
\* picture gets stuck at the frame of the last check or at a later one.
NetworkChanges(link) == Turn /\ Become([world EXCEPT !.link = link]) /\ UNCHANGED caller

LoginChanges(login) == Turn /\ Become([world EXCEPT !.login = login]) /\ UNCHANGED caller

UrlChanges == Turn /\ Become([world EXCEPT !.url = ~world.url]) /\ UNCHANGED caller

AdmissionChanges ==
    Turn /\ Become([world EXCEPT !.admitted = ~world.admitted]) /\ UNCHANGED caller

HostChanges == Turn /\ Become([world EXCEPT !.able = ~world.able]) /\ UNCHANGED caller

PictureChanges(look) == Turn /\ Become([world EXCEPT !.look = look]) /\ UNCHANGED caller

PictureSticks(frame) ==
    /\ Turn
    /\ ~world.stuck
    /\ Become([world EXCEPT !.stuck = TRUE, !.frame = frame])
    /\ UNCHANGED caller

PictureMoves ==
    /\ Turn
    /\ world.stuck
    /\ Become([world EXCEPT !.stuck = FALSE, !.frame = @ + 1])
    /\ UNCHANGED caller

\* set_nvr_metrics sets the parameters it is given one after the other.
SetMetric(trouble, on) ==
    /\ Turn
    /\ Become([world EXCEPT !.trouble = IF on THEN @ \cup {trouble} ELSE @ \ {trouble}])
    /\ UNCHANGED caller

-----------------------------------------------------------------------------
\* fail_device and recover_device run in threads of the simulator: each sets
\* the camera's flag, then stops or starts its feed, then sets the recorder's.
BeginCall(c, call, scope) ==
    /\ Turn
    /\ caller[c].stage = "idle"
    /\ caller' = [caller EXCEPT ![c] = [stage |-> IF scope = "nvr" THEN "nvr" ELSE "flag",
                                        call |-> call, scope |-> scope]]
    /\ UNCHANGED <<world, files, probe, looks>>

SetFlag(c) ==
    /\ caller[c].stage = "flag"
    /\ Become([world EXCEPT !.feedFailed = caller[c].call = "fail"])
    /\ caller' = [caller EXCEPT ![c].stage = "feed"]
    /\ UNCHANGED turns

\* RtspManager.stop and start; start does nothing while the process runs.
SwitchFeed(c) ==
    /\ caller[c].stage = "feed"
    /\ Become([world EXCEPT !.feed = caller[c].call = "recover"])
    /\ caller' = [caller EXCEPT ![c].stage = IF caller[c].scope = "stream" THEN "idle" ELSE "nvr"]
    /\ UNCHANGED turns

\* The recorder is shared: recovering a camera recovers it, whoever failed it.
SwitchRecorder(c) ==
    /\ caller[c].stage = "nvr"
    /\ Become([world EXCEPT !.nvrFailed = caller[c].call = "fail"])
    /\ caller' = [caller EXCEPT ![c] = NoCall]
    /\ UNCHANGED turns

\* fail takes a scope; recover does all three for a camera, and for a recorder,
\* as fail, only what concerns itself.
Calls == ({"fail"} \X {"stream", "nvr", "network"}) \cup ({"recover"} \X {"nvr", "network"})

-----------------------------------------------------------------------------
\* Between two image checks that do not overlap, a picture that is not stuck
\* has moved: they are minutes apart.
ImageChecks == {p \in Probes : probe[p].stage # "idle" /\ probe[p].kind = "image"
                                 /\ probe[p].verdict # "ERROR"}

\* run returns at once for a camera without an rtsp_url.
NoUrl(p, kind) ==
    /\ probe[p].stage = "idle" /\ kind \in Streamed
    /\ ~world.url
    /\ looks < MaxLooks /\ looks' = looks + 1
    /\ probe' = [probe EXCEPT ![p] = [NoProbe EXCEPT !.stage = "done", !.kind = kind,
                                         !.verdict = "ERROR", !.blind = TRUE,
                                         !.well = Well(kind, world),
                                         !.ill = Ill(kind, world)]]
    /\ UNCHANGED <<world, files, caller, turns>>

BeginProbe(p, kind) ==
    LET crowd == kind = "image" /\ ImageChecks # {}
        moves == kind = "image" /\ ~crowd /\ ~world.stuck
    IN  /\ probe[p].stage = "idle"
        /\ kind \in Streamed => world.url
        /\ looks < MaxLooks /\ looks' = looks + 1
        /\ world' = [world EXCEPT !.frame = IF moves THEN @ + 1 ELSE @]
        /\ probe' = [q \in Probes |->
             IF q = p THEN [NoProbe EXCEPT !.stage = "looking", !.kind = kind,
                                           !.overlapped = crowd,
                                           !.well = Well(kind, world),
                                           !.ill = Ill(kind, world),
                                           !.blind = Blind(kind, world)]
             ELSE [probe[q] EXCEPT !.overlapped = @ \/ (crowd /\ q \in ImageChecks)]]
        /\ UNCHANGED <<files, caller, turns>>

Looking(p, kind) == probe[p].stage = "looking" /\ probe[p].kind = kind

Still == UNCHANGED <<world, caller, turns, looks>>

\* The other local variables of the check are gone.
Verdict(p, status) ==
    [probe[p] EXCEPT !.stage = "done", !.verdict = status, !.step = 0, !.got = 0,
                     !.frame = NoFrame, !.look = "clear", !.frozen = FALSE]

Report(p, status) == probe' = [probe EXCEPT ![p] = Verdict(p, status)]

\* PingChecker: three echo requests.  One may get lost (external) though the
\* device answers, but not all three.  Loss is over 50 % from the second on.
PingStatus(got) == IF got = 0 THEN "FAIL" ELSE IF got = 1 THEN "DEGRADED" ELSE "OK"

Echo(p, answered) ==
    LET got == probe[p].got + (IF answered THEN 1 ELSE 0)
    IN  /\ Looking(p, "ping")
        /\ probe[p].step = 0 => world.able
        /\ answered => world.link # "cut"
        /\ (~answered /\ world.link # "cut") => (probe[p].step # 2 \/ probe[p].got > 0)
        /\ probe' = [probe EXCEPT ![p] =
             IF probe[p].step = 2 THEN Verdict(p, PingStatus(got))
             ELSE [probe[p] EXCEPT !.step = probe[p].step + 1, !.got = got]]
        /\ UNCHANGED files /\ Still

\* No echo request leaves the host: an exception other than that of permissions.
NoEcho(p) ==
    /\ Looking(p, "ping") /\ probe[p].step = 0
    /\ ~world.able
    /\ Report(p, "ERROR")
    /\ UNCHANGED files /\ Still

\* RtspChecker: one run of ffprobe.  A login that the camera refuses is a FAIL like
\* any other that ffprobe tells of; an ERROR, that it does not run.
Watchable == world.link = "good" /\ world.feed /\ world.admitted

Ffprobe(p) ==
    /\ Looking(p, "rtsp")
    /\ Report(p, IF ~world.able THEN "ERROR" ELSE IF Watchable THEN "OK" ELSE "FAIL")
    /\ UNCHANGED files /\ Still

\* NvrChecker.run: a timeout is a FAIL, any other exception an ERROR.
NvrStatus(trouble) ==
    IF trouble \cap Severe # {} THEN "FAIL"
    ELSE IF trouble \cap Worrying # {} THEN "DEGRADED" ELSE "OK"

LinkError == IF world.link = "slow" THEN "FAIL" ELSE "ERROR"

\* nvr_status, the simulator's answer: a failed recorder answers 503.
SimulatorAnswers == ~world.nvrFailed

\* _query: one GET to the simulator.
QueryStatus(p) ==
    /\ Looking(p, "nvr")
    /\ Report(p, IF world.link # "good" THEN LinkError
                 ELSE IF SimulatorAnswers THEN NvrStatus(world.trouble) ELSE "ERROR")
    /\ UNCHANGED files /\ Still

\* _post: a wrong login is an OnvifError.
LoginRefused == world.login = "wrong"

\* get_system_date_and_time is all that ONVIF tells of the recorder's health; an
\* OnvifError of this second query, unlike a timeout, is passed over.
ClockTrouble == IF LoginRefused THEN {} ELSE world.trouble \cap {"drift"}

\* _query_vendor: first the credentials and the device information ...
QueryInformation(p) ==
    /\ Looking(p, "onvif") /\ probe[p].step = 0
    /\ probe' = [probe EXCEPT ![p] =
         IF world.login = "none" THEN Verdict(p, "ERROR")
         ELSE IF world.link # "good" THEN Verdict(p, LinkError)
         ELSE IF LoginRefused THEN Verdict(p, "ERROR")
         ELSE [@ EXCEPT !.step = 1]]
    /\ UNCHANGED files /\ Still

\* ... then the clock.
QueryClock(p) ==
    /\ Looking(p, "onvif") /\ probe[p].step = 1
    /\ Report(p, IF world.link # "good" THEN LinkError ELSE NvrStatus(ClockTrouble))
    /\ UNCHANGED files /\ Still

\* ImageChecker._grab_frame
Grab(p) ==
    /\ Looking(p, "image") /\ probe[p].step = 0
    /\ probe' = [probe EXCEPT ![p] =
         IF ~Watchable THEN Verdict(p, "FAIL")
         ELSE [@ EXCEPT !.step = 1, !.frame = world.frame, !.look = world.look]]
    /\ UNCHANGED files /\ Still

\* Plausible slip: the hash is stored before it is compared.
CompareAfterStore(p) ==
    /\ Looking(p, "image") /\ probe[p].step = 1
    /\ probe' = [probe EXCEPT ![p].step = 2, ![p].frozen = TRUE]
    /\ files' = [files EXCEPT !.hash = probe[p].frame]
    /\ Still

\* The hash of the check before this one, in a file that all checks share.
CompareHash(p) ==
    /\ Looking(p, "image") /\ probe[p].step = 1
    /\ probe' = [probe EXCEPT ![p].step = 2, ![p].frozen = files.hash = probe[p].frame]
    /\ UNCHANGED files /\ Still

StoreHash(p) ==
    /\ Looking(p, "image") /\ probe[p].step = 2
    /\ files' = [files EXCEPT !.hash = probe[p].frame]
    /\ probe' = [probe EXCEPT ![p].step = 3]
    /\ Still

\* The first picture becomes the reference, even a black one; then the worst wins.
JudgePicture(p) ==
    LET first   == files.reference = "none"
        changed == ~first /\ probe[p].look # files.reference
    IN  /\ Looking(p, "image") /\ probe[p].step = 3
        /\ files' = [files EXCEPT !.reference = IF first THEN probe[p].look ELSE @]
        /\ Report(p, IF probe[p].look = "black" \/ probe[p].frozen THEN "FAIL"
                     ELSE IF probe[p].look = "blurred" \/ changed THEN "DEGRADED" ELSE "OK")
        /\ Still

\* _run_and_record takes over (Evaluator).
Deliver(p) ==
    /\ probe[p].stage = "done"
    /\ probe' = [probe EXCEPT ![p] = NoProbe]
    /\ UNCHANGED files /\ Still

DetNext ==
    \/ \E link \in {"good", "slow", "cut"} \ {world.link} : NetworkChanges(link)
    \/ \E login \in {"none", "wrong", "right"} \ {world.login} : LoginChanges(login)
    \/ UrlChanges \/ AdmissionChanges \/ HostChanges
    \/ \E look \in Looks \ {world.look} : PictureChanges(look)
    \/ \E frame \in {world.frame, world.frame + 1} : PictureSticks(frame)
    \/ PictureMoves
    \/ \E trouble \in Trouble, on \in BOOLEAN : SetMetric(trouble, on)
    \/ \E c \in Callers :
         \/ SetFlag(c) \/ SwitchFeed(c) \/ SwitchRecorder(c)
         \/ \E x \in Calls : BeginCall(c, x[1], x[2])
    \/ \E p \in Probes :
         \/ \E kind \in Duties[p] : BeginProbe(p, kind) \/ NoUrl(p, kind)
         \/ NoEcho(p) \/ \E answered \in BOOLEAN : Echo(p, answered)
         \/ Ffprobe(p) \/ QueryStatus(p) \/ QueryInformation(p) \/ QueryClock(p)
         \/ Grab(p) \/ CompareHash(p) \/ StoreHash(p) \/ JudgePicture(p) \/ Deliver(p)

DetSpec == DetInit /\ [][DetNext]_detVars

-----------------------------------------------------------------------------
Status == {"none", "OK", "DEGRADED", "FAIL", "ERROR"}

DetTypeOK ==
    /\ world \in [link : {"good", "slow", "cut"}, login : {"none", "wrong", "right"},
                  url : BOOLEAN, admitted : BOOLEAN, able : BOOLEAN,
                  feedFailed : BOOLEAN, feed : BOOLEAN, nvrFailed : BOOLEAN,
                  trouble : SUBSET Trouble, look : Looks, stuck : BOOLEAN, frame : 0 .. MaxTurns + MaxLooks]
    /\ files.hash \in 0 .. MaxTurns + MaxLooks \cup {NoFrame} /\ files.reference \in Looks \cup {"none"}
    /\ \A p \in Probes :
         /\ probe[p].stage \in {"idle", "looking", "done"} /\ probe[p].kind \in Kind
         /\ probe[p].step \in 0 .. 3 /\ probe[p].got \in 0 .. 3
         /\ probe[p].verdict \in Status /\ probe[p].look \in Looks
    /\ \A c \in Callers : caller[c].stage \in {"idle", "flag", "feed", "nvr"}
    /\ turns \in 0 .. MaxTurns /\ looks \in 0 .. MaxLooks

\* A device is called down only for what was so at some moment of the check: by a
\* FAIL if it was down, or refused the login it was given; by an ERROR if it was
\* down, or if its settings or the host kept the check from looking at it.  It is
\* called well (OK) only if it was well at some moment.  Image checks of a camera
\* that overlap share a hash file and may call a moving picture frozen; no others do.
VerdictsTellTruth ==
    \A p \in Probes :
        /\ probe[p].verdict = "FAIL" => probe[p].ill \/ probe[p].overlapped
        /\ probe[p].verdict = "ERROR" => probe[p].ill \/ probe[p].blind
        /\ probe[p].verdict = "OK" => probe[p].well
=============================================================================
