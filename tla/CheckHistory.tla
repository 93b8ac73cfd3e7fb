---------------------------- MODULE CheckHistory ----------------------------
(***************************************************************************)
(* The reference definition of debouncing: which state a device should be  *)
(* in, given all of its check results.  It speaks of runs of results and   *)
(* never of counters, and nothing is carried from one result to the next.  *)
(***************************************************************************)
EXTENDS Debounce

\* One check_results row: the checker's verdict and maintenance_flag.
Entry == [status : CheckStatus, flag : BOOLEAN]

IsFail(e) == ~e.flag /\ e.status \in HardFail
IsOk(e)   == ~e.flag /\ e.status = "OK"

-----------------------------------------------------------------------------
\* Exactly the last n entries of h are hard failures (are OK).
TrailingFails(h, n) ==
    /\ n \in 0 .. Len(h)
    /\ \A k \in (Len(h) - n + 1) .. Len(h) : IsFail(h[k])
    /\ n < Len(h) => ~IsFail(h[Len(h) - n])

TrailingOks(h, n) ==
    /\ n \in 0 .. Len(h)
    /\ \A k \in (Len(h) - n + 1) .. Len(h) : IsOk(h[k])
    /\ n < Len(h) => ~IsOk(h[Len(h) - n])

\* An outage begins at i, where DownThreshold failures in a row end ...
OutageBegins(h, i) ==
    /\ i \in DownThreshold .. Len(h)
    /\ \A k \in (i - DownThreshold + 1) .. i : IsFail(h[k])

\* ... and is over at j, where UpThreshold successes in a row end.
Recovered(h, i, j) ==
    /\ j \in (i + UpThreshold) .. Len(h)
    /\ \A k \in (j - UpThreshold + 1) .. j : IsOk(h[k])

InOutage(h) ==
    \E i \in 1 .. Len(h) :
        /\ OutageBegins(h, i)
        /\ \A k \in (i + 1) .. Len(h) : ~h[k].flag
        /\ \A j \in (i + 1) .. Len(h) : ~Recovered(h, i, j)

\* k is the last entry that is not a hard failure.
LastSoft(h, k) ==
    /\ k \in 1 .. Len(h)
    /\ ~IsFail(h[k])
    /\ \A m \in (k + 1) .. Len(h) : IsFail(h[m])

LooksUp(h) == \E k \in 1 .. Len(h) : LastSoft(h, k) /\ IsOk(h[k])

LooksDegraded(h) ==
    \E k \in 1 .. Len(h) : LastSoft(h, k) /\ ~h[k].flag /\ ~IsOk(h[k])

UnderMaintenance(h) == Len(h) > 0 /\ h[Len(h)].flag

Verdict(h) ==
    IF UnderMaintenance(h) THEN "MAINTENANCE"
    ELSE IF InOutage(h) THEN "DOWN"
    ELSE IF LooksUp(h) THEN "UP"
    ELSE IF LooksDegraded(h) THEN "DEGRADED"
    ELSE "UNKNOWN"
=============================================================================
