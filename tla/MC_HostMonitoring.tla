------------------------- MODULE MC_HostMonitoring -------------------------
(* Model-checking instance of HostMonitoring: two callers, two Monitor     *)
(* objects, time bounded by MaxTime.                                       *)
EXTENDS HostMonitoring, TLC

CONSTANTS c1, c2, m1, m2,
          MaxTime   \* last value of the clock explored

MCCallers == {c1, c2}
MCMonitors == {m1, m2}

Symmetry == Permutations(MCCallers) \cup Permutations(MCMonitors)

MonitorSymmetry == Permutations(MCMonitors)

TimeBound == now <= MaxTime

OneCaller == {c1}

OneCallEach == [c \in MCCallers |-> 1]

ThreeCalls == c1 :> 3

(* States are told apart by what the rest of a behaviour can read: values *)
(* of a Monitor that its loop overwrites before reading them again are    *)
(* dropped, and the wake-up and last-used times, only ever compared with  *)
(* now, are kept relative to now.  A stopped monitor's loop reads nothing. *)
LiveMonitor(m) ==
  IF mpc[m] = "stopped" THEN <<"stopped">>
  ELSE <<mpc[m], newQ[m], activeQ[m], monConn[m], pend[m],
         IF mpc[m] \in {"new", "dispatch", "apply"} THEN marker[m] ELSE None,
         IF mpc[m] = "new" THEN loopTime[m] ELSE 0,
         IF now - lastUsed[m] >= MonitorDisposalTime THEN MonitorDisposalTime
         ELSE now - lastUsed[m],
         IF wake[m] > now THEN wake[m] - now ELSE 0,
         IF mpc[m] \in {"dispatch", "apply"}
         THEN <<probeStart[m], probeElapsed[m], probeOk[m], delay[m]>>
         ELSE <<>> >>

(* An inactive context no monitor is about to update is read only by the  *)
(* properties, which need of it no more than this.                         *)
CtxView(x) ==
  IF ctx[x].active \/ \E m \in Monitors : pend[m].c = x THEN ctx[x]
  ELSE <<ctx[x].mon, ctx[x].unavailable, ctx[x].aborts, ctx[x].outcome,
         ctx[x].hits, ctx[x].since = 0,
         ctx[x].since >= ctx[x].start + FailureDetectionTime>>

View == <<now, hostUp, flips, hostAvail, monitorMap, cache,
          [m \in Monitors |-> LiveMonitor(m)], [x \in CtxIds |-> CtxView(x)],
          callerVars>>
=============================================================================
