--------------------------- MODULE HostMonitoring ---------------------------
(***************************************************************************)
(* Enhanced failure monitoring of one database host                        *)
(* (src/aws_wrapper/host_monitoring_plugin.py).                            *)
(*                                                                         *)
(* Callers are HostMonitoringPlugin instances, one application thread and *)
(* one connection each.  A wrapped call (execute) resolves a Monitor       *)
(* through its MonitorService cache or the MonitoringThreadContainer,      *)
(* submits a MonitoringContext, runs the call, and in its finally block    *)
(* stops the context and reacts to the verdict.  Every Monitor runs its    *)
(* own loop thread: it drains new_contexts, probes the host, hands the     *)
(* probe result to every active context one dequeue at a time, sleeps and  *)
(* disposes of itself when idle.  Time is a discrete clock `now`; one tick *)
(* stands for one unit of the millisecond constants below.                 *)
(***************************************************************************)
EXTENDS Integers, Sequences, FiniteSets

CONSTANTS
  Callers,                  \* plugin instances (one connection, one thread each)
  Monitors,                 \* Monitor objects the supplier may construct
  MaxCalls,                 \* caller -> wrapped calls it makes (bound)
  MaxHostFlips,             \* host outages and recoveries (bound)
  FailureDetectionTime,     \* failure_detection_time_ms
  FailureDetectionInterval, \* failure_detection_interval_ms
  FailureDetectionCount,    \* failure_detection_count
  MonitorDisposalTime,      \* monitor_disposal_time_ms
  InactiveSleep,            \* Monitor._INACTIVE_SLEEP_MS
  MinHostCheckTimeout,      \* Monitor._MIN_HOST_CHECK_TIMEOUT_MS
  ProbeTimes,               \* possible elapsed times of one status check
  None                      \* model value: Python None

ASSUME /\ MaxCalls \in [Callers -> Nat] /\ MaxHostFlips \in Nat
       /\ {FailureDetectionTime, FailureDetectionInterval, MonitorDisposalTime,
           InactiveSleep, MinHostCheckTimeout} \subseteq Nat
       /\ FailureDetectionCount \in Int
       /\ ProbeTimes \subseteq Nat /\ ProbeTimes # {}

VARIABLES
  now,          \* perf_counter_ns()
  hostUp,       \* the real state of the host (environment)
  flips,        \* outages and recoveries so far
  hostAvail,    \* availability the plugin service records for the host aliases
  \* --- MonitoringThreadContainer and MonitorService ---
  monitorMap,   \* _monitor_map entry of the host's aliases: a Monitor or None
  cache,        \* caller -> MonitorService._cached_monitor
  \* --- Monitor (one per element of Monitors) ---
  mpc,          \* where the run() loop of the monitor is
  newQ,         \* _new_contexts
  activeQ,      \* _active_contexts
  marker,       \* first_added_new_context
  loopTime,     \* current_time_ns read at the top of the loop
  lastUsed,     \* _context_last_used_ns
  wake,         \* end of the current sleep or status check
  probeStart,   \* status_check_start_time_ns
  probeElapsed, \* status.elapsed_time_ns
  probeOk,      \* status.is_available
  delay,        \* delay_ms (-1 while no context survived)
  monConn,      \* _monitoring_conn is open
  pend,         \* context between update_host_status's checks and its effect
  \* --- MonitoringContext (one per call) ---
  ctx,
  \* --- callers (HostMonitoringPlugin.execute) ---
  cpc, cctx, cmon, ncalls, conn, callResult

hostVars   == <<now, hostUp, flips, hostAvail>>
regVars    == <<monitorMap, cache>>
monVars    == <<mpc, newQ, activeQ, marker, loopTime, lastUsed, wake,
                probeStart, probeElapsed, probeOk, delay, monConn, pend>>
callerVars == <<cpc, cctx, cmon, ncalls, conn, callResult>>
vars       == <<hostVars, regVars, monVars, ctx, callerVars>>

CtxIds == UNION {{c} \X (1..MaxCalls[c]) : c \in Callers}
Owner(x) == x[1]

(* A context record: the fields of MonitoringContext.  `aborts` counts the *)
(* calls of dialect.abort_connection, `hits` the updates it got from the   *)
(* current status check (saturating at 2), `outcome` what execute gave its *)
(* caller for this call.                                                   *)
NoCtx == [mon |-> None, active |-> FALSE, start |-> 0, since |-> 0,
          unavailable |-> FALSE, aborts |-> 0, hits |-> 0, outcome |-> "none"]

MonPcs == {"none", "init", "new", "checkIdle", "dispatch",
           "apply", "sleep", "stopped"}
CallerPcs == {"idle", "resolved", "executing", "returned", "checking"}

TypeOK ==
  /\ now \in Nat /\ hostUp \in BOOLEAN /\ flips \in 0..MaxHostFlips
  /\ hostAvail \in {"AVAILABLE", "NOT_AVAILABLE"}
  /\ monitorMap \in Monitors \cup {None}
  /\ cache \in [Callers -> Monitors \cup {None}]
  /\ mpc \in [Monitors -> MonPcs]
  /\ newQ \in [Monitors -> Seq(CtxIds)] /\ activeQ \in [Monitors -> Seq(CtxIds)]
  /\ \A m \in Monitors : Len(newQ[m]) + Len(activeQ[m]) <= Cardinality(CtxIds)
  /\ marker \in [Monitors -> CtxIds \cup {None}]
  /\ pend \in [Monitors -> [c : CtxIds \cup {None}, apply : BOOLEAN]]
  /\ delay \in [Monitors -> Int] /\ monConn \in [Monitors -> BOOLEAN]
  /\ probeOk \in [Monitors -> BOOLEAN]
  /\ ctx \in [CtxIds -> [mon : Monitors \cup {None}, active : BOOLEAN,
                         start : Nat, since : Nat, unavailable : BOOLEAN,
                         aborts : Nat, hits : 0..2,
                         outcome : {"none", "ok", "error", "unavailable"}]]
  /\ cpc \in [Callers -> CallerPcs] /\ cctx \in [Callers -> CtxIds \cup {None}]
  /\ conn \in [Callers -> {"open", "aborted", "closed"}]
  /\ callResult \in [Callers -> {"none", "ok", "error"}]

Init ==
  /\ now = 1 /\ hostUp = TRUE /\ flips = 0 /\ hostAvail = "AVAILABLE"
  /\ monitorMap = None /\ cache = [c \in Callers |-> None]
  /\ mpc = [m \in Monitors |-> "none"]
  /\ newQ = [m \in Monitors |-> <<>>] /\ activeQ = [m \in Monitors |-> <<>>]
  /\ marker = [m \in Monitors |-> None]
  /\ loopTime = [m \in Monitors |-> 0] /\ lastUsed = [m \in Monitors |-> 0]
  /\ wake = [m \in Monitors |-> 0] /\ probeStart = [m \in Monitors |-> 0]
  /\ probeElapsed = [m \in Monitors |-> 0] /\ probeOk = [m \in Monitors |-> FALSE]
  /\ delay = [m \in Monitors |-> -1] /\ monConn = [m \in Monitors |-> FALSE]
  /\ pend = [m \in Monitors |-> [c |-> None, apply |-> FALSE]]
  /\ ctx = [x \in CtxIds |-> NoCtx]
  /\ cpc = [c \in Callers |-> "idle"] /\ cctx = [c \in Callers |-> None]
  /\ cmon = [c \in Callers |-> None] /\ ncalls = [c \in Callers |-> 0]
  /\ conn = [c \in Callers |-> "open"] /\ callResult = [c \in Callers |-> "none"]

Max2(a, b) == IF a >= b THEN a ELSE b

(* The verdict threshold of _set_host_availability.                        *)
MaxUnavailableDuration ==
  FailureDetectionInterval * Max2(0, FailureDetectionCount)

-----------------------------------------------------------------------------
(* Environment: time passes, the host fails and recovers.                  *)

Tick ==
  /\ now' = now + 1
  /\ UNCHANGED <<hostUp, flips, hostAvail, regVars, monVars, ctx, callerVars>>

HostFlips ==
  /\ flips < MaxHostFlips
  /\ hostUp' = ~hostUp /\ flips' = flips + 1
  /\ UNCHANGED <<now, hostAvail, regVars, monVars, ctx, callerVars>>

-----------------------------------------------------------------------------
(* MonitoringThreadContainer.get_or_create_monitor for the host's aliases *)
(* (every caller here knows the same alias set, so the alias scan, the     *)
(* compute_if_absent on the chosen alias and the put_if_absent loop act on *)
(* one key and compute_if_absent makes the whole atomic): the mapped       *)
(* monitor, else a supplied one whose run() is submitted to the executor. *)
(* MonitorService caches the result.                                       *)
GetOrCreateMonitor(c) ==
  \/ /\ monitorMap # None
     /\ cmon' = [cmon EXCEPT ![c] = monitorMap]
     /\ cache' = [cache EXCEPT ![c] = monitorMap]
     /\ UNCHANGED <<monitorMap, mpc>>
  \/ /\ monitorMap = None
     /\ \E m \in Monitors :
          /\ mpc[m] = "none"
          /\ monitorMap' = m
          /\ mpc' = [mpc EXCEPT ![m] = "init"]
          /\ cmon' = [cmon EXCEPT ![c] = m]
          /\ cache' = [cache EXCEPT ![c] = m]

(* HostMonitoringPlugin.execute up to MonitorService.start_monitoring's    *)
(* choice of monitor: the cached one when the alias set is the cached one, *)
(* else get_or_create_monitor.                                             *)
ResolveMonitor(c) ==
  /\ cpc[c] = "idle" /\ ncalls[c] < MaxCalls[c] /\ conn[c] = "open"
  /\ \/ /\ cache[c] # None
        /\ cmon' = [cmon EXCEPT ![c] = cache[c]]
        /\ UNCHANGED <<monitorMap, cache, mpc>>
     \/ cache[c] = None /\ GetOrCreateMonitor(c)
  /\ cpc' = [cpc EXCEPT ![c] = "resolved"]
  /\ UNCHANGED <<hostVars, newQ, activeQ, marker, loopTime, lastUsed, wake,
                 probeStart, probeElapsed, probeOk, delay, monConn, pend,
                 ctx, cctx, ncalls, conn, callResult>>

(* Monitor.start_monitoring(context) of monitor m: the context's start    *)
(* time is now, the monitor was last used now, and the context joins       *)
(* new_contexts.                                                           *)
EnqueueContext(m, x) ==
  /\ ctx' = [ctx EXCEPT ![x] = [NoCtx EXCEPT !.mon = m, !.active = TRUE,
                                             !.start = now]]
  /\ lastUsed' = [lastUsed EXCEPT ![m] = now]
  /\ newQ' = [newQ EXCEPT ![m] = Append(@, x)]

(* A new MonitoringContext submitted with Monitor.start_monitoring, then   *)
(* execute_func() begins.                                                  *)
StartMonitoring(c) ==
  LET x == <<c, ncalls[c] + 1>>
  IN /\ cpc[c] = "resolved"
     /\ EnqueueContext(cmon[c], x)
     /\ cctx' = [cctx EXCEPT ![c] = x]
     /\ cpc' = [cpc EXCEPT ![c] = "executing"]
     /\ UNCHANGED <<hostVars, regVars, mpc, activeQ, marker, loopTime, wake,
                    probeStart, probeElapsed, probeOk, delay, monConn, pend,
                    cmon, ncalls, conn, callResult>>

(* execute_func() returns: with an error once the connection was aborted,  *)
(* normally only while the host answers.                                   *)
ExecuteFunc(c) ==
  /\ cpc[c] = "executing"
  /\ \/ conn[c] = "aborted" /\ callResult' = [callResult EXCEPT ![c] = "error"]
     \/ conn[c] = "open" /\ hostUp /\ callResult' = [callResult EXCEPT ![c] = "ok"]
  /\ cpc' = [cpc EXCEPT ![c] = "returned"]
  /\ UNCHANGED <<hostVars, regVars, monVars, ctx, cctx, cmon, ncalls, conn>>

(* finally: MonitorService.stop_monitoring -> Monitor.stop_monitoring.     *)
StopMonitoring(c) ==
  LET x == cctx[c]
  IN /\ cpc[c] = "returned"
     /\ ctx' = [ctx EXCEPT ![x].active = FALSE]
     /\ lastUsed' = [lastUsed EXCEPT ![ctx[x].mon] = now]
     /\ cpc' = [cpc EXCEPT ![c] = "checking"]
     /\ UNCHANGED <<hostVars, regVars, mpc, newQ, activeQ, marker, loopTime,
                    wake, probeStart, probeElapsed, probeOk, delay, monConn,
                    pend, cctx, cmon, ncalls, conn, callResult>>

(* finally, still under the plugin lock: on an unavailable verdict mark   *)
(* the aliases NOT_AVAILABLE and, unless the dialect reports the           *)
(* connection closed, close it and raise the unavailable-host error.       *)
(* Otherwise execute returns what execute_func gave.                       *)
CheckVerdict(c) ==
  LET x == cctx[c]
      raise == ctx[x].unavailable /\ conn[c] = "open"
  IN /\ cpc[c] = "checking"
     /\ hostAvail' = IF ctx[x].unavailable THEN "NOT_AVAILABLE" ELSE hostAvail
     /\ conn' = [conn EXCEPT ![c] = IF raise THEN "closed" ELSE @]
     /\ ctx' = [ctx EXCEPT ![x].outcome =
                  IF raise THEN "unavailable" ELSE callResult[c]]
     /\ ncalls' = [ncalls EXCEPT ![c] = @ + 1]
     /\ callResult' = [callResult EXCEPT ![c] = "none"]
     /\ cpc' = [cpc EXCEPT ![c] = "idle"]
     /\ UNCHANGED <<now, hostUp, flips, regVars, monVars, cctx, cmon>>

-----------------------------------------------------------------------------
(* Monitor.run, one step per dequeue.                                      *)

(* A variant that peeks at the head instead of taking it before putting  *)
(* it back.                                                                *)
Rotate_KeepingHead(q) == Append(q, Head(q))

(* QueueUtils.get followed by put: the head goes to the back.              *)
Rotate(q) == Append(Tail(q), Head(q))

(* A variant that forgets to add failure_detection_time to the submission *)
(* time.                                                                   *)
ActiveMonitoringStarted_AtSubmission(m, x) == loopTime[m] >= ctx[x].start

(* The new_contexts loop's test: active_monitoring_start_time (submission *)
(* time + failure_detection_time) has been reached by the time read at   *)
(* the top of the loop.                                                    *)
ActiveMonitoringStarted(m, x) ==
  loopTime[m] >= ctx[x].start + FailureDetectionTime

(* The executor starts run(): _is_stopped.clear(), top of the loop.        *)
RunStart(m) ==
  /\ mpc[m] = "init"
  /\ mpc' = [mpc EXCEPT ![m] = "new"]
  /\ loopTime' = [loopTime EXCEPT ![m] = now]
  /\ marker' = [marker EXCEPT ![m] = None]
  /\ UNCHANGED <<hostVars, regVars, newQ, activeQ, lastUsed, wake, probeStart,
                 probeElapsed, probeOk, delay, monConn, pend, ctx, callerVars>>

(* One turn of the new_contexts loop: a context met again (the marker) is  *)
(* put back and ends the loop, an inactive one is discarded, one whose     *)
(* active monitoring time has come (by the time read at the top of the    *)
(* loop) moves to active_contexts, any other is put back and may become   *)
(* the marker.  An empty queue ends the loop too.                          *)
ProcessNewContexts(m) ==
  /\ mpc[m] = "new"
  /\ \/ /\ newQ[m] = <<>>
        /\ mpc' = [mpc EXCEPT ![m] = "checkIdle"]
        /\ UNCHANGED <<newQ, activeQ, marker>>
     \/ /\ newQ[m] # <<>> /\ Head(newQ[m]) = marker[m]
        /\ newQ' = [newQ EXCEPT ![m] = Rotate(@)]
        /\ mpc' = [mpc EXCEPT ![m] = "checkIdle"]
        /\ UNCHANGED <<activeQ, marker>>
     \/ \E x \in CtxIds :
          /\ newQ[m] # <<>> /\ x = Head(newQ[m]) /\ x # marker[m]
          /\ \/ /\ ~ctx[x].active
                /\ newQ' = [newQ EXCEPT ![m] = Tail(@)]
                /\ UNCHANGED <<activeQ, marker>>
             \/ /\ ctx[x].active
                /\ ActiveMonitoringStarted(m, x)
                /\ newQ' = [newQ EXCEPT ![m] = Tail(@)]
                /\ activeQ' = [activeQ EXCEPT ![m] = Append(@, x)]
                /\ UNCHANGED marker
             \/ /\ ctx[x].active
                /\ ~ActiveMonitoringStarted(m, x)
                /\ newQ' = [newQ EXCEPT ![m] = Rotate(@)]
                /\ marker' = [marker EXCEPT ![m] = IF @ = None THEN x ELSE @]
                /\ UNCHANGED activeQ
          /\ UNCHANGED mpc
  /\ UNCHANGED <<hostVars, regVars, loopTime, lastUsed, wake, probeStart,
                 probeElapsed, probeOk, delay, monConn, pend, ctx, callerVars>>

(* release_monitor: remove_matching_values drops the aliases mapped to m. *)
ReleaseMonitor(m) == IF monitorMap = m THEN None ELSE monitorMap

(* No active context and idle for monitor_disposal_time_ms:                *)
(* notify_unused -> release_monitor drops every alias mapping to the      *)
(* monitor (cancelling the running future does nothing), the loop breaks  *)
(* and the finally block closes the monitoring connection and sets        *)
(* _is_stopped.  MonitorService caches are not told.                      *)
Dispose(m) ==
  /\ mpc[m] = "checkIdle" /\ activeQ[m] = <<>>
  /\ now - lastUsed[m] >= MonitorDisposalTime
  /\ monitorMap' = ReleaseMonitor(m)
  /\ monConn' = [monConn EXCEPT ![m] = FALSE]
  /\ mpc' = [mpc EXCEPT ![m] = "stopped"]
  /\ UNCHANGED <<hostVars, cache, newQ, activeQ, marker, loopTime, lastUsed,
                 wake, probeStart, probeElapsed, probeOk, delay, pend, ctx,
                 callerVars>>

(* No active context, not idle long enough: sleep _INACTIVE_SLEEP_MS.      *)
IdleSleep(m) ==
  /\ mpc[m] = "checkIdle" /\ activeQ[m] = <<>>
  /\ now - lastUsed[m] < MonitorDisposalTime
  /\ wake' = [wake EXCEPT ![m] = now + InactiveSleep]
  /\ mpc' = [mpc EXCEPT ![m] = "sleep"]
  /\ UNCHANGED <<hostVars, regVars, newQ, activeQ, marker, loopTime, lastUsed,
                 probeStart, probeElapsed, probeOk, delay, monConn, pend, ctx,
                 callerVars>>

(* _check_host_status: with no open monitoring connection open one (a     *)
(* success counts as available), else run SELECT 1 under the host check   *)
(* timeout; any error or timeout is unavailable.  A dead host fails every *)
(* check and the dialect may or may not report the old connection closed. *)
(* The result and elapsed time are chosen when the check starts; the loop *)
(* resumes when the elapsed time has passed, with delay_ms = -1 and       *)
(* first_added_new_context = None (thread-local, so set here).            *)
CheckHostStatus(m) ==
  /\ mpc[m] = "checkIdle" /\ activeQ[m] # <<>>
  /\ \E e \in ProbeTimes, ok \in BOOLEAN, open \in BOOLEAN :
       /\ \/ ~monConn[m] /\ hostUp /\ open = ok
          \/ ~monConn[m] /\ ~hostUp /\ ~ok /\ ~open
          \/ monConn[m] /\ hostUp /\ open
          \/ monConn[m] /\ ~hostUp /\ ~ok
       /\ probeOk' = [probeOk EXCEPT ![m] = ok]
       /\ monConn' = [monConn EXCEPT ![m] = open]
       /\ probeElapsed' = [probeElapsed EXCEPT ![m] = e]
       /\ wake' = [wake EXCEPT ![m] = now + e]
  /\ probeStart' = [probeStart EXCEPT ![m] = now]
  /\ lastUsed' = [lastUsed EXCEPT ![m] = now]
  /\ ctx' = [x \in CtxIds |-> IF ctx[x].mon = m THEN [ctx[x] EXCEPT !.hits = 0]
                                                ELSE ctx[x]]
  /\ delay' = [delay EXCEPT ![m] = -1]
  /\ marker' = [marker EXCEPT ![m] = None]
  /\ mpc' = [mpc EXCEPT ![m] = "dispatch"]
  /\ UNCHANGED <<hostVars, regVars, newQ, activeQ, loopTime, pend, callerVars>>

(* After the active_contexts loop: sleep _INACTIVE_SLEEP_MS when no       *)
(* context survived, else delay_ms less the check's elapsed time, floored *)
(* at _MIN_HOST_CHECK_TIMEOUT_MS (also kept as the next host check        *)
(* timeout, see the README).                                               *)
SleepDelay(m) ==
  IF delay[m] = -1 THEN InactiveSleep
  ELSE Max2(delay[m] - probeElapsed[m], MinHostCheckTimeout)

(* One turn of the active_contexts loop, up to update_host_status's        *)
(* checks: an inactive context is discarded before the marker is looked  *)
(* at; the marker met again is put back and ends the loop; any other      *)
(* context is taken and update_host_status decides whether the check ended *)
(* after the grace period (total elapsed time > failure_detection_time).  *)
DispatchContext(m) ==
  /\ mpc[m] = "dispatch" /\ now >= wake[m]
  /\ \/ /\ activeQ[m] = <<>>
        /\ wake' = [wake EXCEPT ![m] = now + SleepDelay(m)]
        /\ mpc' = [mpc EXCEPT ![m] = "sleep"]
        /\ UNCHANGED <<activeQ, pend, ctx>>
     \/ \E x \in CtxIds :
          /\ activeQ[m] # <<>> /\ x = Head(activeQ[m])
          /\ \/ /\ ~ctx[x].active
                /\ activeQ' = [activeQ EXCEPT ![m] = Tail(@)]
                /\ UNCHANGED <<mpc, pend, ctx, wake>>
             \/ /\ ctx[x].active /\ x = marker[m]
                /\ activeQ' = [activeQ EXCEPT ![m] = Rotate(@)]
                /\ wake' = [wake EXCEPT ![m] = now + SleepDelay(m)]
                /\ mpc' = [mpc EXCEPT ![m] = "sleep"]
                /\ UNCHANGED <<pend, ctx>>
             \/ /\ ctx[x].active /\ x # marker[m]
                /\ activeQ' = [activeQ EXCEPT ![m] = Tail(@)]
                /\ pend' = [pend EXCEPT ![m] =
                     [c |-> x,
                      apply |-> probeStart[m] + probeElapsed[m] - ctx[x].start
                                  > FailureDetectionTime]]
                /\ ctx' = [ctx EXCEPT ![x].hits = IF @ < 2 THEN @ + 1 ELSE 2]
                /\ mpc' = [mpc EXCEPT ![m] = "apply"]
                /\ UNCHANGED wake
  /\ UNCHANGED <<hostVars, regVars, newQ, marker, loopTime, lastUsed,
                 probeStart, probeElapsed, probeOk, delay, monConn, callerVars>>

(* _abort_connection acts only on a context still active; it is called    *)
(* once the check failed (down) and the unavailable period passed the     *)
(* threshold (exceeded).                                                   *)
AbortConnection(down, exceeded, active) == down /\ exceeded /\ active

(* A variant that re-enqueues every active context, verdict or not.        *)
KeepMonitoring_IgnoringVerdict(c) == c.active

(* The active_contexts loop puts a context back only if it is still active *)
(* and its host still available.                                           *)
KeepMonitoring(c) == c.active /\ ~c.unavailable

(* _set_host_availability when the grace period is over: an available     *)
(* host resets the failure state; an unavailable one starts or extends the *)
(* unavailable period and, once it is longer than interval * count, sets   *)
(* the verdict and calls _abort_connection, which aborts only while the   *)
(* context is still active.  Then the loop re-reads the context: one still *)
(* active with no verdict is put back, may become the marker, and lowers   *)
(* delay_ms to its interval.                                               *)
ApplyHostStatus(m) ==
  LET x     == pend[m].c
      o     == ctx[x].mon
      end   == probeStart[m] + probeElapsed[m]
      since == IF ctx[x].since <= 0 THEN probeStart[m] ELSE ctx[x].since
      down  == pend[m].apply /\ ~probeOk[m]
      flag  == down /\ end - since > MaxUnavailableDuration
      abort == AbortConnection(down, end - since > MaxUnavailableDuration,
                               ctx[x].active)
      upd   == [ctx[x] EXCEPT
                  !.since = IF ~pend[m].apply THEN @
                            ELSE IF probeOk[m] THEN 0 ELSE since,
                  !.unavailable = IF ~pend[m].apply THEN @
                                  ELSE IF probeOk[m] THEN FALSE
                                  ELSE @ \/ flag,
                  !.aborts = IF abort THEN @ + 1 ELSE @]
      keep  == KeepMonitoring(upd)
  IN /\ mpc[m] = "apply"
     /\ ctx' = [ctx EXCEPT ![x] = upd]
     /\ conn' = [conn EXCEPT ![Owner(x)] =
                   IF abort /\ @ = "open" THEN "aborted" ELSE @]
     /\ activeQ' = [activeQ EXCEPT ![m] = IF keep THEN Append(@, x) ELSE @]
     /\ marker' = [marker EXCEPT ![m] = IF keep /\ @ = None THEN x ELSE @]
     /\ delay' = [delay EXCEPT ![m] =
                   IF keep /\ (@ = -1 \/ @ > FailureDetectionInterval)
                   THEN FailureDetectionInterval ELSE @]
     /\ pend' = [pend EXCEPT ![m] = [c |-> None, apply |-> FALSE]]
     /\ mpc' = [mpc EXCEPT ![m] = "dispatch"]
     /\ UNCHANGED <<hostVars, regVars, newQ, loopTime, lastUsed, wake,
                    probeStart, probeElapsed, probeOk, monConn, cpc, cctx,
                    cmon, ncalls, callResult>>

(* The sleep ends: top of the loop again.                                  *)
WakeUp(m) ==
  /\ mpc[m] = "sleep" /\ now >= wake[m]
  /\ mpc' = [mpc EXCEPT ![m] = "new"]
  /\ loopTime' = [loopTime EXCEPT ![m] = now]
  /\ marker' = [marker EXCEPT ![m] = None]
  /\ UNCHANGED <<hostVars, regVars, newQ, activeQ, lastUsed, wake, probeStart,
                 probeElapsed, probeOk, delay, monConn, pend, ctx, callerVars>>

-----------------------------------------------------------------------------
Next ==
  \/ Tick \/ HostFlips
  \/ \E c \in Callers :
       \/ ResolveMonitor(c) \/ StartMonitoring(c) \/ ExecuteFunc(c)
       \/ StopMonitoring(c) \/ CheckVerdict(c)
  \/ \E m \in Monitors :
       \/ RunStart(m) \/ ProcessNewContexts(m) \/ Dispose(m) \/ IdleSleep(m)
       \/ CheckHostStatus(m) \/ DispatchContext(m) \/ ApplyHostStatus(m)
       \/ WakeUp(m)

Spec == Init /\ [][Next]_vars

-----------------------------------------------------------------------------
(* Properties.                                                             *)

(* The refinement mapping onto ContextLifecycle: a context is submitted   *)
(* once start_monitoring gave it a monitor, stopped when stop_monitoring   *)
(* cleared is_active, and done once execute's finally block has produced   *)
(* the call's outcome.                                                     *)
CtxStatus(x) ==
  IF ctx[x].mon = None THEN "unsubmitted"
  ELSE IF ctx[x].active THEN "active"
  ELSE IF ctx[x].outcome = "none" THEN "stopped"
  ELSE "done"

Lifecycle == INSTANCE ContextLifecycle WITH
  Ctxs    <- CtxIds,
  status  <- [x \in CtxIds |-> CtxStatus(x)],
  verdict <- [x \in CtxIds |-> ctx[x].unavailable],
  aborts  <- [x \in CtxIds |-> ctx[x].aborts]

(* HostMonitoring implements ContextLifecycle: every context's verdict,   *)
(* once set by update_host_status, is never reset by a later successful   *)
(* check; the monitor calls abort_connection at most once per context,    *)
(* only in the step that gives the verdict and only while the context is   *)
(* active; and no verdict comes before start_monitoring.                   *)
ContextRefinement == Lifecycle!Spec

(* No context is judged on a status check that started before its grace   *)
(* period ended: the unavailable period of a context never starts earlier  *)
(* than start + failure_detection_time.  This needs both the new_contexts  *)
(* loop's move rule (by the time read at the top of the loop) and          *)
(* update_host_status's elapsed-time test.                                 *)
GraceRespected ==
  \A x \in CtxIds :
    ctx[x].since # 0 => ctx[x].since >= ctx[x].start + FailureDetectionTime

(* Every context gets at most one update_host_status per status check     *)
(* (the first_added_new_context marker is there to ensure it).            *)
ProbedOncePerCheck == \A x \in CtxIds : ctx[x].hits <= 1

(* A call in flight is watched by a monitor whose loop is still running.   *)
MonitoredByLiveMonitor ==
  \A c \in Callers :
    cpc[c] = "executing" => mpc[ctx[cctx[c]].mon] # "stopped"

=============================================================================
