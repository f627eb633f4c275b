--------------------------- MODULE MonitorRegistry ---------------------------
(***************************************************************************)
(* MonitoringThreadContainer and MonitorService of                         *)
(* src/aws_wrapper/host_monitoring_plugin.py, across several hosts, alias  *)
(* sets and MonitorService instances.                                      *)
(*                                                                         *)
(* Each MonitorService s belongs to one plugin.  Each of its calls goes to *)
(* a target: a host, with the alias set the plugin knows it by.  The       *)
(* plugin's connection may move between targets from one call to the      *)
(* next.  The container is the class-level state every service shares:    *)
(* _monitor_map, _tasks_map, _available_monitors and the                   *)
(* ThreadPoolExecutor, with MaxWorkers workers.  A Monitor's loop is       *)
(* reduced to what the registry sees of it: it is submitted, waits for a   *)
(* worker, runs while contexts are queued, disposes itself through         *)
(* notify_unused when idle, and sets _is_stopped in its finally block.     *)
(* Probing and verdicts are the subject of HostMonitoring.tla.             *)
(*                                                                         *)
(* get_or_create_monitor is split where another thread can interleave:     *)
(* the alias scan (494-498), compute_if_absent (516, atomic under the      *)
(* dict's lock, with its inner function 500-513) and the put_if_absent     *)
(* loop (521-522).                                                         *)
(***************************************************************************)
EXTENDS Integers, Sequences, FiniteSets, Functions

CONSTANTS
    Services,      \* MonitorService instances, one per plugin
    Hosts,         \* database hosts
    Aliases,       \* host aliases
    Targets,       \* set of [host |-> h, aliases |-> the all_aliases of h]
    Monitors,      \* Monitor object identities
    MaxWorkers,    \* size of the shared ThreadPoolExecutor
    MaxFlips,      \* bound on host status changes
    MaxNotifies,   \* bound on notify_host_list_changed calls
    None

ASSUME /\ \A t \in Targets : t.host \in Hosts /\ t.aliases \in SUBSET Aliases \ {{}}
       /\ MaxWorkers \in Nat \ {0}

VARIABLES
    monitorMap,   \* _monitor_map: alias -> Monitor
    tasks,        \* domain of _tasks_map
    future,       \* state of each Monitor's future in the executor
    available,    \* _available_monitors queue
    mhost,        \* host_info a Monitor was created for (None: not created)
    stopped,      \* _is_stopped event
    queued,       \* services whose context sits in the Monitor's queues
    spc,          \* where each service's start_monitoring / call is
    tgt,          \* target of the service's current connection
    anyAlias,     \* any_alias chosen by the scan
    mon,          \* monitor local of get_or_create_monitor / the context's
    cache,        \* MonitorService._cached_monitor
    cacheAliases, \* MonitorService._cached_monitor_aliases
    mhi,          \* HostMonitoringPlugin._monitoring_host_info
    hostUp, flips, notifies

registryVars == <<monitorMap, tasks, future, available, mhost, stopped>>
callerVars == <<spc, tgt, anyAlias, mon, cache, cacheAliases, mhi>>
envVars == <<hostUp, flips, notifies>>
vars == <<registryVars, queued, callerVars, envVars>>

MonitorOrNone == Monitors \cup {None}

\* "none": no future; "exiting": the loop broke out after notify_unused
\* and its finally block has not run yet.
FutureStates == {"none", "pending", "running", "exiting", "done"}

Running == {m \in Monitors : future[m] \in {"running", "exiting"}}

TypeOK ==
    /\ monitorMap \in [Aliases -> MonitorOrNone]
    /\ tasks \subseteq Monitors
    /\ future \in [Monitors -> FutureStates]
    /\ available \in Seq(Monitors)
    /\ mhost \in [Monitors -> Hosts \cup {None}]
    /\ stopped \in [Monitors -> BOOLEAN]
    /\ queued \in [Monitors -> SUBSET Services]
    /\ spc \in [Services -> {"idle", "scan", "compute", "put", "submit", "calling"}]
    /\ tgt \in [Services -> Targets \cup {None}]
    /\ anyAlias \in [Services -> Aliases \cup {None}]
    /\ mon \in [Services -> MonitorOrNone]
    /\ cache \in [Services -> MonitorOrNone]
    /\ cacheAliases \in [Services -> SUBSET Aliases \cup {None}]
    /\ mhi \in [Services -> Targets \cup {None}]
    /\ Cardinality(Running) <= MaxWorkers

Init ==
    /\ monitorMap = [a \in Aliases |-> None]
    /\ tasks = {}
    /\ future = [m \in Monitors |-> "none"]
    /\ available = << >>
    /\ mhost = [m \in Monitors |-> None]
    /\ stopped = [m \in Monitors |-> FALSE]
    /\ queued = [m \in Monitors |-> {}]
    /\ spc = [s \in Services |-> "idle"]
    /\ tgt = [s \in Services |-> None]
    /\ anyAlias = [s \in Services |-> None]
    /\ mon = [s \in Services |-> None]
    /\ cache = [s \in Services |-> None]
    /\ cacheAliases = [s \in Services |-> None]
    /\ mhi = [s \in Services |-> None]
    /\ hostUp = [h \in Hosts |-> TRUE]
    /\ flips = 0
    /\ notifies = 0

\* The aliases any target gives host h.
HostAliases(h) == UNION {t.aliases : t \in {u \in Targets : u.host = h}}

\* _monitor_map with every entry whose value is m removed
\* (remove_if / remove_matching_values).
Unmapped(map, m) == [a \in Aliases |-> IF map[a] = m THEN None ELSE map[a]]

\* put_if_absent(alias, m) for every alias of the set.
PutAll(map, as, m) == [a \in Aliases |-> IF a \in as /\ map[a] = None THEN m ELSE map[a]]

(***************************************************************************)
(* Callers: MonitorService.start_monitoring and stop_monitoring.           *)
(***************************************************************************)

\* _get_monitoring_host_info: the cached value, or, when there is none,
\* the host of the current connection (a cluster endpoint resolved to its
\* instance), which may be any target.
MonitoringHostInfo(s, cur) == IF mhi[s] = None THEN cur ELSE mhi[s]

StartMonitoring(s) ==
    /\ spc[s] = "idle"
    /\ \E cur \in Targets :
         LET t == MonitoringHostInfo(s, cur)
         IN /\ mhi' = [mhi EXCEPT ![s] = t]
            /\ tgt' = [tgt EXCEPT ![s] = t]
            /\ IF cache[s] # None /\ cacheAliases[s] = t.aliases
                  THEN /\ mon' = [mon EXCEPT ![s] = cache[s]]
                       /\ spc' = [spc EXCEPT ![s] = "submit"]
                  ELSE /\ spc' = [spc EXCEPT ![s] = "scan"]
                       /\ UNCHANGED mon
    /\ UNCHANGED <<registryVars, queued, anyAlias, cache, cacheAliases, envVars>>

\* The alias scan: the first alias, in the frozenset's iteration order,
\* that maps to a monitor wins; if none does, any_alias is the last alias
\* scanned.  Every alias can come first or last.
Scan(s) ==
    /\ spc[s] = "scan"
    /\ IF \E a \in tgt[s].aliases : monitorMap[a] # None
          THEN \E a \in tgt[s].aliases :
                 /\ monitorMap[a] # None
                 /\ mon' = [mon EXCEPT ![s] = monitorMap[a]]
                 /\ spc' = [spc EXCEPT ![s] = "put"]
                 /\ UNCHANGED anyAlias
          ELSE \E a \in tgt[s].aliases :
                 /\ anyAlias' = [anyAlias EXCEPT ![s] = a]
                 /\ spc' = [spc EXCEPT ![s] = "compute"]
                 /\ UNCHANGED mon
    /\ UNCHANGED <<registryVars, queued, tgt, cache, cacheAliases, mhi, envVars>>

\* compute_if_absent finds the key already bound by another caller.
ComputeFound(s, a) ==
    /\ monitorMap[a] # None
    /\ mon' = [mon EXCEPT ![s] = monitorMap[a]]
    /\ UNCHANGED registryVars

\* The inner function takes the head of _available_monitors and returns
\* it if it is not stopped, whatever host it was created for.
ReuseAvailable(s, a) ==
    /\ monitorMap[a] = None
    /\ available # << >>
    /\ ~stopped[Head(available)]
    /\ mon' = [mon EXCEPT ![s] = Head(available)]
    /\ monitorMap' = [monitorMap EXCEPT ![a] = Head(available)]
    /\ available' = Tail(available)
    /\ UNCHANGED <<tasks, future, mhost, stopped>>

\* Otherwise a stopped head is dropped and its task entry cancelled
\* (compute_if_present with _cancel removes the entry), and the supplier's
\* fresh Monitor for the caller's host is submitted to the executor.
CreateMonitor(s, a) ==
    /\ monitorMap[a] = None
    /\ IF available = << >> THEN TRUE ELSE stopped[Head(available)]
    /\ \E m \in Monitors :
         /\ future[m] = "none"
         /\ LET dropped == IF available = << >> THEN {} ELSE {Head(available)}
            IN /\ tasks' = (tasks \ dropped) \cup {m}
               /\ available' = IF available = << >> THEN available ELSE Tail(available)
         /\ future' = [future EXCEPT ![m] = "pending"]
         /\ mhost' = [mhost EXCEPT ![m] = tgt[s].host]
         /\ stopped' = [stopped EXCEPT ![m] = FALSE]
         /\ mon' = [mon EXCEPT ![s] = m]
         /\ monitorMap' = [monitorMap EXCEPT ![a] = m]

\* compute_if_absent(any_alias, _get_or_create_monitor), atomic under the
\* dict's lock.
Compute(s) ==
    /\ spc[s] = "compute"
    /\ \/ ComputeFound(s, anyAlias[s])
       \/ ReuseAvailable(s, anyAlias[s])
       \/ CreateMonitor(s, anyAlias[s])
    /\ spc' = [spc EXCEPT ![s] = "put"]
    /\ anyAlias' = [anyAlias EXCEPT ![s] = None]
    /\ UNCHANGED <<queued, tgt, cache, cacheAliases, mhi, envVars>>

\* put_if_absent for every alias, then the service caches the monitor
\* under the alias set.
Put(s) ==
    /\ spc[s] = "put"
    /\ monitorMap' = PutAll(monitorMap, tgt[s].aliases, mon[s])
    /\ cache' = [cache EXCEPT ![s] = mon[s]]
    /\ cacheAliases' = [cacheAliases EXCEPT ![s] = tgt[s].aliases]
    /\ spc' = [spc EXCEPT ![s] = "submit"]
    /\ UNCHANGED <<tasks, future, available, mhost, stopped, queued, tgt,
                   anyAlias, mon, mhi, envVars>>

\* A new MonitoringContext is put on the monitor's new_contexts queue and
\* the call proceeds.
Submit(s) ==
    /\ spc[s] = "submit"
    /\ queued' = [queued EXCEPT ![mon[s]] = @ \cup {s}]
    /\ spc' = [spc EXCEPT ![s] = "calling"]
    /\ UNCHANGED <<registryVars, tgt, anyAlias, mon, cache, cacheAliases, mhi, envVars>>

\* The call returns and stop_monitoring deactivates the context; the loop
\* drops it at its next dequeue, which the model merges into this step.
StopMonitoring(s) ==
    /\ spc[s] = "calling"
    /\ queued' = [queued EXCEPT ![mon[s]] = @ \ {s}]
    /\ spc' = [spc EXCEPT ![s] = "idle"]
    /\ mon' = [mon EXCEPT ![s] = None]
    /\ UNCHANGED <<registryVars, tgt, anyAlias, cache, cacheAliases, mhi, envVars>>

\* stop_monitoring_host(aliases): the first alias bound to a monitor
\* wins; that monitor's queues are cleared and reset_resource unbinds
\* every alias bound to it and appends it to _available_monitors, while
\* its loop keeps running.
StopMonitoringHost(as) ==
    IF \E a \in as : monitorMap[a] # None
       THEN \E a \in as :
              /\ monitorMap[a] # None
              /\ queued' = [queued EXCEPT ![monitorMap[a]] = {}]
              /\ monitorMap' = Unmapped(monitorMap, monitorMap[a])
              /\ available' = Append(available, monitorMap[a])
       ELSE UNCHANGED <<queued, monitorMap, available>>

\* The events the plugin service reports for host h: keyed by host url
\* (an alias of h), WENT_DOWN while h is down, another change otherwise.
Changes(h) ==
    [a \in HostAliases(h) |-> IF hostUp[h] THEN {"NODE_CHANGED"} ELSE {"WENT_DOWN"}]

\* notify_host_list_changed(changes) on service s's plugin, from the
\* thread that refreshed the topology, at any point of a call.  The event
\* test looks for WENT_DOWN / HOST_DELETED among the keys of changes; on
\* success the monitoring host info (computed first if unset) is stopped.
\* The cached monitoring host info is dropped in any case.
NotifyHostListChanged(s, h) ==
    /\ notifies < MaxNotifies
    /\ notifies' = notifies + 1
    /\ LET changes == Changes(h)
       IN IF "WENT_DOWN" \in DOMAIN changes \/ "HOST_DELETED" \in DOMAIN changes
             THEN \E cur \in Targets :
                    StopMonitoringHost(MonitoringHostInfo(s, cur).aliases)
             ELSE UNCHANGED <<queued, monitorMap, available>>
    /\ mhi' = [mhi EXCEPT ![s] = None]
    /\ UNCHANGED <<tasks, future, mhost, stopped, spc, tgt, anyAlias, mon,
                   cache, cacheAliases, hostUp, flips>>

(***************************************************************************)
(* Monitor loops on the executor.                                          *)
(***************************************************************************)

\* Mutant: the executor starts a loop whatever the number of busy workers.
RunTask_IgnoringPoolSize(m) ==
    /\ future[m] = "pending"
    /\ future' = [future EXCEPT ![m] = "running"]
    /\ stopped' = [stopped EXCEPT ![m] = FALSE]
    /\ UNCHANGED <<monitorMap, tasks, available, mhost, queued, callerVars, envVars>>

\* A submitted run() starts when a worker of the pool is free; run()
\* clears _is_stopped first.
RunTask(m) ==
    /\ future[m] = "pending"
    /\ Cardinality(Running) < MaxWorkers
    /\ future' = [future EXCEPT ![m] = "running"]
    /\ stopped' = [stopped EXCEPT ![m] = FALSE]
    /\ UNCHANGED <<monitorMap, tasks, available, mhost, queued, callerVars, envVars>>

\* The idle check with no active context: notify_unused calls
\* release_monitor, which unbinds every alias of the monitor and removes
\* its _tasks_map entry (cancelling a running future does nothing), and
\* the loop breaks.  The disposal time is abstracted: it may have elapsed
\* whenever the queues are empty.
Dispose(m) ==
    /\ future[m] = "running"
    /\ queued[m] = {}
    /\ monitorMap' = Unmapped(monitorMap, m)
    /\ tasks' = tasks \ {m}
    /\ future' = [future EXCEPT ![m] = "exiting"]
    /\ UNCHANGED <<available, mhost, stopped, queued, callerVars, envVars>>

\* The finally block closes the monitoring connection and sets
\* _is_stopped; the worker is free again.
ExitLoop(m) ==
    /\ future[m] = "exiting"
    /\ future' = [future EXCEPT ![m] = "done"]
    /\ stopped' = [stopped EXCEPT ![m] = TRUE]
    /\ UNCHANGED <<monitorMap, tasks, available, mhost, queued, callerVars, envVars>>

\* A finished Monitor no structure refers to any more is garbage; its
\* identity may stand for a new object.  This keeps the set of identities
\* finite and models no code.
Collect(m) ==
    /\ future[m] = "done"
    /\ m \notin Range(monitorMap) \cup Range(available) \cup tasks
    /\ \A s \in Services : cache[s] # m /\ mon[s] # m
    /\ queued[m] = {}
    /\ future' = [future EXCEPT ![m] = "none"]
    /\ mhost' = [mhost EXCEPT ![m] = None]
    /\ stopped' = [stopped EXCEPT ![m] = FALSE]
    /\ UNCHANGED <<monitorMap, tasks, available, queued, callerVars, envVars>>

\* A host goes down or comes back.
HostFlip(h) ==
    /\ flips < MaxFlips
    /\ hostUp' = [hostUp EXCEPT ![h] = ~@]
    /\ flips' = flips + 1
    /\ UNCHANGED <<registryVars, queued, callerVars, notifies>>

CallerStep(s) ==
    \/ Scan(s) \/ Compute(s) \/ Put(s) \/ Submit(s) \/ StopMonitoring(s)

LoopStep(m) == RunTask(m) \/ Dispose(m) \/ ExitLoop(m)

Next ==
    \/ \E s \in Services : StartMonitoring(s) \/ CallerStep(s)
    \/ \E s \in Services, h \in Hosts : NotifyHostListChanged(s, h)
    \/ \E m \in Monitors : LoopStep(m) \/ Collect(m)
    \/ \E h \in Hosts : HostFlip(h)

Spec == Init /\ [][Next]_vars

\* Started calls run to completion and the executor runs every loop step
\* that is enabled.  Starting a call, host events and garbage collection
\* are not forced.
FairSpec ==
    /\ Spec
    /\ \A s \in Services : WF_vars(CallerStep(s))
    /\ \A m \in Monitors : WF_vars(LoopStep(m))

-----------------------------------------------------------------------------
(***************************************************************************)
(* Properties                                                              *)
(***************************************************************************)


\* The spec's registry invariant: all aliases of a host map to the same
\* Monitor, or none.  get_or_create_monitor scans, computes under
\* any_alias and put_if_absents in three separate steps.
AliasesAgree ==
    \A h \in Hosts :
        Cardinality({monitorMap[a] : a \in HostAliases(h)} \ {None}) <= 1

\* Spec section 4.6: when the plugin is told that its monitoring host went
\* down, it calls stop_monitoring_host with that host's aliases, so the
\* monitor bound to them is reset and no longer bound.
MonitoringStopsOnHostDown ==
    [][\A s \in Services, h \in Hosts :
         /\ NotifyHostListChanged(s, h)
         /\ ~hostUp[h]
         /\ mhi[s] # None
         /\ mhi[s].host = h
         => \A a \in mhi[s].aliases :
              monitorMap[a] # None => monitorMap'[a] # monitorMap[a]]_vars

\* The spec's "exactly one loop handle per active Monitor": a monitor an
\* alias is bound to has its _tasks_map entry and a loop that has not
\* broken out, so contexts submitted to it will be processed.
MappedMonitorLive ==
    \A a \in Aliases :
        monitorMap[a] # None =>
            /\ monitorMap[a] \in tasks
            /\ future[monitorMap[a]] \in {"pending", "running"}

LoopEventuallyRuns ==
    \A m \in Monitors : future[m] = "pending" ~> future[m] # "pending"
=============================================================================
