-------------------------- MODULE ContainerLifecycle --------------------------
(***************************************************************************)
(* The usage-counted singleton MonitoringThreadContainer of                *)
(* src/aws_wrapper/host_monitoring_plugin.py: __new__ (478-486) and        *)
(* release_instance / _release_resources (543-562), driven by each         *)
(* plugin's MonitorService, which constructs the container in __init__     *)
(* and releases it in release_resources.                                   *)
(*                                                                         *)
(* Each plugin runs __new__ and later release_instance once, one bytecode  *)
(* step of the shared state per action: the unlocked _instance test, the   *)
(* class RLock, the test under it, the AtomicInt operations, and the       *)
(* final read of _instance that __new__ returns.  An instance object is a  *)
(* number; 0 stands for None.                                              *)
(***************************************************************************)
EXTENDS Integers, FiniteSets

CONSTANTS
    Plugins,   \* HostMonitoringPlugin instances, each with a MonitorService
    NoOwner

VARIABLES
    instance,  \* MonitoringThreadContainer._instance (0: None)
    created,   \* number of instance objects created so far
    count,     \* _usage_count
    lock,      \* holder of the class RLock
    ppc,       \* where each plugin is
    held,      \* the container its MonitorService holds (0: None)
    clears     \* number of _release_resources runs

vars == <<instance, created, count, lock, ppc, held, clears>>

PcStates == {"init", "lock", "recheck", "setcount", "incr", "ret", "live",
             "dec", "rlock", "rrecheck", "gone"}

TypeOK ==
    /\ instance \in 0..Cardinality(Plugins)
    /\ created \in 0..Cardinality(Plugins)
    /\ count \in -Cardinality(Plugins)..Cardinality(Plugins)
    /\ lock \in Plugins \cup {NoOwner}
    /\ ppc \in [Plugins -> PcStates]
    /\ held \in [Plugins -> 0..Cardinality(Plugins)]
    /\ clears \in Nat

Init ==
    /\ instance = 0
    /\ created = 0
    /\ count = 0
    /\ lock = NoOwner
    /\ ppc = [p \in Plugins |-> "init"]
    /\ held = [p \in Plugins |-> 0]
    /\ clears = 0

Goto(p, pc) == ppc' = [ppc EXCEPT ![p] = pc]

(***************************************************************************)
(* __new__, called by MonitorService.__init__.                             *)
(***************************************************************************)

\* if cls._instance is None: the unlocked test.
NewCheck(p) ==
    /\ ppc[p] = "init"
    /\ Goto(p, IF instance = 0 THEN "lock" ELSE "incr")
    /\ UNCHANGED <<instance, created, count, lock, held, clears>>

\* with cls._lock: (blocks while another thread holds the lock).
NewLock(p) ==
    /\ ppc[p] = "lock"
    /\ lock = NoOwner
    /\ lock' = p
    /\ Goto(p, "recheck")
    /\ UNCHANGED <<instance, created, count, held, clears>>

\* if not cls._instance: create it (483); otherwise leave the lock.
NewRecheck(p) ==
    /\ ppc[p] = "recheck"
    /\ IF instance = 0
          THEN /\ instance' = created + 1
               /\ created' = created + 1
               /\ Goto(p, "setcount")
               /\ UNCHANGED lock
          ELSE /\ lock' = NoOwner
               /\ Goto(p, "incr")
               /\ UNCHANGED <<instance, created>>
    /\ UNCHANGED <<count, held, clears>>

\* cls._usage_count.set(0), still under the lock, a statement after the
\* new instance became visible to the unlocked test at 480.
NewSetCount(p) ==
    /\ ppc[p] = "setcount"
    /\ count' = 0
    /\ lock' = NoOwner
    /\ Goto(p, "incr")
    /\ UNCHANGED <<instance, created, held, clears>>

\* cls._usage_count.get_and_increment(), outside the lock.
NewIncrement(p) ==
    /\ ppc[p] = "incr"
    /\ count' = count + 1
    /\ Goto(p, "ret")
    /\ UNCHANGED <<instance, created, lock, held, clears>>

\* return cls._instance: read again, after the increment.
NewReturn(p) ==
    /\ ppc[p] = "ret"
    /\ held' = [held EXCEPT ![p] = instance]
    /\ Goto(p, "live")
    /\ UNCHANGED <<instance, created, count, lock, clears>>

(***************************************************************************)
(* release_instance, called by MonitorService.release_resources.           *)
(***************************************************************************)

\* release_instance returns at once when _instance is None.
ReleaseInstanceCheck(p) == Goto(p, IF instance = 0 THEN "gone" ELSE "dec")

\* The plugin's release_resources drops its service's container
\* reference and calls release_instance.
ReleaseCheck(p) ==
    /\ ppc[p] = "live"
    /\ held' = [held EXCEPT ![p] = 0]
    /\ ReleaseInstanceCheck(p)
    /\ UNCHANGED <<instance, created, count, lock, clears>>

\* decrement_and_get() <= 0 goes on to the lock.
ReleaseDecrement(p) ==
    /\ ppc[p] = "dec"
    /\ count' = count - 1
    /\ Goto(p, IF count - 1 <= 0 THEN "rlock" ELSE "gone")
    /\ UNCHANGED <<instance, created, lock, held, clears>>

ReleaseLock(p) ==
    /\ ppc[p] = "rlock"
    /\ lock = NoOwner
    /\ lock' = p
    /\ Goto(p, "rrecheck")
    /\ UNCHANGED <<instance, created, count, held, clears>>

\* Under the lock, an existing instance has its resources released (the
\* class-level map, tasks and available queue are cleared), _instance
\* becomes None and the count 0.
ReleaseRecheck(p) ==
    /\ ppc[p] = "rrecheck"
    /\ IF instance # 0
          THEN /\ instance' = 0
               /\ count' = 0
               /\ clears' = clears + 1
          ELSE UNCHANGED <<instance, count, clears>>
    /\ lock' = NoOwner
    /\ Goto(p, "gone")
    /\ UNCHANGED <<created, held>>

\* Every plugin has released its service: the program has nothing left to
\* do with the container.
Terminated ==
    /\ \A p \in Plugins : ppc[p] = "gone"
    /\ UNCHANGED vars

Step(p) ==
    \/ NewCheck(p) \/ NewLock(p) \/ NewRecheck(p) \/ NewSetCount(p)
    \/ NewIncrement(p)
    \/ NewReturn(p) \/ ReleaseCheck(p) \/ ReleaseDecrement(p)
    \/ ReleaseLock(p) \/ ReleaseRecheck(p)

Next == (\E p \in Plugins : Step(p)) \/ Terminated

Spec == Init /\ [][Next]_vars

-----------------------------------------------------------------------------
(***************************************************************************)
(* Properties                                                              *)
(***************************************************************************)

\* Every plugin that has constructed its MonitorService and not yet
\* released it holds the current container, whose resources have not been
\* released under it: the usage count is meant to keep _release_resources
\* from running while any MonitorService still uses the container.
LiveServicesHoldCurrentContainer ==
    \A p \in Plugins : ppc[p] = "live" => held[p] # 0 /\ held[p] = instance
=============================================================================
