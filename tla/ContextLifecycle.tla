--------------------------- MODULE ContextLifecycle ---------------------------
(***************************************************************************)
(* What a MonitoringContext promises its caller, with time, probes and     *)
(* queues left out.  A context is submitted by start_monitoring, stopped   *)
(* by stop_monitoring and finished when execute has looked at its verdict. *)
(* From submission on, the monitor may judge the host unavailable for it,  *)
(* once and for good; it aborts the caller's connection once, only in that *)
(* same step, and only while the context is still active.                  *)
(* HostMonitoring.tla implements this specification (ContextRefinement    *)
(* there).                                                                 *)
(***************************************************************************)
EXTENDS Naturals

CONSTANT Ctxs

VARIABLES
    status,    \* "unsubmitted", "active", "stopped" or "done"
    verdict,   \* is_host_unavailable
    aborts     \* how many times the monitor called abort_connection for it

vars == <<status, verdict, aborts>>

TypeOK ==
    /\ status \in [Ctxs -> {"unsubmitted", "active", "stopped", "done"}]
    /\ verdict \in [Ctxs -> BOOLEAN]
    /\ aborts \in [Ctxs -> 0..1]

Init ==
    /\ status = [x \in Ctxs |-> "unsubmitted"]
    /\ verdict = [x \in Ctxs |-> FALSE]
    /\ aborts = [x \in Ctxs |-> 0]

Submit(x) ==
    /\ status[x] = "unsubmitted"
    /\ status' = [status EXCEPT ![x] = "active"]
    /\ UNCHANGED <<verdict, aborts>>

Stop(x) ==
    /\ status[x] = "active"
    /\ status' = [status EXCEPT ![x] = "stopped"]
    /\ UNCHANGED <<verdict, aborts>>

Finish(x) ==
    /\ status[x] = "stopped"
    /\ status' = [status EXCEPT ![x] = "done"]
    /\ UNCHANGED <<verdict, aborts>>

\* The verdict may land at any time after submission, even after the caller
\* stopped the context; the one abort comes with it only while it is
\* active, and there is no other.
Judge(x) ==
    /\ status[x] # "unsubmitted"
    /\ ~verdict[x]
    /\ verdict' = [verdict EXCEPT ![x] = TRUE]
    /\ aborts' = [aborts EXCEPT ![x] = IF status[x] = "active" THEN 1 ELSE 0]
    /\ UNCHANGED status

Next == \E x \in Ctxs : Submit(x) \/ Stop(x) \/ Finish(x) \/ Judge(x)

Spec == Init /\ [][Next]_vars
=============================================================================
