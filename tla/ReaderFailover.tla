--------------------------- MODULE ReaderFailover ---------------------------
(***************************************************************************)
(* ReaderFailoverHandlerImpl (src/aws_wrapper/reader_failover_handler.py): *)
(* one handler object serving a sequence of failover and                   *)
(* get_reader_connection calls.  A failover call runs the internal task on *)
(* a worker under max_failover_timeout_sec; the task walks a priority list *)
(* of hosts in batches of two, each batch racing two attempt_connection    *)
(* workers under timeout_sec.  One Event, _timeout_event, is shared by the *)
(* handler's calls, batches and force_connect calls.  Wall-clock timeouts  *)
(* are actions that may fire while the awaited work is unfinished; the     *)
(* fixed 1 s sleeps are left out since nothing else waits on them.         *)
(***************************************************************************)
EXTENDS Integers, Sequences, FiniteSets, SequencesExt

CONSTANTS
  Hosts,    \* HostInfo objects of the cluster (url identifies them)
  MaxOps,   \* failover / get_reader_connection calls made on the handler
  Handlers, Dialects, DialectHandler, Errors, NetworkErrors,
            \* the ExceptionManager's handlers and their answers
  Dialect,  \* plugin_service.dialect (a Dialect, or None)
  None      \* model value: Python None

ASSUME MaxOps \in Nat /\ Hosts # {}

VARIABLES
  strict,    \* _strict_reader_failover (from the failover mode property)
  role,      \* roles in plugin_service.hosts, changed by a refresh
  avail,     \* availability the plugin service records for each host
  event,     \* _timeout_event is set
  nops,      \* calls made so far
  op,        \* the call in progress: "none", "failover" or "reader"
  fpc,       \* the failover caller thread: "idle", "waiting", "joining"
  tpc,       \* the internal task / host-group loop
  topo,      \* the task's topology argument (roles as the task sees them)
  cur,       \* failover's current_host
  prio,      \* hosts_by_priority of the current pass
  bi,        \* batch index i (1-based)
  batch,     \* hosts of the current batch
  att,       \* host -> its attempt_connection worker in this batch
  bres,      \* the batch's result
  tres,      \* the result the task (or host-group loop) returns
  conns,     \* host -> the last connection an attempt opened to it
  tried,     \* hosts attempted with the cancel signal clear, this call
  errSeen,   \* a batch returned a non-network error, this call
  timedOut,  \* failover's max timeout expired, this call
  ret,       \* the result of the last call
  customHandler  \* ExceptionManager.custom_handler (process-wide)

failoverVars == <<strict, role, avail, event, nops, op, fpc, tpc, topo, cur,
                  prio, bi, batch, att, bres, tres, conns, tried, errSeen,
                  timedOut, ret>>
vars == <<failoverVars, customHandler>>

EM == INSTANCE ExceptionManager

(* plugin_service.is_network_exception(ex) asks the ExceptionManager with  *)
(* the service's current dialect.                                          *)
IsNetworkException(e) == EM!IsNetworkException(Dialect, e)

Roles == {"WRITER", "READER"}
Avails == {"AVAILABLE", "NOT_AVAILABLE"}

(* Topologies with at most one writer (none while a failover is underway). *)
RoleFns == {r \in [Hosts -> Roles] :
              Cardinality({h \in Hosts : r[h] = "WRITER"}) <= 1}

(* ReaderFailoverResult(connection, is_connected, new_host, exception):   *)
(* is_connected exactly when host # None.                                 *)
Result == [host : Hosts \cup {None}, exc : BOOLEAN]
Failed == [host |-> None, exc |-> FALSE]       \* failed_reader_failover_result
Connected(h) == [host |-> h, exc |-> FALSE]
Error == [host |-> None, exc |-> TRUE]

(* Attempt workers: "run" started with the signal clear, "cxl" started    *)
(* with it set; "conn", "net", "err" finished (connected, network error,  *)
(* other error); "seen" consumed by as_completed.                          *)
AttStates == {"idle", "run", "cxl", "conn", "net", "err", "seen"}
Running == {"run", "cxl"}

-----------------------------------------------------------------------------
(* Host ordering.  shuffle() makes the order inside each group a choice:   *)
(* the operators give every list the code can produce.                    *)

Writers(t) == {h \in Hosts : t[h] = "WRITER"}
ActiveReaders(t, av) == {h \in Hosts \ Writers(t) : av[h] = "AVAILABLE"}
DownHosts(t, av) == Hosts \ (Writers(t) \cup ActiveReaders(t, av))

(* A variant that appends the writer in strict mode too.                  *)
HostsByPriority_WriterAlways(t, av, readersOnly) ==
  {a \o SetToSeq(Writers(t)) \o d : a \in SetToSeqs(ActiveReaders(t, av)),
                                    d \in SetToSeqs(DownHosts(t, av))}

(* get_hosts_by_priority: active readers, then the writer unless readers  *)
(* only were asked for and there is a reader, then down readers.          *)
HostsByPriority(t, av, readersOnly) ==
  LET nReaders == Cardinality(ActiveReaders(t, av) \cup DownHosts(t, av))
      w == IF ~readersOnly \/ nReaders = 0 THEN SetToSeq(Writers(t)) ELSE <<>>
  IN {a \o w \o d : a \in SetToSeqs(ActiveReaders(t, av)),
                    d \in SetToSeqs(DownHosts(t, av))}

(* get_reader_hosts_by_priority: active readers, then down readers.       *)
ReaderHostsByPriority(t, av) ==
  {a \o d : a \in SetToSeqs(ActiveReaders(t, av)),
            d \in SetToSeqs(DownHosts(t, av))}

(* Reference ordering (spec section 4.7 step 2): the included hosts in    *)
(* every order that puts active readers before the writer and the writer  *)
(* before down readers; the writer is left out when readers only are      *)
(* asked for and a reader exists.                                          *)
Rank(t, av, h) == IF t[h] = "WRITER" THEN 1
                  ELSE IF av[h] = "AVAILABLE" THEN 0 ELSE 2
RefPriority(t, av, incl) ==
  {p \in SetToSeqs(incl) :
     IsSorted([i \in DOMAIN p |-> Rank(t, av, p[i])], LAMBDA a, b : a <= b)}
RefIncluded(t, readersOnly) ==
  IF readersOnly /\ Hosts \ Writers(t) # {} THEN Hosts \ Writers(t) ELSE Hosts

(* A variant whose batch takes three hosts.                               *)
BatchOf_Three(p, i) == {p[j] : j \in i..(IF i + 2 < Len(p) THEN i + 2 ELSE Len(p))}

(* _get_result_from_next_task_batch submits hosts[i] and, if it exists,   *)
(* hosts[i + 1].                                                           *)
BatchOf(p, i) == {p[j] : j \in i..(IF i + 1 < Len(p) THEN i + 1 ELSE Len(p))}

-----------------------------------------------------------------------------
TypeOK ==
  /\ strict \in BOOLEAN /\ role \in RoleFns /\ topo \in RoleFns
  /\ avail \in [Hosts -> Avails] /\ event \in BOOLEAN
  /\ nops \in 0..MaxOps /\ op \in {"none", "failover", "reader"}
  /\ fpc \in {"idle", "waiting", "joining"}
  /\ tpc \in {"idle", "loopTop", "submit", "collect", "join", "verify", "done"}
  /\ cur \in Hosts \cup {None}
  /\ prio \in Seq(Hosts) /\ bi \in 1..(Cardinality(Hosts) + 2)
  /\ batch \subseteq Hosts /\ Cardinality(batch) <= 2
  /\ att \in [Hosts -> AttStates]
  /\ bres \in Result /\ tres \in Result /\ ret \in Result
  /\ conns \in [Hosts -> {"none", "open", "closed", "handed"}]
  /\ tried \subseteq Hosts /\ errSeen \in BOOLEAN /\ timedOut \in BOOLEAN
  /\ EM!TypeOK

Init ==
  /\ strict \in BOOLEAN /\ role \in RoleFns /\ avail \in [Hosts -> Avails]
  /\ event = FALSE /\ nops = 0 /\ op = "none" /\ fpc = "idle" /\ tpc = "idle"
  /\ topo = role /\ cur = None /\ prio = <<>> /\ bi = 1 /\ batch = {}
  /\ att = [h \in Hosts |-> "idle"] /\ bres = Failed /\ tres = Failed
  /\ conns = [h \in Hosts |-> "none"] /\ tried = {} /\ errSeen = FALSE
  /\ timedOut = FALSE /\ ret = Failed /\ EM!Init

-----------------------------------------------------------------------------
(* The calls.                                                              *)

(* failover(): the internal task is submitted and the caller waits on it   *)
(* with max_failover_timeout_sec; result starts as the failed sentinel.    *)
StartFailover ==
  /\ op = "none" /\ nops < MaxOps
  /\ \E c \in Hosts : cur' = c
  /\ op' = "failover" /\ fpc' = "waiting" /\ tpc' = "loopTop" /\ topo' = role
  /\ prio' = <<>> /\ tres' = Failed /\ nops' = nops + 1
  /\ tried' = {} /\ errSeen' = FALSE /\ timedOut' = FALSE
  /\ UNCHANGED <<customHandler, strict, role, avail, event, bi, batch, att, bres, conns, ret>>

(* get_reader_connection(): the host-group loop on the caller's thread    *)
(* over get_reader_hosts_by_priority, with no outer timeout.               *)
StartReaderConnection ==
  /\ op = "none" /\ nops < MaxOps
  /\ op' = "reader" /\ tpc' = "submit" /\ topo' = role /\ cur' = None
  /\ \E p \in ReaderHostsByPriority(role, avail) : prio' = p
  /\ bi' = 1 /\ tres' = Failed /\ nops' = nops + 1
  /\ tried' = {} /\ errSeen' = FALSE /\ timedOut' = FALSE
  /\ UNCHANGED <<customHandler, strict, role, avail, event, fpc, batch, att, bres, conns, ret>>

(* _get_connection_from_host_group hands r to its caller.  For            *)
(* get_reader_connection that is the call's result.  The internal task    *)
(* returns a connection at once unless strict, verifies it if strict, and  *)
(* otherwise (no connection, or an error) sleeps and loops.               *)
GroupReturns(r) ==
  \/ op = "reader" /\ tres' = r /\ tpc' = "done"
  \/ op = "failover" /\ r.host # None /\ ~strict /\ tres' = r /\ tpc' = "done"
  \/ op = "failover" /\ r.host # None /\ strict /\ tres' = r /\ tpc' = "verify"
  \/ op = "failover" /\ r.host = None /\ tpc' = "loopTop" /\ UNCHANGED tres

(* A variant of the loop test that never stops.                           *)
LoopContinues_Forever(e) == TRUE

(* while not self._timeout_event.is_set()                                  *)
LoopContinues(e) == ~e

(* Top of _internal_failover_task's loop: leave with the failed sentinel  *)
(* once the event is set, else _failover_internal marks current_host      *)
(* NOT_AVAILABLE and orders the task's topology.                           *)
LoopTop ==
  /\ tpc = "loopTop"
  /\ \/ /\ ~LoopContinues(event)
        /\ tpc' = "done" /\ tres' = Failed
        /\ UNCHANGED <<avail, prio, bi>>
     \/ /\ LoopContinues(event)
        /\ avail' = [avail EXCEPT ![cur] = "NOT_AVAILABLE"]
        /\ \E p \in HostsByPriority(topo, avail', strict) : prio' = p
        /\ bi' = 1 /\ tpc' = "submit"
        /\ UNCHANGED tres
  /\ UNCHANGED <<customHandler, strict, role, event, nops, op, fpc, topo, cur, batch, att,
                 bres, conns, tried, errSeen, timedOut, ret>>

(* The for loop over i: past the end the group returns the failed          *)
(* sentinel; else one batch is submitted, each force_connect getting the   *)
(* shared event as its cancel signal.                                      *)
SubmitBatch ==
  /\ tpc = "submit"
  /\ \/ /\ bi > Len(prio)
        /\ GroupReturns(Failed)
        /\ UNCHANGED <<batch, att, tried>>
     \/ /\ bi <= Len(prio)
        /\ batch' = BatchOf(prio, bi)
        /\ att' = [h \in Hosts |-> IF h \notin batch' THEN "idle"
                                   ELSE IF event THEN "cxl" ELSE "run"]
        /\ tried' = IF event THEN tried ELSE tried \cup batch'
        /\ tpc' = "collect"
        /\ UNCHANGED tres
  /\ UNCHANGED <<customHandler, strict, role, avail, event, nops, op, fpc, topo, cur, prio,
                 bi, bres, conns, errSeen, timedOut, ret>>

(* attempt_connection(h) finishes: force_connect connects (only if the     *)
(* signal was clear when it started) and the host is marked AVAILABLE, or  *)
(* it raises an error and the host is marked NOT_AVAILABLE; the error is a *)
(* network failure or not as the ExceptionManager answers at that moment.  *)
Attempt(h) ==
  /\ att[h] \in Running
  /\ \/ /\ att[h] = "run"
        /\ att' = [att EXCEPT ![h] = "conn"]
        /\ avail' = [avail EXCEPT ![h] = "AVAILABLE"]
        /\ conns' = [conns EXCEPT ![h] = "open"]
     \/ \E e \in Errors :
          /\ att' = [att EXCEPT ![h] = IF IsNetworkException(e) THEN "net" ELSE "err"]
          /\ avail' = [avail EXCEPT ![h] = "NOT_AVAILABLE"]
          /\ UNCHANGED conns
  /\ UNCHANGED <<customHandler, strict, role, event, nops, op, fpc, tpc, topo, cur, prio, bi,
                 batch, bres, tres, tried, errSeen, timedOut, ret>>

(* Leaving the batch's try block: the finally clause sets the event.       *)
EndBatch(r) == bres' = r /\ event' = TRUE /\ tpc' = "join"

(* as_completed yields a finished attempt: a connection or a non-network   *)
(* error wins the batch; a network failure waits for the other attempt,   *)
(* and the batch fails once both did.                                      *)
Consume(h) ==
  /\ tpc = "collect" /\ h \in batch /\ att[h] \in {"conn", "net", "err"}
  /\ att' = [att EXCEPT ![h] = "seen"]
  /\ \/ att[h] = "conn" /\ EndBatch(Connected(h)) /\ UNCHANGED errSeen
     \/ att[h] = "err" /\ EndBatch(Error) /\ errSeen' = TRUE
     \/ /\ att[h] = "net" /\ \A g \in batch \ {h} : att[g] = "seen"
        /\ EndBatch(Failed) /\ UNCHANGED errSeen
     \/ /\ att[h] = "net" /\ \E g \in batch \ {h} : att[g] # "seen"
        /\ UNCHANGED <<bres, event, tpc, errSeen>>
  /\ UNCHANGED <<customHandler, strict, role, avail, nops, op, fpc, topo, cur, prio, bi,
                 batch, tres, conns, tried, timedOut, ret>>

(* as_completed's timeout_sec passes with an attempt still running:        *)
(* TimeoutError sets the event (and finally again); the batch fails.       *)
BatchTimeout ==
  /\ tpc = "collect" /\ \E h \in batch : att[h] \in Running
  /\ EndBatch(Failed)
  /\ UNCHANGED <<customHandler, strict, role, avail, nops, op, fpc, topo, cur, prio, bi,
                 batch, att, tres, conns, tried, errSeen, timedOut, ret>>

(* Leaving the executor's with block waits for both attempts; then a      *)
(* connection or an error ends the group, anything else moves on to the   *)
(* next pair.                                                              *)
JoinBatch ==
  /\ tpc = "join" /\ \A h \in batch : att[h] \notin Running
  /\ \/ /\ bres.host # None \/ bres.exc
        /\ GroupReturns(bres)
        /\ UNCHANGED bi
     \/ /\ bres.host = None /\ ~bres.exc
        /\ bi' = bi + 2 /\ tpc' = "submit"
        /\ UNCHANGED tres
  /\ UNCHANGED <<customHandler, strict, role, avail, event, nops, op, fpc, topo, cur, prio,
                 batch, att, bres, conns, tried, errSeen, timedOut, ret>>

(* A variant that accepts the new host whatever its refreshed role.       *)
IsReaderIn_AnyRole(t, h) == TRUE

(* The new host appears as a READER in the refreshed topology.            *)
IsReaderIn(t, h) == t[h] = "READER"

(* Strict mode: force_refresh_host_list, then the task's topology becomes  *)
(* plugin_service.hosts; a connection to a host that is a READER there is  *)
(* returned, any other is closed and the loop sleeps and goes on.  If the  *)
(* refresh raises, the task's except clause returns the error and the new  *)
(* connection is dropped.                                                  *)
VerifyReader ==
  /\ tpc = "verify"
  /\ \/ \E r \in RoleFns :
          /\ role' = r /\ topo' = r
          /\ \/ IsReaderIn(r, tres.host) /\ tpc' = "done" /\ UNCHANGED conns
             \/ /\ ~IsReaderIn(r, tres.host)
                /\ conns' = [conns EXCEPT ![tres.host] = "closed"]
                /\ tpc' = "loopTop"
          /\ UNCHANGED tres
     \/ /\ tres' = Error /\ tpc' = "done"
        /\ UNCHANGED <<role, topo, conns>>
  /\ UNCHANGED <<customHandler, strict, avail, event, nops, op, fpc, cur, prio, bi, batch, att,
                 bres, tried, errSeen, timedOut, ret>>

(* The call returns r; a returned connection is the caller's from now on. *)
Return(r) ==
  /\ ret' = r /\ op' = "none" /\ fpc' = "idle" /\ tpc' = "idle"
  /\ conns' = IF r.host # None THEN [conns EXCEPT ![r.host] = "handed"]
              ELSE conns
  /\ UNCHANGED <<customHandler, strict, role, avail, event, nops, topo, cur, prio, bi, batch,
                 att, bres, tres, tried, errSeen, timedOut>>

(* future.result(timeout) returns the task's result.                      *)
FailoverReturns ==
  /\ op = "failover" /\ fpc = "waiting" /\ tpc = "done"
  /\ Return(tres)

(* max_failover_timeout_sec passes first: the event is set and result     *)
(* stays the failed sentinel, but leaving the executor's with block still *)
(* waits for the task.                                                     *)
FailoverTimeout ==
  /\ op = "failover" /\ fpc = "waiting" /\ tpc # "done"
  /\ event' = TRUE /\ fpc' = "joining" /\ timedOut' = TRUE
  /\ UNCHANGED <<customHandler, strict, role, avail, nops, op, tpc, topo, cur, prio, bi,
                 batch, att, bres, tres, conns, tried, errSeen, ret>>

FailoverJoined ==
  /\ op = "failover" /\ fpc = "joining" /\ tpc = "done"
  /\ Return(Failed)

ReaderReturns ==
  /\ op = "reader" /\ tpc = "done"
  /\ Return(tres)

(* The application makes no further call.                                  *)
Finished ==
  /\ op = "none" /\ nops = MaxOps
  /\ UNCHANGED vars

(* The application may call set_custom_handler or reset_custom_handler   *)
(* from any thread at any time.                                            *)
HandlerChange == EM!Next /\ UNCHANGED failoverVars

Next ==
  \/ StartFailover \/ StartReaderConnection
  \/ LoopTop \/ SubmitBatch \/ \E h \in Hosts : Attempt(h) \/ Consume(h)
  \/ BatchTimeout \/ JoinBatch \/ VerifyReader
  \/ FailoverReturns \/ FailoverTimeout \/ FailoverJoined \/ ReaderReturns
  \/ HandlerChange
  \/ Finished

Spec == Init /\ [][Next]_vars

(* Every thread that can step eventually does: the task, the batch waiter *)
(* and the caller are running threads, force_connect returns (it observes *)
(* the cancel signal and has its own connect timeout), and a wall-clock   *)
(* timeout that stays armed eventually expires.  Starting a call is the   *)
(* application's choice and is not assumed.                                *)
FairSpec ==
  /\ Spec
  /\ WF_vars(LoopTop) /\ WF_vars(SubmitBatch) /\ WF_vars(JoinBatch)
  /\ WF_vars(VerifyReader) /\ WF_vars(BatchTimeout)
  /\ \A h \in Hosts : WF_vars(Attempt(h)) /\ WF_vars(Consume(h))
  /\ WF_vars(FailoverReturns) /\ WF_vars(FailoverTimeout)
  /\ WF_vars(FailoverJoined) /\ WF_vars(ReaderReturns)

-----------------------------------------------------------------------------
(* Properties.                                                             *)

Returning == op # "none" /\ op' = "none"

(* get_hosts_by_priority and get_reader_hosts_by_priority produce exactly  *)
(* the orders of spec section 4.7 step 2, for the topology and            *)
(* availabilities the handler currently sees, in both modes.               *)
PriorityMatchesReference ==
  /\ \A s \in BOOLEAN :
       HostsByPriority(topo, avail, s) = RefPriority(topo, avail, RefIncluded(topo, s))
  /\ ReaderHostsByPriority(topo, avail)
       = RefPriority(topo, avail, Hosts \ Writers(topo))

(* A connection returned by get_reader_connection, or by a strict-reader   *)
(* failover, is to a host that is a READER in the last topology the call   *)
(* saw (for strict failover, the one refreshed after connecting).          *)
ReaderWhenRequired ==
  [][Returning /\ ret'.host # None /\ (op = "reader" \/ strict)
       => topo'[ret'.host] = "READER"]_vars

(* Every call returns: the task's loop, the batches and the waits of the  *)
(* executor's with blocks all end.                                         *)
CallsReturn == op # "none" ~> op = "none"

(* A call that gives up without its max timeout having expired has tried *)
(* every candidate host with the cancel signal clear (spec section 4.7:    *)
(* pairs are walked in order, a network failure means "try next").        *)
EveryCandidateTried ==
  [][Returning /\ ret' = Failed /\ ~timedOut
       => (IF op = "reader" THEN Hosts \ Writers(topo)
           ELSE RefIncluded(topo, strict)) \subseteq tried]_vars

(* Once a call has returned, no connection an attempt opened is left open *)
(* other than the one handed to the caller (spec section 4.7: connections *)
(* received after a batch's winner must be closed).                        *)
NoLeakedConnection == op = "none" => \A h \in Hosts : conns[h] # "open"
====
