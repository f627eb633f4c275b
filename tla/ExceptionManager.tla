-------------------------- MODULE ExceptionManager --------------------------
(***************************************************************************)
(* ExceptionManager (src/aws_wrapper/exception_handling.py): classifies an *)
(* exception as a network error by asking a handler (is_login_exception   *)
(* asks the same handler and no modelled caller uses it).  The handler is  *)
(* the process-wide custom_handler if one is set, else the dialect's       *)
(* exception_handler; with no dialect there is no handler and nothing is a *)
(* network error.  custom_handler is a class                               *)
(* attribute: set_custom_handler and reset_custom_handler change it for    *)
(* every thread at once, without a lock.                                   *)
(***************************************************************************)
CONSTANTS
  Handlers,        \* ExceptionHandler objects (custom or of a dialect)
  Dialects,        \* Dialect objects
  DialectHandler,  \* dialect -> its exception_handler
  Errors,          \* exceptions a connection attempt can raise
  NetworkErrors,   \* handler -> the errors its is_network_exception accepts
  None             \* model value: Python None

ASSUME /\ DialectHandler \in [Dialects -> Handlers]
       /\ NetworkErrors \in [Handlers -> SUBSET Errors]

VARIABLE
  customHandler    \* ExceptionManager.custom_handler

TypeOK == customHandler \in Handlers \cup {None}

Init == customHandler = None

(* set_custom_handler(handler) *)
SetCustomHandler(h) == customHandler' = h

(* reset_custom_handler() *)
ResetCustomHandler == customHandler' = None

(* _get_handler(dialect): no handler without a dialect; otherwise the     *)
(* custom handler when one is set, else the dialect's own.                 *)
GetHandler(d) ==
  IF d = None THEN None
  ELSE IF customHandler # None THEN customHandler ELSE DialectHandler[d]

(* is_network_exception(dialect, error): the handler's answer, or False   *)
(* when there is no handler.                                               *)
IsNetworkException(d, e) ==
  GetHandler(d) # None /\ e \in NetworkErrors[GetHandler(d)]

Next == \/ \E h \in Handlers : SetCustomHandler(h)
        \/ ResetCustomHandler

Spec == Init /\ [][Next]_customHandler
=============================================================================
