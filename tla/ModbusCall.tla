------------------------------ MODULE ModbusCall ------------------------------
(***************************************************************************)
(* What a master call promises its caller, with no bytes in sight: the     *)
(* application invokes one call at a time, and every call returns, either  *)
(* the value that the call's own answer stands for (a count, 1 for a       *)
(* single write, the bytes of a slave id), or an exception the slave       *)
(* raised, or one of the library's errors.  It never returns a value that  *)
(* stands for another call's answer.  A call whose query cannot be        *)
(* written fails at once, with one of the library's errors.                *)
(***************************************************************************)
CONSTANTS
    CallShapes,   \* the calls the application may make
    Answer(_, _), \* Answer(link, c): the value c's own answer stands for
    Exceptions,   \* the results an exception answer may give
    Errors,       \* the library's error codes
    NoCall,       \* `call` before the first call
    NoRet         \* `ret` before the first return

VARIABLES
    link,   \* the transport, fixed
    busy,   \* is a call in progress?
    call,   \* the current (or last) call
    ret     \* what the last call returned

avars == <<link, busy, call, ret>>

Init ==
    /\ busy = FALSE
    /\ call = NoCall
    /\ ret = NoRet

Invoke ==
    /\ ~busy
    /\ call' \in CallShapes
    /\ busy' = TRUE
    /\ UNCHANGED <<link, ret>>

Return ==
    /\ busy
    /\ ret' \in {Answer(link, call)} \cup Exceptions \cup Errors
    /\ busy' = FALSE
    /\ UNCHANGED <<link, call>>

\* A call that fails before its query leaves returns an error at once.
Refuse ==
    /\ ~busy
    /\ call' \in CallShapes
    /\ ret' \in Errors
    /\ UNCHANGED <<link, busy>>

Next == Invoke \/ Return \/ Refuse

\* Every call returns.
Spec == Init /\ [][Next]_avars /\ WF_avars(Return)
=============================================================================
