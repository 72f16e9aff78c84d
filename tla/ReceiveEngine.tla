---------------------------- MODULE ReceiveEngine ----------------------------
(***************************************************************************)
(* receive_msg of src/modbus/modbus.c as operators over the state of one   *)
(* call, so that the modules of its two callers (modbus_listen on the      *)
(* server, modbus_check_response on the master) compose it into their own  *)
(* actions.  A call is a record                                            *)
(*   phase    FUNCTION | BYTE | COMPLETE (the local `state`)               *)
(*   computed msg_size_computed                                            *)
(*   toRead   size_to_read                                                 *)
(*   msg      the bytes read so far (stream bytes, see ModbusFrames)       *)
(*   sized    whether *msg_size has been written (it is first written      *)
(*            after the first WAIT_DATA succeeds, line 516)                *)
(*   status   "waiting" while the loop runs, then the return value.        *)
(* The call blocks only inside WAIT_DATA (select); the code between two    *)
(* selects runs as one step: a read and the bookkeeping after it.          *)
(***************************************************************************)
EXTENDS ModbusFrames

\* Return codes (modbus.h).
COMM_TIME_OUT          == -12
PORT_SOCKET_FAILURE    == -13
SELECT_FAILURE         == -14
TOO_MANY_DATAS         == -15
INVALID_CRC            == -16
INVALID_EXCEPTION_CODE == -17
CONNECTION_CLOSED      == -18

MSG_SIZE_UNDEFINED == -1
FUNCTION == "FUNCTION"
BYTE     == "BYTE"
COMPLETE == "COMPLETE"
Waiting  == 1   \* not a return value: the loop is still running

\* A plausible fault: a CRC comparison that catches a misframed buffer but
\* not corrupted bytes.
check_crc16_framing_only(t, frames, buf) ==
    IF t = RTU /\ ~IsWholeFrame(frames, buf) THEN INVALID_CRC ELSE 0

\* check_crc16: on RTU, INVALID_CRC when the CRC of the buffer does not
\* match its last two bytes (error_treat is the caller's business here);
\* on TCP, 0.
check_crc16(t, frames, buf) ==
    IF t = RTU /\ ~CrcMatches(frames, buf) THEN INVALID_CRC ELSE 0

\* The entry of receive_msg up to the first WAIT_DATA: the size is
\* discovered progressively (server) or known from the query (master).
ReceiveBegin(t, msg_size_computed) ==
    IF msg_size_computed = MSG_SIZE_UNDEFINED
    THEN [phase |-> FUNCTION, computed |-> header_length(t) + 2,
          toRead |-> header_length(t) + 2, msg |-> <<>>, sized |-> FALSE,
          status |-> Waiting]
    ELSE [phase |-> COMPLETE, computed |-> msg_size_computed,
          toRead |-> msg_size_computed, msg |-> <<>>, sized |-> FALSE,
          status |-> Waiting]

\* The bytes one read() returns: all that is available, up to size_to_read.
ReadAmount(r, avail) ==
    IF r.toRead < Len(avail) THEN r.toRead ELSE Len(avail)

\* Once msg_size reaches msg_size_computed: the switch on `state`.
NextPhase(t, frames, r, msg) ==
    LET hl == header_length(t)
        fc == BufByte(t, frames, msg, hl + 1)
    IN  CASE r.phase = FUNCTION ->
               LET h == compute_query_size_header(fc)
               IN  [r EXCEPT !.toRead = h, !.computed = @ + h, !.phase = BYTE]
          [] r.phase = BYTE ->
               LET bcField == IF fc \in {FC_FORCE_MULTIPLE_COILS,
                                         FC_PRESET_MULTIPLE_REGISTERS}
                              THEN BufByte(t, frames, msg, hl + 6) ELSE 0
                   d == compute_query_size_data(t, fc, bcField)
               IN  [r EXCEPT !.toRead = d, !.computed = @ + d, !.phase = COMPLETE]
          [] r.phase = COMPLETE ->
               [r EXCEPT !.toRead = 0]

\* One pass of the read loop after select() reported data: read, add up,
\* check against MAX_PACKET_SIZE, then either ask for the rest of the
\* current part or move to the next phase; stop when nothing is left.
ReceiveRead(t, frames, r, avail) ==
    LET msg == r.msg \o SubSeq(avail, 1, ReadAmount(r, avail))
        r1  == [r EXCEPT !.msg = msg, !.sized = TRUE]
        r2  == IF Len(msg) < r.computed
               THEN [r1 EXCEPT !.toRead = r.computed - Len(msg)]
               ELSE NextPhase(t, frames, r1, msg)
    IN  IF Len(msg) > MAX_PACKET_SIZE
        THEN [r1 EXCEPT !.status = TOO_MANY_DATAS]
        ELSE [r2 EXCEPT !.status = IF r2.toRead > 0 THEN Waiting ELSE 0]

\* WAIT_DATA's select() returned 0: the call returns COMM_TIME_OUT with what
\* it has read so far (*msg_size is still unwritten if nothing was read).
ReceiveTimeout(r) == [r EXCEPT !.status = COMM_TIME_OUT]

\* The descriptor is readable but read()/recv() returns 0: the peer closed
\* the connection, and the loop returns without error_treat.
ReceiveClosed(r) == [r EXCEPT !.status = CONNECTION_CLOSED]

\* WAIT_DATA's select() returned -1 with an errno other than EINTR (EINTR
\* only restarts the select): error_treat, then SELECT_FAILURE.
ReceiveSelectFailure(r) == [r EXCEPT !.status = SELECT_FAILURE]

\* read()/recv() returned -1 after select() reported the descriptor ready:
\* error_treat, then PORT_SOCKET_FAILURE; *msg_size has been written.
ReceiveReadFailure(r) == [r EXCEPT !.status = PORT_SOCKET_FAILURE, !.sized = TRUE]
=============================================================================
