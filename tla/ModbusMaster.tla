----------------------------- MODULE ModbusMaster -----------------------------
(***************************************************************************)
(* The master (client) side of src/modbus/modbus.c: the public operations  *)
(* build a query (build_query_packet, with the static MBAP transaction      *)
(* counter on TCP), send it (modbus_send), wait for the answer of the      *)
(* size compute_response_size predicts (receive_msg) and classify it       *)
(* (modbus_check_response), with error_treat flushing (RTU) or             *)
(* reconnecting (TCP) on errors.  The remote slave is an environment that  *)
(* answers each query with the correct response, an exception, or not at  *)
(* all; line noise may corrupt an RTU answer.                              *)
(*                                                                         *)
(* Streams as in ModbusListen: `down` holds the queries on their way to    *)
(* the slave, `wire` the answer bytes on their way back, `rx` the bytes    *)
(* the master's descriptor holds.  With SlaveLate the slave may answer, or *)
(* finish answering, after the master's select() has timed out; without   *)
(* it the slave is timely: select() times out only when no answer is on    *)
(* the way.                                                                *)
(***************************************************************************)
EXTENDS ReceiveEngine, ModbusCrc

CONSTANTS
    Calls,          \* calls the application makes: [op, addr, count]
    TransportSet,   \* the type_com values checked
    Unit,           \* the slave address
    MaxCalls,       \* bound on the number of calls
    SlaveLate,      \* may an answer arrive after the master timed out?
    SlaveSilent,    \* may the slave not answer a query at all?
    Noise,          \* may line noise corrupt an RTU answer?
    ExceptionCodes, \* exception codes the slave may answer with
    SlaveIdLength,  \* bytes of slave id data in a report_slave_id answer
    ErrorHandling,  \* error_handling at the first call (modbus_init_tcp: RECONNECT_ON_ERROR)
    UINT16_MAX,     \* the width of the MBAP transaction counter
    IOFaults,       \* may write(), select() or read() fail with -1?
    MaxFaults       \* bound on the I/O failures in a behaviour

RECONNECT_ON_ERROR == "RECONNECT_ON_ERROR"
NOP_ON_ERROR       == "NOP_ON_ERROR"

\* Quantity caps (modbus.h).
MAX_READ_HOLD_REGS  == 125
MAX_READ_INPUT_REGS == 125
MAX_WRITE_COILS     == 1968
MAX_WRITE_REGS      == 123

\* The number of entries of TAB_ERROR_MSG.
NB_TAB_ERROR_MSG == 12

Ops == {"read_coil_status", "read_input_status", "read_holding_registers",
        "read_input_registers", "force_single_coil", "preset_single_register",
        "force_multiple_coils", "preset_multiple_registers", "report_slave_id"}

ASSUME /\ TransportSet \subseteq Transports
       /\ \A c \in Calls : c.op \in Ops
       /\ SlaveLate \in BOOLEAN /\ SlaveSilent \in BOOLEAN /\ Noise \in BOOLEAN
       /\ IOFaults \in BOOLEAN /\ MaxFaults \in Nat
       /\ ErrorHandling \in {RECONNECT_ON_ERROR, NOP_ON_ERROR}

VARIABLES
    transport,  \* type_com, fixed at init
    calls,      \* the calls made so far: [op, fc, addr, count] as sent
    frames,     \* every frame sent either way, in order
    down,       \* indices of queries on their way to the slave
    wire,       \* answer bytes on their way to the master
    rx,         \* bytes at the master's descriptor
    mpc,        \* "idle" between calls, "recv" while waiting for an answer
    rcv,        \* the receive_msg call of the current call
    t_id,       \* build_query_packet_tcp's static transaction counter
    last,       \* the last completed call: [req, ret, buf, timedOut]
    lastSize,   \* the last value of modbus_check_response's response_size
    conn,       \* how many times error_treat has reconnected the socket
    faults,     \* how many write/select/read calls have failed
    error_handling  \* the handle's error_handling, read by error_treat

vars == <<transport, calls, frames, down, wire, rx, mpc, rcv, t_id, last,
          lastSize, conn, faults, error_handling>>

Idle == "idle"
Recv == "recv"
None == -1000   \* not a return value (counts >= 0, errors and exceptions >= -255)
Aborted == "aborted"   \* the process died in abort()

-----------------------------------------------------------------------------
(* The operations.                                                         *)
(***************************************************************************)

\* The function code each public operation sends.
OpFc(op) ==
    CASE op = "read_coil_status"          -> FC_READ_COIL_STATUS
      [] op = "read_input_status"         -> FC_READ_INPUT_STATUS
      [] op = "read_holding_registers"    -> FC_READ_HOLDING_REGISTERS
      [] op = "read_input_registers"      -> FC_READ_INPUT_REGISTERS
      [] op = "force_single_coil"         -> FC_FORCE_SINGLE_COIL
      [] op = "preset_single_register"    -> FC_PRESET_SINGLE_REGISTER
      [] op = "force_multiple_coils"      -> FC_FORCE_MULTIPLE_COILS
      [] op = "preset_multiple_registers" -> FC_PRESET_MULTIPLE_REGISTERS
      [] op = "report_slave_id"           -> FC_REPORT_SLAVE_ID

\* A plausible fault: read_holding_registers without its MAX_READ_HOLD_REGS
\* check.
QueryCountNoHoldClamp(op, count) ==
    CASE op = "read_input_registers" /\ count > MAX_READ_INPUT_REGS
            -> MAX_READ_INPUT_REGS
      [] op = "force_multiple_coils" /\ count > MAX_WRITE_COILS
            -> MAX_WRITE_COILS
      [] op = "preset_multiple_registers" /\ count > MAX_WRITE_REGS
            -> MAX_WRITE_REGS
      [] op = "force_single_coil" /\ count # 0
            -> 65280
      [] op = "report_slave_id"
            -> 0
      [] OTHER -> count

\* The count (or value) field as the operation puts it in the query: the
\* caps clamp it, force_single_coil turns a true state into 0xFF00.
QueryCount(op, count) ==
    CASE op = "read_holding_registers" /\ count > MAX_READ_HOLD_REGS
            -> MAX_READ_HOLD_REGS
      [] op = "read_input_registers" /\ count > MAX_READ_INPUT_REGS
            -> MAX_READ_INPUT_REGS
      [] op = "force_multiple_coils" /\ count > MAX_WRITE_COILS
            -> MAX_WRITE_COILS
      [] op = "preset_multiple_registers" /\ count > MAX_WRITE_REGS
            -> MAX_WRITE_REGS
      [] op = "force_single_coil" /\ count # 0
            -> 65280
      [] op = "report_slave_id"
            -> 0
      [] OTHER -> count

\* The byte count field a multiple write appends.
QueryByteCount(fc, count) ==
    CASE fc = FC_FORCE_MULTIPLE_COILS      -> BitBytes(count)
      [] fc = FC_PRESET_MULTIPLE_REGISTERS -> Lo(2 * count)
      [] OTHER                             -> 0

\* A plausible fault: the inner loop tests only `bit & 0xFF`, so the last
\* byte takes bits from past the end of data_src.
RECURSIVE CoilByteNoCount(_, _, _, _, _)
CoilByteNoCount(src, pos, k, check, count) ==
    IF k < 8
    THEN src[pos] * 2^k + CoilByteNoCount(src, pos + 1, k + 1, check + 1, count)
    ELSE 0

\* force_multiple_coils' inner loop for one query byte: `bit` is 2^k, and
\* data_src[pos] sets or clears it while bit & 0xFF and coil_check++ <
\* coil_count hold (a failing count test still increments coil_check,
\* which no later byte reads).
RECURSIVE CoilByte(_, _, _, _, _)
CoilByte(src, pos, k, check, count) ==
    IF k < 8 /\ check < count
    THEN src[pos] * 2^k + CoilByte(src, pos + 1, k + 1, check + 1, count)
    ELSE 0

\* The data bytes force_multiple_coils appends after the byte count: byte
\* i starts at data_src[8 * i], with coil_check at 8 * i.
ForceCoilsData(src, coil_count) ==
    [i \in 1..BitBytes(coil_count) |->
        CoilByte(src, 8 * (i - 1), 0, 8 * (i - 1), coil_count)]

\* A plausible fault: the counter incremented without the wrap.
NextTidNoWrap(tid) == tid + 1

\* build_query_packet_tcp's counter: incremented before use, wrapping to 0.
NextTid(tid) == IF tid < UINT16_MAX THEN tid + 1 ELSE 0

-----------------------------------------------------------------------------
(* modbus_check_response.                                                  *)
(***************************************************************************)

\* A plausible fault: the exception size without the checksum.
ExceptionSizeNoChecksum == header_length(transport) + 3

\* The size of an exception answer: header, unit, function, code, checksum.
ExceptionSize == header_length(transport) + 3 + checksum_size(transport)

\* Bytes of the operation's uninitialised response[MAX_PACKET_SIZE] past
\* those receive_msg stored: whatever the stack held, two representatives.
UninitBytes == {0, 255}

\* What the check returns once receive_msg returned 0: a CRC mismatch
\* (error_treat, INVALID_CRC), else a value taken from the answer's function
\* code: byte count, byte count / 2, the echoed count, the bytes received
\* (report slave id), or 1.  A stale answer of another function can be
\* shorter than the bytes the check reads; those read as `u`.
CheckComplete(buf, u) ==
    LET hl == header_length(transport)
        B(i) == IF i < Len(buf) THEN BufByte(transport, frames, buf, i) ELSE u
    IN  IF check_crc16(transport, frames, buf) # 0
        THEN [ret |-> INVALID_CRC, treat |-> TRUE]
        ELSE [ret |-> CASE B(hl + 1) \in {FC_READ_COIL_STATUS, FC_READ_INPUT_STATUS}
                              -> B(hl + 2)
                        [] B(hl + 1) \in {FC_READ_HOLDING_REGISTERS,
                                          FC_READ_INPUT_REGISTERS}
                              -> B(hl + 2) \div 2
                        [] B(hl + 1) \in {FC_FORCE_MULTIPLE_COILS,
                                          FC_PRESET_MULTIPLE_REGISTERS}
                              -> B(hl + 4) * 256 + B(hl + 5)
                        [] B(hl + 1) = FC_REPORT_SLAVE_ID
                              -> Len(buf)
                        [] OTHER -> 1,
              treat |-> FALSE]

\* What the check returns after a timeout whose response_size equals the
\* exception size: a CRC mismatch, an exception (error_treat, -code), or,
\* for any other function code, falling out of the if/else chain,
\* response_size itself.  An exception code past the table runs error_treat
\* and then free() on the stack array s_error: glibc's free() aborts the
\* process on a pointer it never returned, so the call never returns.
CheckShort(buf, fc) ==
    LET hl == header_length(transport)
        B(i) == BufByte(transport, frames, buf, i)
    IN  CASE check_crc16(transport, frames, buf) # 0
               -> [ret |-> INVALID_CRC, treat |-> TRUE, aborts |-> FALSE]
          [] B(hl + 1) = 128 + fc /\ B(hl + 2) < NB_TAB_ERROR_MSG
               -> [ret |-> -B(hl + 2), treat |-> TRUE, aborts |-> FALSE]
          [] B(hl + 1) = 128 + fc
               -> [ret |-> None, treat |-> TRUE, aborts |-> TRUE]
          [] OTHER
               -> [ret |-> Len(buf), treat |-> FALSE, aborts |-> FALSE]

\* A plausible fault: the status passed through for every operation.
OpResultRaw(c, r) == r

\* The public operation's return value from modbus_check_response's:
\* read_coil_status and read_input_status return the count on success.
OpResult(c, r) ==
    IF c.op \in {"read_coil_status", "read_input_status"} /\ r > 0
    THEN c.count ELSE r

\* A plausible fault: the `processed < count` test dropped, so every bit
\* of every byte is decoded.
RECURSIVE IoDecodeUnbounded(_, _, _, _, _)
IoDecodeUnbounded(bytes, j, k, count, out) ==
    IF j > Len(bytes) THEN out
    ELSE IF k < 8
         THEN IoDecodeUnbounded(bytes, j, k + 1, count,
                                Append(out, (bytes[j] \div 2^k) % 2))
         ELSE IoDecodeUnbounded(bytes, j + 1, 0, count, out)

\* read_io_status's decoding loops: byte j of the data, bit k (bit = 1 << k)
\* while the bit is inside the byte and fewer than `count` are decoded;
\* `out` is data_dest[0 .. pos - 1] and Len(out) is `processed`.
RECURSIVE IoDecode(_, _, _, _, _)
IoDecode(bytes, j, k, count, out) ==
    IF j > Len(bytes) THEN out
    ELSE IF k < 8 /\ Len(out) < count
         THEN IoDecode(bytes, j, k + 1, count, Append(out, (bytes[j] \div 2^k) % 2))
         ELSE IoDecode(bytes, j + 1, 0, count, out)

\* What read_io_status writes to data_dest from the answer `buf`, when
\* modbus_check_response returned `n` (the byte count): response[3 + i]
\* for i from offset to offset + n - 1.
ReadIoStatusDecode(t, frames_, buf, n, count) ==
    IoDecode([j \in 1..n |-> BufByte(t, frames_, buf, header_length(t) + 2 + j)],
             1, 0, count, <<>>)

\* error_treat on the master's handle: RTU flushes the descriptor's input
\* (bytes still on the line arrive later); TCP with RECONNECT_ON_ERROR
\* closes the socket and connects a new one, losing everything queued on
\* the old connection; NOP_ON_ERROR does nothing.
ErrorTreat(treat, rxAfter) ==
    CASE ~treat
            -> rx' = rxAfter /\ UNCHANGED <<down, wire, conn>>
      [] transport = RTU
            -> rx' = <<>> /\ UNCHANGED <<down, wire, conn>>
      [] error_handling = RECONNECT_ON_ERROR
            -> rx' = <<>> /\ down' = <<>> /\ wire' = <<>> /\ conn' = conn + 1
      [] OTHER
            -> rx' = rxAfter /\ UNCHANGED <<down, wire, conn>>

\* The end of a call: record what it returned and from which bytes.
Complete(chk, buf, size, timedOut) ==
    /\ last' = [req |-> Len(calls), ret |-> OpResult(calls[Len(calls)], chk.ret),
                buf |-> buf, timedOut |-> timedOut]
    /\ lastSize' = size
    /\ mpc' = Idle

-----------------------------------------------------------------------------

Init ==
    /\ transport \in TransportSet
    /\ calls = <<>>
    /\ frames = <<>>
    /\ down = <<>>
    /\ wire = <<>>
    /\ rx = <<>>
    /\ mpc = Idle
    /\ rcv = ReceiveBegin(transport, 0)
    /\ t_id = 0
    /\ last = [req |-> 0, ret |-> None, buf |-> <<>>, timedOut |-> FALSE]
    /\ lastSize = None
    /\ conn = 0
    /\ faults = 0
    /\ error_handling = ErrorHandling

\* The call as build_query_packet puts it in the query.
SentCall(c) == [op |-> c.op, fc |-> OpFc(c.op), addr |-> c.addr,
                count |-> QueryCount(c.op, c.count)]

\* build_query_packet_tcp advances the static counter on every query.
QueryTid == IF transport = TCP THEN NextTid(t_id) ELSE t_id

\* A public operation: build the query, modbus_send it (RTU appends the
\* CRC, TCP sets the MBAP length), then block in receive_msg for
\* compute_response_size bytes.
Call ==
    /\ mpc = Idle
    /\ Len(calls) < MaxCalls
    /\ \E c \in Calls :
         LET fc    == OpFc(c.op)
             count == QueryCount(c.op, c.count)
             txn   == IF transport = TCP THEN QueryTid ELSE 0
             q     == QueryFrame(transport, Unit, fc, c.addr, count,
                                 QueryByteCount(fc, count), txn, TRUE,
                                 Len(calls) + 1)
         IN  /\ calls' = Append(calls, SentCall(c))
             /\ t_id' = QueryTid
             /\ frames' = Append(frames, q)
             /\ down' = Append(down, Len(frames'))
             /\ rcv' = ReceiveBegin(transport,
                                    compute_response_size(transport, fc, count))
    /\ mpc' = Recv
    /\ UNCHANGED <<transport, error_handling, wire, rx, last, lastSize, conn, faults>>

\* A public operation whose write()/send() fails (returns -1, or writes
\* fewer bytes than the query has): modbus_send calls error_treat and
\* returns PORT_SOCKET_FAILURE, which the operation returns without
\* waiting.  The transaction id is spent.  A short write that leaves part
\* of the query on the line is not modelled: the query is lost whole.
SendFailure ==
    /\ IOFaults /\ faults < MaxFaults
    /\ faults' = faults + 1
    /\ mpc = Idle
    /\ Len(calls) < MaxCalls
    /\ \E c \in Calls : calls' = Append(calls, SentCall(c))
    /\ t_id' = QueryTid
    /\ ErrorTreat(TRUE, rx)
    /\ last' = [last EXCEPT !.req = Len(calls'),
                            !.ret = OpResult(calls'[Len(calls')], PORT_SOCKET_FAILURE),
                            !.timedOut = FALSE]
    /\ UNCHANGED <<transport, error_handling, frames, mpc, rcv, lastSize>>

\* select() reports data: one pass of receive_msg's loop; when the loop is
\* done, modbus_check_response classifies the answer.
MasterRead ==
    /\ mpc = Recv
    /\ rx # <<>>
    /\ LET r    == ReceiveRead(transport, frames, rcv, rx)
           rest == SubSeq(rx, ReadAmount(rcv, rx) + 1, Len(rx))
       IN  /\ rcv' = r
           /\ IF r.status = Waiting
              THEN /\ rx' = rest
                   /\ UNCHANGED <<down, wire, mpc, last, lastSize, conn>>
              ELSE IF r.status = TOO_MANY_DATAS
              THEN /\ ErrorTreat(TRUE, rest)
                   /\ Complete([ret |-> TOO_MANY_DATAS], r.msg, Len(r.msg), FALSE)
              ELSE \E u \in UninitBytes :
                   LET chk == CheckComplete(r.msg, u)
                       \* on a CRC mismatch response_size keeps the bytes read
                       size == IF chk.ret = INVALID_CRC THEN Len(r.msg) ELSE chk.ret
                   IN  /\ ErrorTreat(chk.treat, rest)
                       /\ Complete(chk, r.msg, size, FALSE)
    /\ UNCHANGED <<transport, error_handling, calls, frames, t_id, faults>>

\* select() times out.  response_size is the bytes received, or, when the
\* first wait timed out, never written: it then holds whatever its stack
\* slot held, here the value the previous check left there (or anything
\* else), and the response buffer still holds the previous answer.
MasterTimeout ==
    /\ mpc = Recv
    /\ rx = <<>>
    /\ SlaveLate \/ (down = <<>> /\ wire = <<>>)
    /\ rcv' = ReceiveTimeout(rcv)
    /\ \E size \in IF rcv.sized THEN {Len(rcv.msg)} ELSE {lastSize, None} :
         LET buf == CASE rcv.sized -> rcv.msg
                      [] size <= Len(last.buf) -> SubSeq(last.buf, 1, size)
                      [] OTHER -> last.buf
             chk == IF size = ExceptionSize /\ Len(buf) = size
                    THEN CheckShort(buf, calls[Len(calls)].fc)
                    ELSE [ret |-> COMM_TIME_OUT, treat |-> TRUE, aborts |-> FALSE]
         IN  /\ ErrorTreat(chk.treat, rx)
             /\ IF chk.aborts
                THEN mpc' = Aborted /\ UNCHANGED <<last, lastSize>>
                ELSE Complete(chk, buf, size, TRUE)
    /\ UNCHANGED <<transport, error_handling, calls, frames, t_id, faults>>

\* receive_msg fails with an I/O error, `r` its state after the failure:
\* error_treat has run, and modbus_check_response passes the code on
\* without using response_size.  The response buffer holds what was read.
ReceiveError(r) ==
    /\ rcv' = r
    /\ ErrorTreat(TRUE, rx)
    /\ Complete([ret |-> r.status], IF r.sized THEN r.msg ELSE last.buf,
                IF r.sized THEN Len(r.msg) ELSE lastSize, FALSE)
    /\ UNCHANGED <<transport, error_handling, calls, frames, t_id>>

\* select() fails (not EINTR) while the master waits.
SelectFailure ==
    /\ IOFaults /\ faults < MaxFaults
    /\ faults' = faults + 1
    /\ mpc = Recv
    /\ ReceiveError(ReceiveSelectFailure(rcv))

\* select() reports the descriptor ready and read()/recv() returns -1.
ReadFailure ==
    /\ IOFaults /\ faults < MaxFaults
    /\ faults' = faults + 1
    /\ mpc = Recv
    /\ ReceiveError(ReceiveReadFailure(rcv))

\* The slave takes the oldest query and answers it (echoing its
\* transaction id), answers with an exception, or drops it.
SlaveReply ==
    /\ down # <<>>
    /\ LET q   == frames[Head(down)]
           c   == calls[q.req]
           oks == IF Noise /\ transport = RTU THEN BOOLEAN ELSE {TRUE}
           answers ==
               {ResponseFrame(transport, Unit, c.fc, c.addr, c.count,
                              SlaveIdLength, q.txn, ok, q.req) : ok \in oks}
               \cup {ExceptionFrame(transport, Unit, c.fc, code, q.txn, ok, q.req) :
                       code \in ExceptionCodes, ok \in oks}
       IN  \E a \in answers :
             /\ frames' = Append(frames, a)
             /\ wire' = wire \o FrameBytes(frames', Len(frames'))
    /\ down' = Tail(down)
    /\ UNCHANGED <<transport, error_handling, calls, rx, mpc, rcv, t_id, last, lastSize, conn, faults>>

SlaveDrop ==
    /\ SlaveSilent
    /\ down # <<>>
    /\ down' = Tail(down)
    /\ UNCHANGED <<transport, error_handling, calls, frames, wire, rx, mpc, rcv, t_id, last,
                   lastSize, conn, faults>>

\* Answer bytes reach the master's descriptor.
Arrive ==
    /\ wire # <<>>
    /\ \E k \in 1..Len(wire) :
         /\ rx' = rx \o SubSeq(wire, 1, k)
         /\ wire' = SubSeq(wire, k + 1, Len(wire))
    /\ UNCHANGED <<transport, error_handling, calls, frames, down, mpc, rcv, t_id, last, lastSize,
                   conn, faults>>

\* The application has made all its calls and nothing is in flight.
Finished ==
    /\ \/ mpc = Idle /\ Len(calls) = MaxCalls /\ down = <<>> /\ wire = <<>>
       \/ mpc = Aborted
    /\ UNCHANGED vars

\* Values an application can pass to modbus_set_error_handling: the two
\* modes and anything else.
HandlingArgs == {RECONNECT_ON_ERROR, NOP_ON_ERROR, "invalid"}

\* modbus_set_error_handling, between two calls: a valid mode replaces the
\* handle's; any other value leaves it unchanged.  On RTU error_treat never
\* reads the field, so there the call is a stuttering step, left out; so
\* is a call after the last call, when no error_treat can read it.
SetErrorHandling ==
    /\ mpc = Idle
    /\ transport = TCP
    /\ Len(calls) < MaxCalls
    /\ \E eh \in HandlingArgs :
         error_handling' = IF eh \in {RECONNECT_ON_ERROR, NOP_ON_ERROR}
                           THEN eh ELSE error_handling
    /\ UNCHANGED <<transport, calls, frames, down, wire, rx, mpc, rcv, t_id,
                   last, lastSize, conn, faults>>

Next == Call \/ SendFailure \/ MasterRead \/ MasterTimeout
        \/ SelectFailure \/ ReadFailure \/ SlaveReply \/ SlaveDrop
        \/ Arrive \/ SetErrorHandling \/ Finished

Spec == Init /\ [][Next]_vars

\* select() returns within its timeout and a ready descriptor is read, so
\* a waiting master always takes its next step; the slave is assumed to
\* answer what it takes, and bytes on the line to arrive.
FairSpec ==
    /\ Spec
    /\ WF_vars(MasterRead) /\ WF_vars(MasterTimeout)
    /\ WF_vars(SlaveReply) /\ WF_vars(Arrive)

-----------------------------------------------------------------------------
(* The refinement: the master implements ModbusCall.                       *)
(***************************************************************************)

\* The calls as the operations put them on the wire.
CallShapes == {[op |-> c.op, fc |-> OpFc(c.op), addr |-> c.addr,
                count |-> QueryCount(c.op, c.count)] : c \in Calls}

\* The value a call returns for its own well-formed answer: the count for
\* reads and multiple writes, 1 for a single write, the bytes received
\* for report_slave_id.
AnswerValue(t, c) ==
    CASE c.op \in {"force_single_coil", "preset_single_register"} -> 1
      [] c.op = "report_slave_id"
            -> header_length(t) + 3 + SlaveIdLength + checksum_size(t)
      [] OTHER -> c.count

LibraryErrors == {COMM_TIME_OUT, PORT_SOCKET_FAILURE, SELECT_FAILURE,
                  TOO_MANY_DATAS, INVALID_CRC, INVALID_EXCEPTION_CODE,
                  CONNECTION_CLOSED}

NoCall == [op |-> "none", fc |-> 0, addr |-> 0, count |-> 0]

CallSpec == INSTANCE ModbusCall WITH
    Answer     <- AnswerValue,
    Exceptions <- {-k : k \in ExceptionCodes},
    Errors     <- LibraryErrors,
    NoRet      <- None,
    link       <- transport,
    busy       <- mpc = Recv,
    call       <- IF calls = <<>> THEN NoCall ELSE calls[Len(calls)],
    ret        <- last.ret

-----------------------------------------------------------------------------
(* Properties.                                                             *)
(***************************************************************************)

StreamByte == Nat \X Nat

TypeOK ==
    /\ transport \in TransportSet
    /\ Len(calls) <= MaxCalls
    /\ \A i \in 1..Len(down) : down[i] \in 1..Len(frames)
    /\ wire \in Seq(StreamByte) /\ rx \in Seq(StreamByte)
    /\ mpc \in {Idle, Recv, Aborted}
    /\ t_id \in 0..UINT16_MAX
    /\ last.req \in 0..Len(calls)
    /\ conn \in 0..Len(calls)
    /\ faults \in 0..MaxFaults

\* A completed call returned a value that claims an answer: a count, a
\* value, or an exception code (not one of the library's own errors).
Believed(ret) == ret >= -11

\* On RTU the CRC stands between the line and the caller: whatever the
\* master believes (a count or an exception code) was read from one whole
\* answer frame that noise had not touched.
CrcGuardsResult ==
    (transport = RTU /\ mpc = Idle /\ Believed(last.ret))
    => CrcMatches(frames, last.buf)

\* An exception that answers the call is surfaced (modbus_check_response's
\* timeout branch): when a call's wait timed out and the bytes it read are
\* exactly its own intact exception answer, the call returns minus the
\* exception code, and that code lies inside TAB_ERROR_MSG: on a code past
\* the table the check reaches free(s_error), the process aborts, and no
\* value is returned.  (A select() or read() failure after the exception
\* arrived returns the failure instead.)
ExceptionCodeSurfaced ==
    LET b == last.buf
    IN  (/\ mpc = Idle /\ last.req > 0 /\ last.timedOut
         /\ IsWholeFrame(frames, b)
         /\ frames[b[1][1]].req = last.req
         /\ frames[b[1][1]].ok
         /\ frames[b[1][1]].pdu[2] >= 128)
        => /\ frames[b[1][1]].pdu[3] < NB_TAB_ERROR_MSG
           /\ last.ret = -frames[b[1][1]].pdu[3]

\* Every value a call believes comes from an answer to that very call, never
\* from a late answer to an earlier one.
ResultAnswersCall ==
    (mpc = Idle /\ last.req > 0 /\ Believed(last.ret))
    => \A i \in 1..Len(last.buf) : frames[last.buf[i][1]].req = last.req

\* A call whose wait timed out reports an error: it never returns a count
\* as if the answer had been complete.
TimeoutIsAnError ==
    (mpc = Idle /\ last.timedOut) => last.ret < 0

\* No call made yet: the initial states.
NoCallYet == calls = <<>> /\ mpc = Idle

\* A few byte values for the CRC checks over byte strings.
CrcBytes == {0, 1, 17, 128, 255}

\* The bytes modbus_send appends on RTU are the CRC-16/MODBUS of the
\* frame, low byte first, as the bitwise reference computes it: for all
\* 256 one-byte frames (their first step indexes every entry of both
\* tables), all two-byte frames over CrcBytes, and the spec's example
\* requests S2 and S3.  A fact about pure functions, checked once, in the
\* initial states.
CrcIsModbusCrc ==
    NoCallYet =>
      /\ \A b \in 0..255 : AppendCrc(<<b>>) = RefFrame(<<b>>)
      /\ \A s \in [1..2 -> CrcBytes] : AppendCrc(s) = RefFrame(s)
      /\ AppendCrc(<<\h11, \h03, \h00, \h6B, \h00, \h03>>)
           = <<\h11, \h03, \h00, \h6B, \h00, \h03, \h76, \h87>>
      /\ AppendCrc(<<\h11, \h05, \h00, \hAC, \hFF, \h00>>)
           = <<\h11, \h05, \h00, \hAC, \hFF, \h00, \h4E, \h8B>>

\* What the CrcMatches abstraction of check_crc16 relies on: a frame as
\* modbus_send wrote it passes check_crc16, and the same frame with any
\* one byte changed to any other value fails it, for every one-byte frame
\* and every two-byte frame over CrcBytes.  Checked once, in the initial
\* states.
CrcDetectsByteError ==
    NoCallYet =>
      \A s \in [1..1 -> 0..255] \cup [1..2 -> CrcBytes] :
        LET f == AppendCrc(s)
        IN  /\ CheckCrc16Rtu(f) = 0
            /\ \A p \in 1..Len(f), v \in 0..255 :
                 v # f[p] => CheckCrc16Rtu([f EXCEPT ![p] = v]) # 0

\* The master implements ModbusCall: one call at a time, every call
\* returns, and what it returns is its own answer's value, an exception
\* code or a library error, never the value of a stale or foreign answer
\* (modbus_check_response and the operations' status handling).
RefinesCallSpec == CallSpec!Spec
=============================================================================
