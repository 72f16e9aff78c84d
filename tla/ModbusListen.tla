----------------------------- MODULE ModbusListen -----------------------------
(***************************************************************************)
(* The server's receive side: modbus_listen, which calls receive_msg with  *)
(* MSG_SIZE_UNDEFINED (the frame length is discovered from the function    *)
(* code) and then check_crc16, against a peer that writes query frames     *)
(* into the stream.                                                        *)
(*                                                                         *)
(* The stream has two parts: `wire`, bytes written by the peer that have   *)
(* not yet reached the descriptor, and `rx`, bytes the descriptor holds    *)
(* and a read() returns.  Arrive moves any prefix of wire into rx, so      *)
(* bytes arrive in chunks of any size and at any time.  select() times     *)
(* out only when rx is empty; with Stall it may also do so while bytes     *)
(* are still on the way (a gap longer than TIME_OUT_END_OF_TRAME, or the   *)
(* 60 s initial wait running out in the middle of a frame).                *)
(***************************************************************************)
EXTENDS ReceiveEngine

CONSTANTS
    Queries,        \* query shapes the peer writes: [fc, addr, count, bc]
    Unit,           \* the unit (slave) byte of every query
    MaxFrames,      \* bound on the number of frames the peer writes
    Stall,          \* may the peer stall longer than the timeout mid-frame?
    Noise,          \* may line noise corrupt an RTU frame's data or CRC?
    ErrorHandling   \* the handle's error_handling (TCP)

RECONNECT_ON_ERROR == "RECONNECT_ON_ERROR"
NOP_ON_ERROR       == "NOP_ON_ERROR"

ASSUME /\ MaxFrames \in Nat
       /\ Stall \in BOOLEAN /\ Noise \in BOOLEAN
       /\ ErrorHandling \in {RECONNECT_ON_ERROR, NOP_ON_ERROR}

VARIABLES
    transport,  \* the handle's type_com, fixed at init
    frames,     \* every frame the peer has written, in order
    wire,       \* written bytes not yet at the descriptor
    rx,         \* bytes at the descriptor, not yet read
    rcv,        \* the current (or last) receive_msg call
    pc,         \* "idle" between calls to modbus_listen, "recv" inside one
    result      \* what the last modbus_listen returned (None before any)

vars == <<transport, frames, wire, rx, rcv, pc, result>>

Idle == "idle"
Recv == "recv"
None == 2   \* not a return value: no call has returned yet

-----------------------------------------------------------------------------

\* error_treat on the server's handle: RTU flushes what the descriptor
\* holds (tcflush TCIOFLUSH: bytes still on the line arrive later); TCP with
\* RECONNECT_ON_ERROR closes the connection, and everything queued on it
\* with it; NOP_ON_ERROR leaves the stream alone.
ErrorTreat(rxAfter) ==
    CASE transport = RTU
            -> rx' = <<>> /\ UNCHANGED wire
      [] ErrorHandling = RECONNECT_ON_ERROR
            -> rx' = <<>> /\ wire' = <<>>
      [] OTHER
            -> rx' = rxAfter /\ UNCHANGED wire

-----------------------------------------------------------------------------

Init ==
    /\ transport \in Transports
    /\ frames = <<>>
    /\ wire = <<>>
    /\ rx = <<>>
    /\ rcv = ReceiveBegin(transport, MSG_SIZE_UNDEFINED)
    /\ pc = Idle
    /\ result = None

\* The peer writes one whole query frame (the master's modbus_send).
PeerSend ==
    /\ Len(frames) < MaxFrames
    /\ \E q \in Queries, ok \in IF Noise /\ transport = RTU
                                THEN BOOLEAN ELSE {TRUE} :
         LET fr == QueryFrame(transport, Unit, q.fc, q.addr, q.count, q.bc, 0, ok, 0)
         IN  /\ frames' = Append(frames, fr)
             /\ wire' = wire \o FrameBytes(frames', Len(frames'))
    /\ UNCHANGED <<transport, rx, rcv, pc, result>>

\* Some bytes on the way reach the descriptor.
Arrive ==
    /\ wire # <<>>
    /\ \E k \in 1..Len(wire) :
         /\ rx' = rx \o SubSeq(wire, 1, k)
         /\ wire' = SubSeq(wire, k + 1, Len(wire))
    /\ UNCHANGED <<transport, frames, rcv, pc, result>>

\* modbus_listen is called: receive_msg starts with an undefined size and
\* blocks in its first WAIT_DATA.
Listen ==
    /\ pc = Idle
    /\ rcv' = ReceiveBegin(transport, MSG_SIZE_UNDEFINED)
    /\ pc' = Recv
    /\ UNCHANGED <<transport, frames, wire, rx, result>>

\* select() reports data: one pass of the read loop.  When the loop ends,
\* receive_msg returns and modbus_listen calls check_crc16; TOO_MANY_DATAS and
\* a CRC mismatch call error_treat.
Read ==
    /\ pc = Recv
    /\ rx # <<>>
    /\ LET r    == ReceiveRead(transport, frames, rcv, rx)
           rest == SubSeq(rx, ReadAmount(rcv, rx) + 1, Len(rx))
       IN  CASE r.status = Waiting ->
                  /\ rcv' = r /\ rx' = rest
                  /\ UNCHANGED <<wire, pc, result>>
             [] r.status = TOO_MANY_DATAS ->
                  /\ rcv' = r /\ ErrorTreat(rest)
                  /\ pc' = Idle /\ result' = TOO_MANY_DATAS
             [] OTHER ->
                  LET ret == check_crc16(transport, frames, r.msg)
                  IN  /\ rcv' = r
                      /\ IF ret = 0 THEN rx' = rest /\ UNCHANGED wire
                                    ELSE ErrorTreat(rest)
                      /\ pc' = Idle /\ result' = ret
    /\ UNCHANGED <<transport, frames>>

\* select() returns 0: receive_msg and modbus_listen return COMM_TIME_OUT
\* (WAIT_DATA leaves error_treat to the caller, which does not call it).
Timeout ==
    /\ pc = Recv
    /\ rx = <<>>
    /\ Stall \/ wire = <<>>
    /\ rcv' = ReceiveTimeout(rcv)
    /\ pc' = Idle
    /\ result' = COMM_TIME_OUT
    /\ UNCHANGED <<transport, frames, wire, rx>>

Next == PeerSend \/ Arrive \/ Listen \/ Read \/ Timeout

Spec == Init /\ [][Next]_vars

-----------------------------------------------------------------------------
(* Properties.                                                             *)
(***************************************************************************)

\* The framing of receive_msg (compute_query_size_header, then
\* compute_query_size_data) is right: a call that starts at the first byte
\* of an intact query that fits MAX_PACKET_SIZE and is not cut short by a timeout returns that query,
\* all of it and nothing more, and modbus_listen accepts it.
AlignedIntactQueryAccepted ==
    (/\ pc = Idle
     /\ result \notin {None, COMM_TIME_OUT}
     /\ rcv.msg # <<>>
     /\ rcv.msg[1][2] = 0
     /\ frames[rcv.msg[1][1]].ok
     /\ frames[rcv.msg[1][1]].len <= MAX_PACKET_SIZE)
    => /\ result = 0
       /\ IsWholeFrame(frames, rcv.msg)

\* Whatever modbus_listen accepts (returns 0 for) is exactly one whole query:
\* manage_query never sees the tail of one query glued to the head of the
\* next.
AcceptedIsWholeQuery ==
    (pc = Idle /\ result = 0) => IsWholeFrame(frames, rcv.msg)

\* receive_msg never stores more than MAX_PACKET_SIZE bytes into the
\* caller's buffer.
NoBufferOverrun ==
    Len(rcv.msg) <= MAX_PACKET_SIZE
=============================================================================
