----------------------------- MODULE ModbusSystem -----------------------------
(***************************************************************************)
(* A libmodbus master talking to a libmodbus server: the master's actions  *)
(* of ModbusMaster, with the server loop (modbus_listen, then manage_query *)
(* on success) in the place of the environment slave.  Queries reach the  *)
(* server's descriptor whole (chunking on that side is ModbusListen's      *)
(* subject); answers reach the master in chunks of any size.  The server   *)
(* answers at once: the master's select() times out only when nothing is   *)
(* on its way to either side.                                              *)
(*                                                                         *)
(* The TCP server accepts one connection (modbus_init_listen_tcp) and      *)
(* serves it until the peer disconnects.  When the master's error_treat    *)
(* reconnects (conn > 0), the server's socket reads end-of-file, and the   *)
(* master's new connection waits in the listen backlog, never accepted.    *)
(***************************************************************************)
EXTENDS ModbusMaster, ModbusServer

CONSTANTS
    NbCoilStatus,         \* modbus_mapping_new's table sizes
    NbInputStatus,
    NbHoldingRegisters,
    NbInputRegisters

VARIABLES
    srx,      \* bytes at the server's descriptor
    spc,      \* the server loop: "idle" or inside modbus_listen ("recv")
    srcv,     \* the server's receive_msg call
    coils,    \* tab_coil_status
    s_t_id,   \* build_response_packet_tcp's static counter
    sentOn    \* history: the connection the current call's query went on

svars == <<srx, spc, srcv, coils, s_t_id>>

Closed == "closed"   \* the server loop has ended

\* The server's socket is the master's current connection.
Served == conn = 0
allvars == <<vars, svars, sentOn>>

\* tab_input_status: zeroed by modbus_mapping_new, written by nothing.
InputStatus == [i \in 0..NbInputStatus - 1 |-> OFF]

\* The server loop's handling of a modbus_listen error: error_treat on the
\* server's handle flushes an RTU line; on TCP the connection is lost.
ServerErrorTreat(rest) ==
    IF transport = RTU \/ ErrorHandling = RECONNECT_ON_ERROR
    THEN srx' = <<>> ELSE srx' = rest

SysInit ==
    /\ Init
    /\ srx = <<>>
    /\ spc = Idle
    /\ srcv = ReceiveBegin(transport, MSG_SIZE_UNDEFINED)
    /\ coils = [i \in 0..NbCoilStatus - 1 |-> OFF]
    /\ s_t_id = 0
    /\ sentOn = 0

\* A query the master sent reaches the server's descriptor, or, sent on a
\* connection the server never accepted, stays in the listen backlog.
ServerArrive ==
    /\ down # <<>>
    /\ srx' = IF Served THEN srx \o FrameBytes(frames, Head(down)) ELSE srx
    /\ down' = Tail(down)
    /\ UNCHANGED <<transport, error_handling, calls, frames, wire, rx, mpc, rcv, t_id, last,
                   lastSize, conn, spc, srcv, coils, s_t_id, faults>>

\* The server loop calls modbus_listen.
ServerListen ==
    /\ spc = Idle
    /\ srcv' = ReceiveBegin(transport, MSG_SIZE_UNDEFINED)
    /\ spc' = Recv
    /\ UNCHANGED <<vars, srx, coils, s_t_id>>

\* One pass of the server's receive loop; when modbus_listen returns 0 the
\* loop calls manage_query, whose modbus_send writes the answer.
ServerRead ==
    /\ spc = Recv
    /\ srx # <<>>
    /\ LET r    == ReceiveRead(transport, frames, srcv, srx)
           rest == SubSeq(srx, ReadAmount(srcv, srx) + 1, Len(srx))
           ret  == IF r.status = TOO_MANY_DATAS THEN TOO_MANY_DATAS
                   ELSE check_crc16(transport, frames, r.msg)
       IN  /\ srcv' = r
           /\ CASE r.status = Waiting ->
                     /\ srx' = rest
                     /\ UNCHANGED <<frames, wire, spc, coils, s_t_id>>
                [] ret = 0 ->
                     \E junk \in {OFF, ON} :
                       LET mq == ManageQuery(transport, frames, r.msg, coils,
                                             InputStatus, s_t_id, UINT16_MAX, junk)
                       IN  /\ frames' = Append(frames, mq.resp)
                           /\ wire' = wire \o FrameBytes(frames', Len(frames'))
                           /\ coils' = mq.coils
                           /\ s_t_id' = mq.tid
                           /\ srx' = rest
                           /\ spc' = Idle
                [] OTHER ->
                     /\ ServerErrorTreat(rest)
                     /\ spc' = Idle
                     /\ UNCHANGED <<frames, wire, coils, s_t_id>>
    /\ UNCHANGED <<transport, error_handling, calls, down, rx, mpc, rcv, t_id, last, lastSize,
                   conn, faults>>

\* The server's 60 s wait runs out with nothing to read.
ServerTimeout ==
    /\ spc = Recv
    /\ Served
    /\ srx = <<>>
    /\ down = <<>>
    /\ spc' = Idle
    /\ srcv' = ReceiveTimeout(srcv)
    /\ UNCHANGED <<vars, srx, coils, s_t_id>>

\* The master has closed the server's connection: once its bytes are read,
\* recv() returns 0, modbus_listen returns CONNECTION_CLOSED, and the
\* server loop, which serves one peer until it disconnects, ends.
ServerClosed ==
    /\ spc = Recv
    /\ ~Served
    /\ srx = <<>>
    /\ srcv' = ReceiveClosed(srcv)
    /\ spc' = Closed
    /\ UNCHANGED <<vars, srx, coils, s_t_id>>

\* The master times out only when the server has nothing left to answer.
SysMasterTimeout ==
    /\ MasterTimeout
    /\ srx = <<>>
    /\ UNCHANGED svars

SysFinished ==
    /\ mpc = Idle /\ Len(calls) = MaxCalls
    /\ down = <<>> /\ wire = <<>> /\ srx = <<>>
    /\ UNCHANGED allvars

SysNext ==
    \/ Call /\ sentOn' = conn /\ UNCHANGED svars
    \/ MasterRead /\ UNCHANGED <<svars, sentOn>>
    \/ SysMasterTimeout /\ UNCHANGED sentOn
    \/ Arrive /\ UNCHANGED <<svars, sentOn>>
    \/ ServerArrive /\ UNCHANGED sentOn
    \/ ServerListen /\ UNCHANGED sentOn
    \/ ServerRead /\ UNCHANGED sentOn
    \/ ServerTimeout /\ UNCHANGED sentOn
    \/ ServerClosed /\ UNCHANGED sentOn
    \/ SetErrorHandling /\ UNCHANGED <<svars, sentOn>>
    \/ SysFinished

SysSpec == SysInit /\ [][SysNext]_allvars

\* Both select() calls return within their timeouts and a ready descriptor
\* is read; the server's main loop calls modbus_listen again after every
\* return (the while (1) loop of the unit-test server); TCP delivers what
\* was written.  No fairness on Call: an application may stop calling.
SysFairSpec ==
    /\ SysSpec
    /\ WF_allvars(MasterRead /\ UNCHANGED <<svars, sentOn>>)
    /\ WF_allvars(SysMasterTimeout /\ UNCHANGED sentOn)
    /\ WF_allvars(Arrive /\ UNCHANGED <<svars, sentOn>>)
    /\ WF_allvars(ServerArrive /\ UNCHANGED sentOn)
    /\ WF_allvars(ServerListen /\ UNCHANGED sentOn)
    /\ WF_allvars(ServerRead /\ UNCHANGED sentOn)
    /\ WF_allvars(ServerTimeout /\ UNCHANGED sentOn)
    /\ WF_allvars(ServerClosed /\ UNCHANGED sentOn)

-----------------------------------------------------------------------------
(* Properties.                                                             *)
(***************************************************************************)

\* The queries a conforming server answers with data, and whose range lies
\* inside the mapping.
InRange(c) ==
    CASE c.fc = FC_READ_COIL_STATUS       -> c.addr + c.count <= NbCoilStatus
      [] c.fc = FC_READ_INPUT_STATUS      -> c.addr + c.count <= NbInputStatus
      [] c.fc = FC_READ_HOLDING_REGISTERS -> c.addr + c.count <= NbHoldingRegisters
      [] c.fc = FC_READ_INPUT_REGISTERS   -> c.addr + c.count <= NbInputRegisters
      [] c.fc = FC_FORCE_SINGLE_COIL      -> c.addr < NbCoilStatus
      [] OTHER                            -> FALSE

Implemented == {FC_READ_COIL_STATUS, FC_READ_INPUT_STATUS,
                FC_READ_HOLDING_REGISTERS, FC_READ_INPUT_REGISTERS,
                FC_FORCE_SINGLE_COIL}

\* A call the server implements and whose range fits the mapping.
Servable(c) == c.fc \in Implemented /\ InRange(c)

\* A library master talking to a library server on a clean line gets, for
\* every call the server implements and whose range fits the mapping, made
\* and sent on the connection the server accepted, the value the call stands for:
\* no framing, size or CRC mismatch between manage_query's answers and
\* what modbus_check_response expects.
ServerAnswersEveryCall ==
    (mpc = Idle /\ last.req > 0 /\ sentOn = 0 /\ Servable(calls[last.req]))
    => last.ret = AnswerValue(transport, calls[last.req])

\* Once error_treat has reconnected (RECONNECT_ON_ERROR on TCP), the next
\* calls "begin from a clean state": a call the server implements, in
\* range, sent on the new connection, again returns its value.
ReconnectRestoresService ==
    (mpc = Idle /\ last.req > 0 /\ sentOn > 0 /\ Servable(calls[last.req]))
    => last.ret = AnswerValue(transport, calls[last.req])

\* Reference packing of `count` bits of `tab` from `address`: byte j holds
\* bits 8(j-1) .. 8(j-1)+7, least significant bit first.
RECURSIVE Weighted(_, _, _, _)
Weighted(tab, base, k, end) ==
    IF k = 8 THEN 0
    ELSE (IF base + k < end THEN tab[base + k] * 2^k ELSE 0)
         + Weighted(tab, base, k + 1, end)

RefPack(tab, address, count) ==
    [j \in 1..BitBytes(count) |-> Weighted(tab, address + 8 * (j - 1), 0, address + count)]

\* No call made yet and the server idle: the initial states.
AtStart == calls = <<>> /\ spc = Idle

\* The window sizes of a 10-bit table that start at addresses 0..2.
Windows == {w \in (0..2) \X (0..NbCoilStatus) : w[1] + w[2] <= NbCoilStatus}

\* The bit utilities agree with the server's packing, for every coil
\* table of the mapping's size and every window starting at 0..2:
\* response_io_status packs as the reference RefPack does; unpacking its
\* bytes with set_bits_from_bytes restores the window; a full first byte
\* unpacks the same with set_bits_from_byte; and get_byte_from_bits of
\* each (full or partial) group of 8 bits gives back each byte.  In the
\* other direction, force_multiple_coils packs the window, passed as its
\* data_src with more (set) bytes after it, as RefPack does.  A fact about
\* pure functions, checked once, in the initial states.
BitUtilitiesAgree ==
    AtStart =>
      \A tab \in [0..NbCoilStatus - 1 -> {OFF, ON}], w \in Windows :
        LET a     == w[1]
            n     == w[2]
            bytes == response_io_status(a, n, tab, OFF)
            zero  == [i \in DOMAIN tab |-> OFF]
            window == [i \in DOMAIN tab |-> IF i \in a..a + n - 1 THEN tab[i] ELSE OFF]
        IN  /\ bytes = RefPack(tab, a, n)
            /\ set_bits_from_bytes(zero, a, n, bytes) = window
            /\ n >= 8 =>
                 \A i \in a..a + 7 : set_bits_from_byte(zero, a, bytes[1])[i] = tab[i]
            /\ \A j \in 1..Len(bytes) :
                 get_byte_from_bits(tab, a + 8 * (j - 1), n - 8 * (j - 1)) = bytes[j]
            /\ ForceCoilsData([i \in 0..n + 7 |-> IF i < n THEN tab[a + i] ELSE ON], n)
                 = RefPack(tab, a, n)

\* Quantities a caller may pass to a register read: none, one, the cap,
\* just above it, the first whose byte count wraps a uint8_t, the largest.
RequestedCounts == {0, 1, MAX_READ_HOLD_REGS, MAX_READ_HOLD_REGS + 1, 128, 65535}

\* Whatever quantity a caller passes to read_holding_registers or
\* read_input_registers, the query the master sends (after its caps) gets
\* from manage_query an answer that fits response[MAX_PACKET_SIZE], whose
\* byte count (a uint8_t in build_response_packet) equals the data bytes
\* that follow it, and whose length is the compute_response_size the
\* master waits for.  Checked once, in the initial states.
ServerAnswerSized ==
    AtStart =>
      \A op \in {"read_holding_registers", "read_input_registers"},
         n \in RequestedCounts :
        LET fc  == OpFc(op)
            cnt == QueryCount(op, n)
            q   == QueryFrame(transport, Unit, fc, 0, cnt, 0, 0, TRUE, 1)
            ans == ManageQuery(transport, <<q>>, FrameBytes(<<q>>, 1), coils,
                               InputStatus, 0, UINT16_MAX, OFF).resp
        IN  /\ ans.len <= MAX_PACKET_SIZE
            /\ ans.pdu[3] = ans.len - header_length(transport) - 3
                                    - checksum_size(transport)
            /\ ans.len = compute_response_size(transport, fc, cnt)

\* End to end, a coil read the server implements, in range, sent on the
\* accepted connection and returned as a success, leaves in the caller's
\* data_dest exactly the server's coils from the start address on: the
\* master's decoding (read_io_status) inverts the server's packing
\* (response_io_status) across the stream.
CoilReadDelivered ==
    LET c == calls[last.req]
    IN  (mpc = Idle /\ last.req > 0 /\ sentOn = 0 /\ last.ret > 0
         /\ c.op = "read_coil_status" /\ InRange(c))
        => ReadIoStatusDecode(transport, frames, last.buf,
                              BufByte(transport, frames, last.buf,
                                      header_length(transport) + 2),
                              c.count)
           = [i \in 1..c.count |-> coils[c.addr + i - 1]]

\* The server answers a query that reaches past the end of its mapping
\* with exception 0x02 (illegal data address), never with data read or
\* written outside the tables.
IllegalAddressRejected ==
    [][ServerRead /\ Len(frames') > Len(frames)
       /\ ~InRange(calls[frames'[Len(frames')].req])
       /\ calls[frames'[Len(frames')].req].fc \in Implemented
       => /\ frames'[Len(frames')].pdu[2]
               = 128 + calls[frames'[Len(frames')].req].fc
          /\ frames'[Len(frames')].pdu[3] = 2]_allvars
=============================================================================
