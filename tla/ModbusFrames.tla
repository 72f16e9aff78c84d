----------------------------- MODULE ModbusFrames -----------------------------
(***************************************************************************)
(* Frame layout and the size oracles of src/modbus/modbus.c.               *)
(*                                                                         *)
(* A frame on the wire is abstracted to a record: the bytes the library    *)
(* ever reads at a fixed offset (unit, function code, address, count,      *)
(* byte count, exception code) are kept in `pdu`, as their numeric byte    *)
(* values; every later byte (register/coil data, CRC) has the abstract     *)
(* value Filler; `len` is the number of bytes of the whole frame,          *)
(* envelope and checksum included; `ok` is FALSE when line noise has       *)
(* corrupted a data or CRC byte; `crcAt` holds the lengths of prefixes     *)
(* that end in a valid CRC of the bytes before it other than the whole     *)
(* frame (a query echoed with its own CRC).  A byte in a stream is the pair *)
(* <<frame index, 0-based position>>, so a buffer always knows which       *)
(* frame each of its bytes came from.                                      *)
(***************************************************************************)
EXTENDS Integers, Sequences

\* Transports and their envelope sizes (modbus.h, spec section 6).
RTU == "RTU"
TCP == "TCP"
Transports == {RTU, TCP}
HEADER_LENGTH_RTU == 0
CHECKSUM_SIZE_RTU == 2
HEADER_LENGTH_TCP == 6
CHECKSUM_SIZE_TCP == 0
header_length(t) == IF t = RTU THEN HEADER_LENGTH_RTU ELSE HEADER_LENGTH_TCP
checksum_size(t) == IF t = RTU THEN CHECKSUM_SIZE_RTU ELSE CHECKSUM_SIZE_TCP

MAX_PACKET_SIZE == 260

\* Function codes (modbus.h).
FC_READ_COIL_STATUS          == 1
FC_READ_INPUT_STATUS         == 2
FC_READ_HOLDING_REGISTERS    == 3
FC_READ_INPUT_REGISTERS      == 4
FC_FORCE_SINGLE_COIL         == 5
FC_PRESET_SINGLE_REGISTER    == 6
FC_READ_EXCEPTION_STATUS     == 7
FC_FORCE_MULTIPLE_COILS      == 15
FC_PRESET_MULTIPLE_REGISTERS == 16
FC_REPORT_SLAVE_ID           == 17

\* The value of a byte the library never inspects (data, CRC, padding).
Filler == 0

Hi(v) == v \div 256
Lo(v) == v % 256

\* Number of bytes needed for n packed bits: (n / 8) + ((n % 8) ? 1 : 0).
BitBytes(n) == (n \div 8) + (IF n % 8 # 0 THEN 1 ELSE 0)

-----------------------------------------------------------------------------
(* Size oracles.                                                           *)
(***************************************************************************)

\* compute_response_size: the size of the response the master waits for,
\* from the function code and count of its own query.
compute_response_size(t, fc, count) ==
    LET body == CASE fc \in {FC_READ_COIL_STATUS, FC_READ_INPUT_STATUS}
                        -> 3 + BitBytes(count)
                  [] fc \in {FC_READ_HOLDING_REGISTERS, FC_READ_INPUT_REGISTERS}
                        -> 3 + 2 * count
                  [] fc = FC_READ_EXCEPTION_STATUS -> 4
                  [] OTHER -> 6
    IN  body + header_length(t) + checksum_size(t)

\* A plausible fault: a strict comparison with FC_FORCE_SINGLE_COIL.
compute_query_size_header_lt(fc) ==
    IF fc < FC_FORCE_SINGLE_COIL THEN 4
    ELSE IF fc \in {FC_FORCE_MULTIPLE_COILS, FC_PRESET_MULTIPLE_REGISTERS} THEN 5
    ELSE 0

\* compute_query_size_header: the bytes a query carries after its function
\* code.  The code compares with FC_FORCE_SINGLE_COIL (0x05).
compute_query_size_header(fc) ==
    IF fc <= FC_FORCE_SINGLE_COIL THEN 4
    ELSE IF fc \in {FC_FORCE_MULTIPLE_COILS, FC_PRESET_MULTIPLE_REGISTERS} THEN 5
    ELSE 0

\* compute_query_size_data: the data bytes of a multiple write (its byte
\* count field, a uint8_t) plus the checksum.  `byte` is a uint8_t, so the
\* sum is taken modulo 256.
compute_query_size_data(t, fc, byteCountField) ==
    LET data == IF fc \in {FC_FORCE_MULTIPLE_COILS, FC_PRESET_MULTIPLE_REGISTERS}
                THEN byteCountField ELSE 0
    IN  (data + checksum_size(t)) % 256

-----------------------------------------------------------------------------
(* Queries as the master builds them (build_query_packet and the           *)
(* functions that append to it).                                           *)
(***************************************************************************)

\* The PDU bytes of a query, from the unit byte on.
QueryPdu(unit, fc, addr, count, byteCount) ==
    CASE fc = FC_REPORT_SLAVE_ID
            -> <<unit, fc>>
      [] fc \in {FC_FORCE_MULTIPLE_COILS, FC_PRESET_MULTIPLE_REGISTERS}
            -> <<unit, fc, Hi(addr), Lo(addr), Hi(count), Lo(count), byteCount>>
      [] OTHER
            -> <<unit, fc, Hi(addr), Lo(addr), Hi(count), Lo(count)>>

\* A frame of transport t: its PDU, `dataLen` bytes after it, the envelope.
\* `req` numbers the master call the frame belongs to.
MakeFrame(t, pdu, dataLen, txn, ok, req) ==
    [pdu |-> pdu, txn |-> txn, ok |-> ok, req |-> req, crcAt |-> {},
     len |-> header_length(t) + Len(pdu) + dataLen + checksum_size(t)]

\* A query frame: the PDU and, for a multiple write, its data bytes.
QueryFrame(t, unit, fc, addr, count, byteCount, txn, ok, req) ==
    MakeFrame(t, QueryPdu(unit, fc, addr, count, byteCount),
              IF fc \in {FC_FORCE_MULTIPLE_COILS, FC_PRESET_MULTIPLE_REGISTERS}
              THEN byteCount ELSE 0,
              txn, ok, req)

\* The answer a conforming slave gives to a query: a read returns a byte
\* count and that many data bytes, a write echoes address and count,
\* report slave id returns `idLen` bytes.
ResponseFrame(t, unit, fc, addr, count, idLen, txn, ok, req) ==
    CASE fc \in {FC_READ_COIL_STATUS, FC_READ_INPUT_STATUS}
            -> MakeFrame(t, <<unit, fc, BitBytes(count)>>, BitBytes(count),
                         txn, ok, req)
      [] fc \in {FC_READ_HOLDING_REGISTERS, FC_READ_INPUT_REGISTERS}
            -> MakeFrame(t, <<unit, fc, Lo(2 * count)>>, 2 * count, txn, ok, req)
      [] fc = FC_REPORT_SLAVE_ID
            -> MakeFrame(t, <<unit, fc, idLen>>, idLen, txn, ok, req)
      [] OTHER
            -> MakeFrame(t, <<unit, fc, Hi(addr), Lo(addr), Hi(count), Lo(count)>>,
                         0, txn, ok, req)

\* An exception response: the function code with its high bit set and the
\* exception code.
ExceptionFrame(t, unit, fc, code, txn, ok, req) ==
    MakeFrame(t, <<unit, 128 + fc, code>>, 0, txn, ok, req)

\* The value of byte p (0-based) of frame fr: the MBAP header (transaction
\* id, protocol 0, length) on TCP, then the PDU, then Filler.
FrameByte(t, fr, p) ==
    LET hl == header_length(t)
        mbap == <<Hi(fr.txn), Lo(fr.txn), 0, 0,
                  Hi(fr.len - 6), Lo(fr.len - 6)>>
    IN  IF p < hl THEN mbap[p + 1]
        ELSE IF p - hl < Len(fr.pdu) THEN fr.pdu[p - hl + 1]
        ELSE Filler

\* The bytes of frame number f of a log, as stream elements.
FrameBytes(frames, f) == [i \in 1..frames[f].len |-> <<f, i - 1>>]

\* The value of the byte at 0-based index i of a buffer of stream bytes.
BufByte(t, frames, buf, i) ==
    FrameByte(t, frames[buf[i + 1][1]], buf[i + 1][2])

\* A buffer is one whole frame, every byte of it in order and nothing else.
IsWholeFrame(frames, buf) ==
    /\ buf # <<>>
    /\ buf = FrameBytes(frames, buf[1][1])

\* check_crc16's verdict abstracted: the CRC over all but the last two bytes
\* matches the last two exactly when the buffer is the start of one frame
\* and ends where that frame carries a valid CRC: at its end if noise has
\* not touched it, or at one of its crcAt lengths (a CRC-16 collision is
\* not modelled).
CrcMatches(frames, buf) ==
    /\ buf # <<>>
    /\ buf = [i \in 1..Len(buf) |-> <<buf[1][1], i - 1>>]
    /\ \/ Len(buf) = frames[buf[1][1]].len /\ frames[buf[1][1]].ok
       \/ Len(buf) \in frames[buf[1][1]].crcAt
=============================================================================
