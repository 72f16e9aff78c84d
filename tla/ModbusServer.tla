----------------------------- MODULE ModbusServer -----------------------------
(***************************************************************************)
(* The server's answer to a received query: manage_query over a            *)
(* modbus_mapping_t, with build_response_packet and response_io_status,    *)
(* as an operator from the query bytes and the mapping to the response    *)
(* frame and the new mapping.  ModbusSystem composes it with the master.   *)
(*                                                                         *)
(* Register tables are never written by the implemented function codes    *)
(* (modbus_mapping_new zeroes them), so their bytes are Filler; the coil   *)
(* table is a function from address to ON/OFF, and the input status table *)
(* stays zero.  A read past the end of a table is undefined: its bits are *)
(* the `junk` the caller chooses.  A write past the end is undefined too;  *)
(* the outcome modelled is that the table is unchanged.                    *)
(***************************************************************************)
EXTENDS ReceiveEngine, ModbusBits

\* The value of bit i of a table, or `junk` past its end.
TabBit(tab, i, junk) == IF i \in DOMAIN tab THEN tab[i] ELSE junk

\* response_io_status's loop: bit i of the table is or-ed into `byte` at
\* position `shift`; a full byte (shift 7) is emitted and both reset; a
\* partial last byte is emitted after the loop.
RECURSIVE IoStatusLoop(_, _, _, _, _, _, _)
IoStatusLoop(tab, i, end, shift, byte, out, junk) ==
    IF i >= end
    THEN IF shift # 0 THEN Append(out, byte) ELSE out
    ELSE LET b == byte + TabBit(tab, i, junk) * 2^shift
         IN  IF shift = 7 THEN IoStatusLoop(tab, i + 1, end, 0, 0, Append(out, b), junk)
             ELSE IoStatusLoop(tab, i + 1, end, shift + 1, b, out, junk)

\* The address parameter is a uint8_t: the query's 16-bit address is cut
\* to its low byte before the loop indexes the table.
response_io_status(address, count, tab, junk) ==
    IoStatusLoop(tab, address % 256, (address % 256) + count, 0, 0, <<>>, junk)

\* A plausible fault: the "+1" of build_response_packet dropped, so the
\* data overwrite the byte count.
ResponseHeaderSizeNoFix(t) == header_length(t) + 2

\* The offset build_response_packet returns: header, slave, function, byte
\* count (PRESET_RESPONSE_SIZE + 1).
ResponseHeaderSize(t) == header_length(t) + 3

\* build_response_packet_tcp's own static transaction counter.
NextServerTid(tid, max) == IF tid < max THEN tid + 1 ELSE 0

\* A read response: the envelope and byte count, then the data.
ReadResponse(t, slave, fc, bc, data, dataLen, txn, req) ==
    MakeFrame(t, SubSeq(<<slave, fc, Lo(bc)>>, 1, ResponseHeaderSize(t) - header_length(t))
                 \o data,
              dataLen, txn, TRUE, req)

\* manage_query on the query `msg` (stream bytes of `frames`): the response
\* modbus_send writes, the coil table after it, and the server's counter.
\* force_single_coil copies the whole query, its CRC included, and
\* modbus_send appends another CRC; the function codes it does not
\* implement send `offset` (header_length) bytes of an unset buffer.
ManageQuery(t, frames, msg, coils, inputs, tid, max, junk) ==
    LET hl == header_length(t)
        B(i) == BufByte(t, frames, msg, i)
        slave    == B(hl)
        function == B(hl + 1)
        address  == B(hl + 2) * 256 + B(hl + 3)
        count    == B(hl + 4) * 256 + B(hl + 5)
        req      == frames[msg[1][1]].req
        txn      == IF t = TCP THEN NextServerTid(tid, max) ELSE tid
        bits(tab) == response_io_status(address, count, tab, junk)
    IN  CASE function \in {FC_READ_COIL_STATUS, FC_READ_INPUT_STATUS} ->
               LET tab == IF function = FC_READ_COIL_STATUS THEN coils ELSE inputs
               IN  [resp  |-> ReadResponse(t, slave, function, BitBytes(count),
                                           bits(tab), 0, txn, req),
                    coils |-> coils, tid |-> txn]
          [] function \in {FC_READ_HOLDING_REGISTERS, FC_READ_INPUT_REGISTERS} ->
               [resp  |-> ReadResponse(t, slave, function, 2 * count, <<>>,
                                       2 * count, txn, req),
                coils |-> coils, tid |-> txn]
          [] function = FC_FORCE_SINGLE_COIL ->
               LET qlen == Len(msg)
               IN  [resp  |-> [MakeFrame(t, <<slave, function, B(hl + 2), B(hl + 3),
                                              B(hl + 4), B(hl + 5)>>,
                                         qlen - hl - 6, B(0) * 256 + B(1), TRUE, req)
                               EXCEPT !.crcAt = IF t = RTU THEN {qlen} ELSE {}],
                    coils |-> IF address \in DOMAIN coils /\ count \in {65280, 0}
                              THEN [coils EXCEPT ![address] = IF count = 65280
                                                              THEN ON ELSE OFF]
                              ELSE coils,
                    tid |-> tid]
          [] OTHER ->
               [resp |-> MakeFrame(t, <<>>, 0, 0, TRUE, req) ,
                coils |-> coils, tid |-> tid]
=============================================================================
