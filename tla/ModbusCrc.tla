------------------------------ MODULE ModbusCrc ------------------------------
(***************************************************************************)
(* The RTU checksum of src/modbus/modbus.c: the table-driven crc16, the    *)
(* two bytes modbus_send appends after a frame, and the comparison         *)
(* check_crc16 makes.  Byte strings are sequences of 0..255.  The other    *)
(* modules abstract check_crc16 to "the buffer is one whole frame that     *)
(* noise did not touch" (ModbusFrames' CrcMatches); the properties of      *)
(* ModbusMaster on this module check what that abstraction stands for.    *)
(***************************************************************************)
EXTENDS Integers, Sequences, Bitwise

\* table_crc_hi[] (a sequence: entry i of the C array is at i + 1).
table_crc_hi == <<
    \h00, \hC1, \h81, \h40, \h01, \hC0, \h80, \h41, \h01, \hC0,
    \h80, \h41, \h00, \hC1, \h81, \h40, \h01, \hC0, \h80, \h41,
    \h00, \hC1, \h81, \h40, \h00, \hC1, \h81, \h40, \h01, \hC0,
    \h80, \h41, \h01, \hC0, \h80, \h41, \h00, \hC1, \h81, \h40,
    \h00, \hC1, \h81, \h40, \h01, \hC0, \h80, \h41, \h00, \hC1,
    \h81, \h40, \h01, \hC0, \h80, \h41, \h01, \hC0, \h80, \h41,
    \h00, \hC1, \h81, \h40, \h01, \hC0, \h80, \h41, \h00, \hC1,
    \h81, \h40, \h00, \hC1, \h81, \h40, \h01, \hC0, \h80, \h41,
    \h00, \hC1, \h81, \h40, \h01, \hC0, \h80, \h41, \h01, \hC0,
    \h80, \h41, \h00, \hC1, \h81, \h40, \h00, \hC1, \h81, \h40,
    \h01, \hC0, \h80, \h41, \h01, \hC0, \h80, \h41, \h00, \hC1,
    \h81, \h40, \h01, \hC0, \h80, \h41, \h00, \hC1, \h81, \h40,
    \h00, \hC1, \h81, \h40, \h01, \hC0, \h80, \h41, \h01, \hC0,
    \h80, \h41, \h00, \hC1, \h81, \h40, \h00, \hC1, \h81, \h40,
    \h01, \hC0, \h80, \h41, \h00, \hC1, \h81, \h40, \h01, \hC0,
    \h80, \h41, \h01, \hC0, \h80, \h41, \h00, \hC1, \h81, \h40,
    \h00, \hC1, \h81, \h40, \h01, \hC0, \h80, \h41, \h01, \hC0,
    \h80, \h41, \h00, \hC1, \h81, \h40, \h01, \hC0, \h80, \h41,
    \h00, \hC1, \h81, \h40, \h00, \hC1, \h81, \h40, \h01, \hC0,
    \h80, \h41, \h00, \hC1, \h81, \h40, \h01, \hC0, \h80, \h41,
    \h01, \hC0, \h80, \h41, \h00, \hC1, \h81, \h40, \h01, \hC0,
    \h80, \h41, \h00, \hC1, \h81, \h40, \h00, \hC1, \h81, \h40,
    \h01, \hC0, \h80, \h41, \h01, \hC0, \h80, \h41, \h00, \hC1,
    \h81, \h40, \h00, \hC1, \h81, \h40, \h01, \hC0, \h80, \h41,
    \h00, \hC1, \h81, \h40, \h01, \hC0, \h80, \h41, \h01, \hC0,
    \h80, \h41, \h00, \hC1, \h81, \h40>>

\* table_crc_lo[] (entry i of the C array is at i + 1).
table_crc_lo == <<
    \h00, \hC0, \hC1, \h01, \hC3, \h03, \h02, \hC2, \hC6, \h06,
    \h07, \hC7, \h05, \hC5, \hC4, \h04, \hCC, \h0C, \h0D, \hCD,
    \h0F, \hCF, \hCE, \h0E, \h0A, \hCA, \hCB, \h0B, \hC9, \h09,
    \h08, \hC8, \hD8, \h18, \h19, \hD9, \h1B, \hDB, \hDA, \h1A,
    \h1E, \hDE, \hDF, \h1F, \hDD, \h1D, \h1C, \hDC, \h14, \hD4,
    \hD5, \h15, \hD7, \h17, \h16, \hD6, \hD2, \h12, \h13, \hD3,
    \h11, \hD1, \hD0, \h10, \hF0, \h30, \h31, \hF1, \h33, \hF3,
    \hF2, \h32, \h36, \hF6, \hF7, \h37, \hF5, \h35, \h34, \hF4,
    \h3C, \hFC, \hFD, \h3D, \hFF, \h3F, \h3E, \hFE, \hFA, \h3A,
    \h3B, \hFB, \h39, \hF9, \hF8, \h38, \h28, \hE8, \hE9, \h29,
    \hEB, \h2B, \h2A, \hEA, \hEE, \h2E, \h2F, \hEF, \h2D, \hED,
    \hEC, \h2C, \hE4, \h24, \h25, \hE5, \h27, \hE7, \hE6, \h26,
    \h22, \hE2, \hE3, \h23, \hE1, \h21, \h20, \hE0, \hA0, \h60,
    \h61, \hA1, \h63, \hA3, \hA2, \h62, \h66, \hA6, \hA7, \h67,
    \hA5, \h65, \h64, \hA4, \h6C, \hAC, \hAD, \h6D, \hAF, \h6F,
    \h6E, \hAE, \hAA, \h6A, \h6B, \hAB, \h69, \hA9, \hA8, \h68,
    \h78, \hB8, \hB9, \h79, \hBB, \h7B, \h7A, \hBA, \hBE, \h7E,
    \h7F, \hBF, \h7D, \hBD, \hBC, \h7C, \hB4, \h74, \h75, \hB5,
    \h77, \hB7, \hB6, \h76, \h72, \hB2, \hB3, \h73, \hB1, \h71,
    \h70, \hB0, \h50, \h90, \h91, \h51, \h93, \h53, \h52, \h92,
    \h96, \h56, \h57, \h97, \h55, \h95, \h94, \h54, \h9C, \h5C,
    \h5D, \h9D, \h5F, \h9F, \h9E, \h5E, \h5A, \h9A, \h9B, \h5B,
    \h99, \h59, \h58, \h98, \h88, \h48, \h49, \h89, \h4B, \h8B,
    \h8A, \h4A, \h4E, \h8E, \h8F, \h4F, \h8D, \h4D, \h4C, \h8C,
    \h44, \h84, \h85, \h45, \h87, \h47, \h46, \h86, \h82, \h42,
    \h43, \h83, \h41, \h81, \h80, \h40>>

\* A plausible fault: the new high byte taken from the table alone, the
\* xor with the old low byte left out.
RECURSIVE CrcLoopNoXor(_, _, _, _)
CrcLoopNoXor(buffer, j, crc_hi, crc_lo) ==
    IF j > Len(buffer) THEN crc_hi * 256 + crc_lo
    ELSE LET i == crc_hi ^^ buffer[j]
         IN  CrcLoopNoXor(buffer, j + 1, table_crc_hi[i + 1], table_crc_lo[i + 1])

\* crc16's loop over the buffer: i = crc_hi ^ byte, crc_hi = crc_lo ^
\* table_crc_hi[i], crc_lo = table_crc_lo[i]; then (crc_hi << 8 | crc_lo).
RECURSIVE CrcLoop(_, _, _, _)
CrcLoop(buffer, j, crc_hi, crc_lo) ==
    IF j > Len(buffer) THEN crc_hi * 256 + crc_lo
    ELSE LET i == crc_hi ^^ buffer[j]
         IN  CrcLoop(buffer, j + 1, crc_lo ^^ table_crc_hi[i + 1],
                     table_crc_lo[i + 1])

\* crc16(buffer, buffer_length): both bytes start at 0xFF.
crc16(buffer, buffer_length) == CrcLoop(SubSeq(buffer, 1, buffer_length), 1, 255, 255)

\* modbus_send on RTU: s_crc >> 8, then s_crc & 0x00FF, after the query.
AppendCrc(query) ==
    LET s_crc == crc16(query, Len(query))
    IN  query \o <<s_crc \div 256, s_crc % 256>>

\* A plausible fault: the received CRC assembled with its bytes swapped.
CrcReceivedSwapped(msg) == msg[Len(msg)] * 256 + msg[Len(msg) - 1]

\* check_crc16's (msg[msg_size - 2] << 8) | msg[msg_size - 1].
CrcReceived(msg) == msg[Len(msg) - 1] * 256 + msg[Len(msg)]

\* check_crc16 on RTU: 0 when crc16 of all but the last two bytes equals
\* the CRC received, else INVALID_CRC (-16).
CheckCrc16Rtu(msg) ==
    IF crc16(msg, Len(msg) - 2) = CrcReceived(msg) THEN 0 ELSE -16

(***************************************************************************)
(* The reference: CRC-16/MODBUS computed bit by bit (initial value 0xFFFF, *)
(* reflected polynomial 0xA001), sent low byte first.                      *)
(***************************************************************************)
RECURSIVE RefShift(_, _)
RefShift(crc, k) ==
    IF k = 0 THEN crc
    ELSE RefShift(IF crc % 2 = 1 THEN (crc \div 2) ^^ 40961 ELSE crc \div 2, k - 1)

RECURSIVE RefCrc(_, _, _)
RefCrc(s, j, crc) ==
    IF j > Len(s) THEN crc ELSE RefCrc(s, j + 1, RefShift(crc ^^ s[j], 8))

\* The frame with its reference trailer, low byte first.
RefFrame(s) == LET c == RefCrc(s, 1, 65535) IN s \o <<c % 256, c \div 256>>
=============================================================================
