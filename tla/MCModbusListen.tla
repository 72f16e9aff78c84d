--------------------------- MODULE MCModbusListen ---------------------------
(***************************************************************************)
(* Model-checking instances of ModbusListen.                               *)
(***************************************************************************)
EXTENDS ModbusListen

\* The queries the library's own master builds for the function codes
\* that receive_msg sizes from the function code: read coils and
\* registers, a single coil (value 0xFF00), and both multiple writes
\* (9 coils in 2 bytes, 1 register in 2 bytes).
MCQueriesSized ==
    { [fc |-> FC_READ_COIL_STATUS,          addr |-> 19, count |-> 10,     bc |-> 0],
      [fc |-> FC_READ_HOLDING_REGISTERS,    addr |-> 1,  count |-> 3,      bc |-> 0],
      [fc |-> FC_FORCE_SINGLE_COIL,         addr |-> 1,  count |-> 65280,  bc |-> 0],
      [fc |-> FC_FORCE_MULTIPLE_COILS,      addr |-> 1,  count |-> 9,      bc |-> 2],
      [fc |-> FC_PRESET_MULTIPLE_REGISTERS, addr |-> 1,  count |-> 1,      bc |-> 2] }

\* A write of 127 registers (254 data bytes) from a master that does not
\* clamp to MAX_WRITE_REGS: the frame is longer than MAX_PACKET_SIZE.
MCQueriesOversized ==
    { [fc |-> FC_PRESET_MULTIPLE_REGISTERS, addr |-> 1, count |-> 127, bc |-> 254] }
=============================================================================
