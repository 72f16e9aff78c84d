------------------------------ MODULE ModbusBits ------------------------------
(***************************************************************************)
(* The library's bit utilities, which applications use to move coils and  *)
(* input bits between a table of ON/OFF bytes and packed bytes:            *)
(* set_bits_from_byte, set_bits_from_bytes and get_byte_from_bits.  A      *)
(* table is a function from address to ON/OFF; a write outside it is       *)
(* undefined and is left out (the callers below stay inside).             *)
(***************************************************************************)
EXTENDS Integers, Sequences

ON  == 1
OFF == 0

\* (value & (1 << k)) ? ON : OFF
BitOf(value, k) == IF (value \div 2^k) % 2 = 1 THEN ON ELSE OFF

\* dest[address + i] for i in 0..7 from the bits of one byte.
set_bits_from_byte(dest, address, value) ==
    [i \in DOMAIN dest |-> IF i \in address..address + 7
                           THEN BitOf(value, i - address) ELSE dest[i]]

\* A plausible fault: `shift %= 8` left out, so bits past the first byte
\* test bit 8, 9, ... of their byte, which are always clear.
SetBitsNoWrap(dest, address, nb_bits, tab_byte) ==
    [i \in DOMAIN dest |->
        IF i \in address..address + nb_bits - 1
        THEN BitOf(tab_byte[(i - address) \div 8 + 1], i - address)
        ELSE dest[i]]

\* dest[i] for i from address to address + nb_bits - 1: the byte
\* (i - address) / 8 of tab_byte, at `shift`, which counts 0..7 and wraps.
set_bits_from_bytes(dest, address, nb_bits, tab_byte) ==
    [i \in DOMAIN dest |->
        IF i \in address..address + nb_bits - 1
        THEN BitOf(tab_byte[(i - address) \div 8 + 1], (i - address) % 8)
        ELSE dest[i]]

\* value |= src[address + i] << i, for i below nb_bits.
RECURSIVE GetByteLoop(_, _, _, _)
GetByteLoop(src, address, i, nb_bits) ==
    IF i >= nb_bits THEN 0
    ELSE src[address + i] * 2^i + GetByteLoop(src, address, i + 1, nb_bits)

\* nb_bits above 8 is cut to 8 (with a message) before the loop.
get_byte_from_bits(src, address, nb_bits) ==
    GetByteLoop(src, address, 0, IF nb_bits > 8 THEN 8 ELSE nb_bits)
=============================================================================
