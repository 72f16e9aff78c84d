---------------------------- MODULE MCModbusSystem ----------------------------
(* Model values for ModbusSystem.                                          *)
EXTENDS ModbusSystem

\* A full coil read, writes of coils on both sides of the byte boundary,
\* a register read, all inside a 10-coil, 2-register mapping, and
\* report_slave_id, which the server does not implement.
MCCallsInRange ==
    {[op |-> "read_coil_status",       addr |-> 0, count |-> 10],
     [op |-> "force_single_coil",      addr |-> 1, count |-> 1],
     [op |-> "force_single_coil",      addr |-> 8, count |-> 1],
     [op |-> "read_holding_registers", addr |-> 0, count |-> 2],
     [op |-> "report_slave_id",        addr |-> 0, count |-> 0]}

\* The calls of the examples' unit test: coils from address 19.
MCCallsPastEnd ==
    {[op |-> "read_coil_status",       addr |-> 19, count |-> 10],
     [op |-> "force_single_coil",      addr |-> 19, count |-> 1]}

MCTcpOnly == {TCP}
MCRtuOnly == {RTU}
====
