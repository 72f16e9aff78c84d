---------------------------- MODULE MCModbusMaster ----------------------------
(* Model values for ModbusMaster.                                          *)
EXTENDS ModbusMaster

\* One call of each shape the API has: a bit read, a register read, a
\* single write, a multiple write and report_slave_id.
MCCalls ==
    {[op |-> "read_coil_status",          addr |-> 19, count |-> 10],
     [op |-> "read_holding_registers",    addr |-> 1,  count |-> 2],
     [op |-> "force_single_coil",         addr |-> 1,  count |-> 1],
     [op |-> "force_multiple_coils",      addr |-> 1,  count |-> 9],
     [op |-> "report_slave_id",           addr |-> 0,  count |-> 0]}

MCTransports == {RTU, TCP}
MCTcp        == {TCP}
MCRtu        == {RTU}
====
