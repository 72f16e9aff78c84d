# TLA+ models of libmodbus (src/modbus/modbus.c)

This directory holds TLA+ models of the Modbus library in `src/modbus/modbus.c`, and the TLC configurations that check them. The library runs on two transports:
- **RTU**: serial line, no header, a 2-byte CRC-16 at the end.
- **TCP**: a 6-byte MBAP header, no checksum.

A handle is either a **master**, which sends queries and waits for answers, or a **server**, which waits for queries and answers them.

## The system and how its parts interact

| Part | Code | What it does |
|---|---|---|
| Size oracles | `compute_response_size`, `compute_query_size_header`, `compute_query_size_data` | Predict how many bytes a frame has, from its function code (and, for multiple writes, its byte-count field). |
| Receive engine | `receive_msg`, `WAIT_DATA` | One loop shared by both sides. A master knows the size in advance (phase COMPLETE). A server finds it out in steps: FUNCTION, then BYTE, then COMPLETE. Every `select()` can time out. |
| Query building and sending | `build_query_packet*`, `set_packet_length_tcp`, `modbus_send` | Build the header, the PDU, and the CRC (RTU) or the length (TCP). On TCP they stamp a process-wide transaction counter. |
| CRC-16 | `crc16`, `table_crc_hi`, `table_crc_lo`, `check_crc16` | A table-driven CRC, appended high byte of its result first (which is the standard's low byte first) and compared on receipt. |
| Master check | `modbus_check_response` | Runs `receive_msg`, then classifies the result: a CRC check, a value derived from the function code, or (only on a timeout of exactly the exception size) an exception code. |
| Public operations | `read_coil_status` … `report_slave_id` | Clamp the count, build and send the query, call the check. |
| Server | `modbus_listen`, `manage_query` | Receive a query and answer it from a `modbus_mapping_t`. |
| Error treatment | `error_treat` | Flushes the serial line (RTU). On TCP it closes the connection and reconnects (`RECONNECT_ON_ERROR`), or does nothing (`NOP_ON_ERROR`). |
| Connection setup, mapping, bit utilities, debug output | | The remaining parts of the file. |

The hard part is the byte stream between the two sides. Bytes arrive in chunks of any size. Timeouts cut frames in two. Late answers and stale bytes stay in the descriptor and are read by the next call. Everything the library believes about a frame comes from where `receive_msg` starts and stops reading.

## Modules

| Module | What it models | How it corresponds to the code |
|---|---|---|
| `ModbusFrames` | Frame layout and the size oracles | A frame is a record `[pdu, len, txn, ok, req, crcAt]`. `pdu` holds the byte values the library reads at fixed offsets; every other byte is `Filler`. A byte in a stream is `<<frame, position>>`, so a buffer knows which frame each byte came from. `check_crc16`'s verdict becomes `CrcMatches`: the buffer is the start of one frame, and either the whole frame untouched by noise, or a prefix whose last two bytes are a CRC over the rest (`crcAt`, used by the server's echo). CRC collisions are not modelled. |
| `ReceiveEngine` | `receive_msg` as record transformers (`ReceiveBegin`, `ReadAmount`, `NextPhase`, `ReceiveRead`, `ReceiveTimeout`, `ReceiveClosed`, `ReceiveSelectFailure`, `ReceiveReadFailure`), plus `check_crc16`'s verdict | The callers compose these into their own actions. One `ReceiveRead` step is one pass of the loop: a read, the MAX_PACKET_SIZE check after it, then the phase switch. |
| `ModbusListen` | The server's `modbus_listen` against a peer that writes whole queries | Variables: `wire` holds bytes on the way, `rx` the bytes at the descriptor. `Arrive` moves any prefix of `wire` into `rx`. `Read` and `Timeout` are the two outcomes of a `select()`. `error_treat` is `ErrorTreat`. |
| `ModbusMaster` | The master's call path | `Call` clamps, builds, sends and starts the wait. `MasterRead` is a loop pass; when the loop ends, it runs `modbus_check_response`'s success branch (`CheckComplete`). `MasterTimeout` is the timeout branch (`CheckShort`). `ErrorTreat` flushes, reconnects (counted in `conn`) or does nothing. It reads the handle's `error_handling`, which `SetErrorHandling` (`modbus_set_error_handling`) changes between calls on TCP: a valid mode replaces it, any other value is ignored. `CheckComplete` reads the answer's own function code; when a stale answer of another function is shorter than the bytes it reads, those bytes come from the uninitialised `response[]` (`UninitBytes`: 0 or 255). With `IOFaults`, at most `MaxFaults` I/O calls fail: `SendFailure` (a failed or short `write()`: `error_treat`, PORT_SOCKET_FAILURE at once, the transaction id spent), `SelectFailure` and `ReadFailure` (`receive_msg`'s −1 paths, each with `error_treat`). `ForceCoilsData` is `force_multiple_coils`' bit packing. `IoDecode` is `read_io_status`'s decoding into `data_dest`. The slave is an environment (`SlaveReply`, `SlaveDrop`) that answers correctly, answers with an exception, or drops the query. |
| `ModbusCall` | The abstract contract of a master call | One call at a time; every call returns its own answer's value, an exception, or a library error (`Invoke`, `Return`, weak fairness on `Return`). `Refuse`: a call whose query cannot be written returns an error at once. `ModbusMaster` instantiates it as `CallSpec` with a refinement mapping: `busy` is `mpc = "recv"`, `call` the last call, `ret` the last result. |
| `ModbusCrc` | `crc16`, its two tables, the trailer `modbus_send` appends, `check_crc16`'s comparison | The tables are the source's 256-entry arrays; `CrcLoop` is `crc16`'s loop. `RefFrame` is a bitwise CRC-16/MODBUS reference. `ModbusMaster` extends it and checks it in its initial states. |
| `ModbusBits` | The bit utilities `set_bits_from_byte`, `set_bits_from_bytes`, `get_byte_from_bits` | Pure operators, one per function; `get_byte_from_bits`'s loop is recursive. `ModbusServer` extends this module for `ON`/`OFF`. |
| `ModbusServer` | `manage_query`, `build_response_packet*`, `response_io_status` | `ManageQuery` maps the query bytes and the mapping to the answer frame, the new coil table and the server's TCP counter, one CASE arm per function code. `IoStatusLoop` is `response_io_status`'s loop, recursive, with its `uint8_t` address. Reads past a table return `junk` bits (undefined behaviour, chosen by the caller); a write past it is dropped. |
| `ModbusSystem` | A library master and a library server on one stream | `EXTENDS ModbusMaster, ModbusServer`. The master's actions run unchanged; the server loop (`ServerListen`, `ServerRead`, which calls `manage_query` when `modbus_listen` returns 0, `ServerTimeout`, `ServerClosed`) replaces the environment slave. The server accepts one TCP connection: after the master reconnects (`conn > 0`), queries stay in the listen backlog and the server's socket reads end-of-file. `sentOn` is a history variable: the connection the current call's query went on. |
| `MCModbusListen`, `MCModbusMaster`, `MCModbusSystem` | Model values for TLC | — |

### Design choices

- **The uninitialised `response_size`.** When the first wait times out, `receive_msg` returns before it writes `*msg_size`. The caller's `response_size` and `response[]` are then uninitialised stack memory. The model chooses between two values for it:
  - what the previous call left there (`lastSize`, with the previous answer as the buffer contents);
  - a value that matches nothing.
- **The transaction counters.** Both static `t_id`s (query side and answer side) are variables. `UINT16_MAX` is a constant, so their wrap to 0 happens within the bound.
- **Data values.** Register tables are never written by a function code the server implements, so register bytes are `Filler`. Coil values are real: `force_single_coil` writes them, `response_io_status` packs them and `IoDecode` unpacks them.
- **The server's echo.** `force_single_coil`'s answer is `memcpy` of the query, CRC included, and `modbus_send` appends a second CRC. The frame is the query's PDU, 2 bytes longer, with `crcAt = {query length}`: its first `query length` bytes do end in a valid CRC.

## Runs

| Run | Expect | Bounds | What it shows |
|---|---|---|---|
| `listen_pass` | pass | 2 queries from FC {1, 3, 5, 15, 16}; both transports; stalls; RTU noise | `AlignedIntactQueryAccepted`: a receive that starts at an intact query's first byte and is not cut short returns exactly that query, and `modbus_listen` accepts it. |
| `listen_stall` | violation | as above, without noise | `AcceptedIsWholeQuery` fails on TCP. After a mid-frame timeout the next listen starts inside a frame, and with no CRC the misframed bytes are accepted. |
| `listen_overrun` | violation | one 127-register write | `NoBufferOverrun` fails. On TCP the 267-byte query is read in chunks, and the chunk that crosses 260 bytes is stored before the check: 261 to 267 bytes land in the 260-byte buffer before TOO_MANY_DATAS is returned. |
| `master_pass` | pass | 2 calls from 5 operations; both transports; timely slave that may drop queries; exception codes {11, 12} (the last in the table and the first past it); RTU noise; one failing `write()`, `select()` or `read()`; `UINT16_MAX = 1`; on TCP the error-handling mode may change between calls (about 2 min, 5.5M states) | `TypeOK` includes the counters' ranges. `CrcGuardsResult`: an RTU result the caller believes came from an intact whole frame, I/O failures included. `ExceptionCodeSurfaced`: when a wait times out on the call's own intact exception answer, the call returns −code, and the code lies inside `TAB_ERROR_MSG`. A code past the table reaches `free(s_error)` on a stack array (line 673), which glibc answers with `abort()`: the model stops the master in `Aborted` and that call never returns, so no completed call carries such a code. `CrcIsModbusCrc` (initial states): `crc16` and the trailer equal CRC-16/MODBUS, low byte first, for all one-byte frames (every table entry), two-byte frames over 5 values, and the spec's S2 and S3 requests. `CrcDetectsByteError` (initial states): `check_crc16` accepts each such frame and rejects it with any one byte changed. |
| `master_refine` | pass | as `master_pass`, but the slave answers every query and its exception codes are {2, 11}: a code past the table aborts the process, and a call that dies cannot return | `RefinesCallSpec`: under `FairSpec` the master implements `ModbusCall`: every call returns, and returns its own answer's value, an exception code, or a library error. |
| `master_uninit` | violation | RTU; the slave drops queries | `ResultAnswersCall` fails. A call the slave never answered returns the previous call's exception code. |
| `master_late` | violation | TCP, `NOP_ON_ERROR`; the slave may answer after the timeout | `ResultAnswersCall` fails. The late answer to call 1 is accepted as call 2's answer, because the transaction id is never checked. |
| `master_timeout` | violation | TCP; late or stalled answers | `TimeoutIsAnError` fails. A timeout after 9 bytes of a register answer returns 9, as if 9 registers had been read. |
| `system_pass` | pass | TCP, `RECONNECT_ON_ERROR` at first, switchable between calls; 3 calls from a coil read, two coil writes (addresses 1 and 8), a register read and `report_slave_id`; mapping of 10 coils and 2 registers | `ServerAnswersEveryCall`: every implemented in-range call sent on the accepted connection returns its value. `CoilReadDelivered`: the caller's `data_dest` holds exactly the server's coils. `BitUtilitiesAgree`, checked once in the initial states: for every 10-bit table and every window starting at 0..2, `response_io_status` packs as `RefPack`, and `set_bits_from_bytes`, `set_bits_from_byte` and `get_byte_from_bits` invert it, and `force_multiple_coils` packs as `RefPack`. `ServerAnswerSized` (initial states): a register read of 0, 1, 125, 126, 128 or 65535 registers, after the master's cap, gets an answer that fits `response[MAX_PACKET_SIZE]`, whose `uint8_t` byte count is right, and whose length is what the master waits for. `RefinesCallSpec` (under `SysFairSpec`): the master composed with the library server implements `ModbusCall`, so every call returns, including calls made after a reconnect that the server never accepts, which end through `select()`'s timeout. |
| `system_echo` | violation | as `system_pass`, on RTU | `ServerAnswersEveryCall` fails. After a `force_single_coil`, the 2 stale CRC bytes of the echo start the next answer, and the next call returns INVALID_CRC. |
| `system_range` | violation | TCP; a coil read at 19 and a write at 19 against 10 coils | `IllegalAddressRejected` (action property) fails: the server answers with data or an echo, never with exception 0x02. |
| `system_reconnect` | violation | as `system_pass`, 2 calls | `ReconnectRestoresService` fails. `report_slave_id` is not implemented, so its answer is a bare header and the master times out and reconnects; the server never accepts the new connection, and the next coil read times out. |

**Why these bounds are enough.**
- **Two frames (or two calls)** are the least that can show one frame's bytes reaching another's receive. Every hazard above is about that. The system runs use three calls, so that a write is followed by a read of what it wrote.
- **Byte positions are not bounded**: `Arrive` may split a frame anywhere. A stall can therefore cut at every offset, including the function-code and byte-count boundaries the engine switches on.
- **The chosen function codes** cover every branch of the size oracles, of `modbus_check_response`'s switch and of `manage_query`'s switch (with `report_slave_id` standing for the unimplemented ones).
- **One I/O failure** (`MaxFaults = 1`) can hit any call at any point of its wait; a second one adds no new branch of the code and multiplies the state space.
- **The coil writes at 1 and 8** straddle the byte boundary of the 10-coil read, so packing and decoding are checked on a full byte and a partial one.

**Fairness.** `FairSpec` assumes weak fairness of `MasterRead`, `MasterTimeout`, `SlaveReply` and `Arrive`. A waiting master always takes its next step: `select()` either reports data or times out (`TIME_OUT_BEGIN_OF_TRAME` / `TIME_OUT_END_OF_TRAME`), so the code never blocks forever. The fairness of `SlaveReply` and `Arrive` is an assumption about the peer and the line. With it, the abstract `WF_avars(Return)` (every call returns) is checked as part of `RefinesCallSpec`. `SysFairSpec` assumes weak fairness of the master's read, timeout and arrival steps, and of every step of the server loop (`ServerArrive`, `ServerListen`, `ServerRead`, `ServerTimeout`, `ServerClosed`). The server's `select()` also returns or times out, its `while (1)` loop calls `modbus_listen` again after every return, and TCP delivers what was written. `Call` has no fairness, because an application may stop calling. `system_pass` runs under `SysFairSpec`; the other runs use `Spec`/`SysSpec` without fairness. A finished or aborted master stops in `Finished`/`SysFinished`, a terminal stutter step, so deadlock checking stays on.

## Mutants

Each property of a passing run has a plausible fault, in the module it concerns, that breaks it:
- `compute_query_size_header_lt`: `<` instead of `<=`.
- `NextTidNoWrap`: the counter without its wrap.
- `check_crc16_framing_only`: a CRC check that catches misframing but not corruption.
- `ExceptionSizeNoChecksum`: the exception size without the checksum.
- `OpResultRaw`: `read_coil_status` returning the byte count instead of the count.
- `ResponseHeaderSizeNoFix`: `build_response_packet` without its "+1".
- `IoDecodeUnbounded`: `read_io_status` without `processed < count`.
- `SetBitsNoWrap`: `set_bits_from_bytes` without `shift %= 8`.
- `CoilByteNoCount`: `force_multiple_coils` without `coil_check++ < coil_count`.
- `QueryCountNoHoldClamp`: `read_holding_registers` without its cap.
- `CrcLoopNoXor`: `crc16` without the xor with `crc_lo`.
- `CrcReceivedSwapped`: `check_crc16` assembling the received CRC with its bytes swapped.

## Not modelled, and why

1. **Some I/O failures.** The master's failing `write()`, `select()` and `read()` are actions; the bytes a short `write()` does put on the line are not (the query is lost whole). A peer closing the master's connection and a failing `modbus_connect` in `error_treat` are not modelled. `ModbusSystem` composes the fault-free master. With `IOFaults` on RTU, `RefinesCallSpec` fails: `error_treat`'s `tcflush` drops only bytes already received, so an answer still on the line after a `select()` failure is taken by the next call. `master_refine` runs without faults; the hazard list records this.
2. **The CRC inside the state machines.** The state machines use `CrcMatches` (whole untouched frame) instead of computing `crc16` over byte-level frames, which the stream abstraction avoids. `ModbusCrc` checks the real function separately, including that one changed byte is always caught; noise that changes several bytes and still matches the CRC is outside the abstraction.
3. **Register data.** Register values and `read_reg_response`'s decoding loop are not modelled; the loop overruns exactly when the returned count exceeds the count asked for, which `ResultAnswersCall` and `TimeoutIsAnError` catch.
4. **Foreign peers and large bit reads.** The server is driven by the library master. It clamps register counts: `ServerAnswerSized` shows that this keeps the answer inside 260 bytes. The `uint8_t` address of `response_io_status` at 256 is not reached by the runs. The master does not clamp coil reads: a read of more than 2008 coils overflows the server's `response[]`. No run states this; the hazard list records it, and `report_slave_id`'s copy past the received bytes too. The function codes 6 and 17 are cut short by `receive_msg` (they get 0 header bytes), so `listen_pass` leaves them out.
5. **Out of TLC's reach.** The termios and socket setup in `modbus_connect_rtu/tcp` and `modbus_init_listen_tcp` is OS I/O. So are the allocation in `modbus_mapping_new` (and its `memset` before the NULL check) and the `printf` and `perror` output.
6. **The spec's example frames.** The trailers of the spec's S1 (`5E D7`, `6B E5 23`) and S4 (`C1 91`) examples are not the CRC-16/MODBUS of their bytes (S4's is the CRC of `01 81 02`). `CrcIsModbusCrc` uses the S2 and S3 requests, whose trailers are right and match the code.
