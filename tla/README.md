# A TLA+ model of cc1110-pc-dev

`cc1110-pc-dev` is a C++ library that drives a CC1110 radio board over a serial
line. This directory holds TLA+ modules translated from its source, the TLC
configurations that check them on small instances, and TLAPS proofs of the
properties that matter most.

## 1. The system

| Component | Source | State | Operations | Talks to |
|---|---|---|---|---|
| Client API | `BoardClient.cpp` | `terminate`, `m_settings`, `m_thread` | `Configure`, `Run`, `Stop`, `SendPacket`, `SendPacketAsync`, `ReceivePacket`, `ReceivePacketAsync` | link state machine, packet list, serial port; called by the application thread |
| Loop thread | `BoardClient.cpp` `BaseLoop` | its position in the loop, a 512-byte buffer | read a header, read a body, decode, dispatch, time out | serial port, link state machine |
| Packet list | `BoardClient.cpp` | `m_packets`, guarded by `m_mtx` (not everywhere) | `emplace_back`, `FrontPacket`, `PopPacket`, `IsPacketListEmpty` | both threads |
| Link state machine | `link_fsm.cpp` | `m_state`, `m_tx_delay`, the static `cnt` | `Activate`, `Configure`, `OnMessage`, `OnTimeout`, `SendPacket` | both threads, no lock |
| Reception | `BoardClient.cpp`, `link_fsm.cpp` | `m_receive_callback`, guarded by `m_recv_mtx`; the dump file | `SetReceiveCallback`, `ReceiveCallback`, `SaveToFile` | both threads |
| Framing | `msg_format.cpp`, `utils.cpp` | none | `encode`, `decode`, `crc16` | loop thread, senders |
| Settings | `settings.cpp` | the register bytes sent in a `SETUP_REQ` | presets, `activate`, `SetMode`, ... | client |
| Serial port | `libserial/SerialPort.cpp` | descriptor, saved and current termios | open, close, attributes, `Read`, `Write` | both threads, the operating system |
| Dump parsing | `DumpParsing.cpp` | files, statistics | bit errors and packet errors per RSSI | files written by `SaveToFile` |
| Stream buffer | `libserial/SerialStreamBuf.cpp` | its port, one character it can hold | `underflow`, `uflow`, `xsgetn`, `pbackfail`, `showmanyc`, `xsputn` | serial port; called by the standard library's streams |
| Stream | `libserial/SerialStream.cpp` | its buffer, the state bits of an iostream | `Open`, `Close`, flushes, attributes; `get`, `peek`, `read`, `write`, ... of the standard library | stream buffer; a program of its own, not the client |
| Board | another repository | radio mode | answers `WAKEUP`, `SETUP_REQ`, `DATA_REQ` | serial line, radio |

Two threads run in a client: the application's, in a public call, and the loop
thread that `Run` starts. They share the packet list, the link state object and
the serial port. The list has a mutex, but `FrontPacket` returns a pointer that
outlives the lock and `IsPacketListEmpty` takes no lock; the link state machine
has none at all. Its handlers sleep 30 ms before they write, which is ample time
for the other thread to act. This is where the hard behaviour is:

* `TxActive::OnEntry` can run in both threads at once;
* `DATA_ACK` does not say which packet it acknowledges;
* requests are repeated on a read timeout, so every answer may come twice or late;
* three calls poll for a condition that the other thread has to bring about, and
  `Stop` joins a thread that ends only on an empty list.

What makes each component correct:

* client and loop thread: blocking calls return; `Stop` loses no accepted packet
  and closes the port after the thread's end; an accepted packet's call never
  runs into `CHECK_ACTIVE`;
* packet list: first in, first out; references used only while they are valid;
* link state machine: an active client's board is in the configured mode; packets
  are requested in their turn;
* reception: a returned packet is whole and was received during the call; the
  callback of a call that has returned is never run;
* framing: the board's frames are delivered whole, in order and once, and a good
  frame is recognised after bytes were lost; no access beyond the buffer;
* settings: the board decodes what `Configure` was given, and the client accepts
  messages of the length that the board was told;
* serial port: what was set is what is read back; an open that fails leaves the
  port closed; closing restores the saved settings;
* dump files: the counts that are read back are those of the packets saved;
* streams: what is read comes in order and once, and only a read that sets failbit
  may lose a byte that was peeked at or put back; what a stream that stays good was
  given is on its way.

## 2. Modules

| Module | Models | Extends |
|---|---|---|
| `PacketList` | the outgoing list | |
| `SerialLink` | the line and the board (external) | |
| `LinkFsm` | `link_fsm.cpp` | `PacketList`, `SerialLink` |
| `BoardClient` | the API and `BaseLoop`; invariants and liveness | `LinkFsm` |
| `Outbox` | the abstract promise about accepted packets | |
| `MCBoardClient` | refinement of `Outbox`; what the examples say | `BoardClient` |
| `MCModes` | the agreement of client and board on the mode, with history variables for the last request and for a call that was overtaken | `MCBoardClient` |
| `ClientProofs` | types, safety, the refinement of `Outbox` and the agreement of client and board on the mode, proved | `MCModes`, TLAPS |
| `ReceivePath` | `ReceivePacket`, the callback, the loop thread in `RX_ACTIVE` | |
| `Inbox` | the abstract promise about received packets | |
| `MCReceivePath` | refinement of `Inbox` | `ReceivePath` |
| `ReceiveProofs` | safety and the refinement, proved | `MCReceivePath`, TLAPS |
| `FrameReader` | `BaseLoop` on a stream of bytes | |
| `LossyFifo` | the abstract promise about frames | |
| `FrameProofs` | safety and the refinement, proved | `FrameReader`, TLAPS |
| `ByteBits` | bytes as sets of bits | |
| `MsgFormat` | `crc16`, `encode`, `decode` on bits | `ByteBits` |
| `Settings` | presets, `activate`, the `SETUP_REQ` | `MsgFormat` |
| `DumpFile` | the dump files that are recorded, and the two parsers | `ByteBits` |
| `MCData` | both of the above, enumerated | `Settings`, `DumpFile` |
| `MsgProofs` | the coding and the set-up, proved | `Settings`, TLAPS |
| `DumpProofs` | the dump files and their parsers, proved | `MsgProofs`, `MCData` |
| `SerialPort` | opening, attributes and closing of the port | |
| `MCSerialPort` | devices to check it with | `SerialPort` |
| `PortProofs` | safety of the settings, proved | `SerialPort`, TLAPS |
| `SerialTransfer` | the loops of `Read`, `ReadLine` and `Write` | |
| `MCSerialTransfer` | the characters that come | `SerialTransfer` |
| `TransferProofs` | safety of the loops, proved | `SerialTransfer`, TLAPS |
| `SerialStreamBuf` | the virtual functions of the stream buffer | |
| `SerialStream` | the stream, the standard library's functions on it, the device | `SerialStreamBuf` |
| `ByteStream` | the abstract promise about a stream's input | |
| `StreamProofs` | safety and the refinement, proved | `SerialStream`, TLAPS |

The modules meet where one takes for granted what another checks: `BoardClient`
takes the line for a queue of frames some of which are spoilt, which is what
`FrameReader` shows of bytes (`LossyFifo`), except that a reader out of step may
also deliver frames nobody sent; `FrameReader` takes it that `Read` gives the
next bytes or throws, which `SerialTransfer` shows of the system calls, and that
any byte passes unchanged, which `SerialPort` shows of the client's set-up.
`ReceivePath` replaces what `BoardClient` leaves out of `RX_ACTIVE`.

What the client's modules leave out is thus a forged frame: bytes read out of step
whose CRC is right by chance, as six zeros are, or a frame in a packet's data. Their
results hold as long as none comes; what one would do to a client is not examined.

A definition marked "Slip" in a module is not the code: it is the definition
that follows it with a plausible mistake. Each property of a passing run is
violated when one of these takes the place of the right definition, which shows
that the property depends on the code.

### How the client's modules correspond to the code

A packet is its number in the order of the `SendPacket` calls, with the retransmission
count that `SendPacketAsync` appends. `pc["app"]` and `pc["loop"]` say where the two
threads are. A handler is one action up to the point where it sleeps or reads data that
the other thread changes. So `ChangeState` is `ChangeState`, which dispatches and keeps
the new state in `new_state`, `StoreState` and `EnterState`, which reads `m_state`
again; and `TxActive::OnEntry` is `ResetDelay`, `CheckList`, `TakeFront`, `CopyPacket`,
`SendTxDataReq` and `ReadTransmissions`, run by either thread. `hold[t]` is the packet
whose reference, then whose copied bytes, thread `t` has. The two `FrontPacket` calls in
the statement that reads the retransmission count are taken as one. Undefined behaviour
is not smoothed over: a null reference ends the process, a reference to a destroyed
packet ends it or yields bytes of no packet (packet 0), popping an empty list ends it.
`fault` says why; after a fault nothing happens.

Within a call of `OnMessage` or `OnTimeout` the dispatch on `m_state` and the reads
of `m_settings` that follow are one action: the application changes either only in
`Configure`, which it calls when the link is active or the thread has ended, and
then an active state's handler does not read `m_settings` and the others are not
current. The stores in the two threads' `ChangeState` do meet, between the halves.

The board answers `WAKEUP` with `WAKEUP_ACK`, `SETUP_REQ` with `SETUP_ACK` (or
`SETUP_ERR` where `Refusals`), `DATA_REQ` in TX mode with `DATA_ACK`, and passes
on radio packets in RX mode. It starts in any mode, since an earlier program may
have left it there. The line keeps the order of frames; with `LossyLine` any
frame may be spoilt. A read of the loop thread times out only on silence; with
`LateAnswers` also while an answer is under way (300 ms have passed).

### Reception

A received packet is its number; what is dropped, overwritten or returned is told
by numbers. `app` and `loop` say where the threads are. The lambda that
`ReceivePacket` installs writes the call's local variables one by one, an action
each (`Assign`), while the call may look at `packet_received`, or give up, at any
moment. `m_recv_mtx` appears as `recv_mtx_held`: the loop thread holds it while
the callback runs; the application's critical section (`SetReceiveCallback`) is
one action. The unprotected flag is taken to be sequentially consistent: the
locals are only read after the last `SetReceiveCallback`, whose mutex orders
them after the lambda's writes. The application's own callback (`UserBody`) is
taken to return.

### Framing

A byte on the line is the number of its frame and its place in it, so a reader
out of step reads cells of several frames. A size field read from such cells is
any of `GarbageSizes`, which holds sizes too large for the buffer and sizes that
run into the next frame. The line may lose or spoil bytes, and with `SlowBytes` a
read may time out in the middle of a frame, dropping what it had read. A write
past the end of the buffer ends the model (`overrun`). `inStep` remembers since
which frame the reader has been at a frame's start whenever it waits for a
header. Bytes that are not a whole frame may pass `decode` or not: `crc16` starts at
0 and a payload may hold anything, so only a frame that was sent surely passes. The
promise, `LossyFifo`, has forged frames (0 in `delivered`) while the line is
`disturbed`, which is while the reader is out of step, and at no other time.

`MsgFormat` works on bytes as sets of bit numbers. `crc16` is the code's loop;
`IsRemainder` compares it with division of the packet's polynomial. A packet has
its size field, and `decode` takes the place of the CRC from it, wherever that is:
in the frame or in what lies behind it in the buffer (`Leftovers`). `Settings`
builds the `SETUP_REQ` from the registers that `activate` writes and one,
`MDMCFG4`, that is different in every preset and stands for those it leaves alone.

### Serial port

In `SerialPort` a flag word is the set of its flags. A call is a series of steps,
one for each read-modify-write of the settings, and any step named in `MayFail`
may throw: then the rest is not done. `Open`, the client's `Setup` and
`SetDefaultSerialPortParameters` are such series, a setter is a series of one.
Which system call of a step fails makes no difference to the state, except in
`SetBaudRate`, whose last statement cannot fail for a rate of the enumeration.

In `SerialTransfer` every overload of `Read` and `Write` is the same loop; what
differs is what ends it before it begins (`ReturnsAtOnce`): a `Read` into plain
memory also ends there if it has no limit, with none of the bytes it was asked for
(`raw`). `read()` and `write()` give and take what the driver has and has room for.
`ReadLine` calls `Read` for one byte after the other, each time with what is left of
its limit, until the character read is the terminator: `line` is what it has. It
compares an unsigned char with a char, which has a sign (`AsInt`), so a terminator of
128 or more is never met; and it starts from a character 0 (`next_char`), so a zero
terminator is met before anything has come. What is left of the limit may be exactly 0,
which `Read` takes for no limit at all (`atLimit`). When the device is gone
`read()` returns 0 and leaves `errno` alone, so the loop goes by what an earlier
call left there (`wouldBlock`).

### Dump files

A client in RX mode saves every packet as a byte with its size and its data, of which
the last two bytes are the RSSI and the LQI. `DumpFile` records (`Transfer`, one action
for a message sent and the packet received for it, or none), may start anew (`Restart`:
the file is opened anew by every client), and ends with a last record that may be cut
off. Then one of the two parsers runs, a record of each file a `Turn`: `by_msg` compares
every packet with one message, `by_txfile` with a dump of the messages. The parser's
buffer keeps what it held, from before the first record too (`Garbage`), so a comparison
past a short packet's end reads old bytes. The history `source` tells as which message
each saved packet was sent; `Pairing` is what the parser compares it with, which in
`by_txfile` is another one once a packet before it was lost. RSSIs are counted in steps
of 5 dBm, in maps whose keys the report goes through in ascending order (`Keys`). A
record with a size below 2 makes the parser's loop run over (its bound is the size less
2, unsigned): `fault`.

### Streams

The program that uses a stream has one thread; `SerialStream` lets it call
anything at any moment. `iostate` is the stream's state bits, with what the
standard library's functions do to them: on a stream that is not good they set
`failbit` and nothing else, and one that gets fewer bytes than it asked for sets
`eofbit`. The buffer's functions are operators of `SerialStreamBuf` over the
driver's queues and the one character held (`mPutbackChar`). `waits` tells whether
`read()` of an empty line waits for a byte, which it does once `Open` has set VMIN
and until the program sets it to 0. `Close` destroys the buffer and
leaves `rdbuf()` pointing to it; a call after that is `UseAfterClose`, with which
the behaviour ends. `Careful` programs call `in_avail` only when a character is
held anyway: `showmanyc` marks a character as held that it has not read. `xsgetn`
loses the held character if it is all that is asked for, or if `read()` then fails; the
stream sets `failbit`, and `ByteStream` allows a byte held to be lost then (`Lose`),
and only then. The other attributes are passed on to
`SerialPort` (`PassedOn`, `CallFails`), where they are modelled.

## 3. Runs

| Run | What | Checks |
|---|---|---|
| `Client` | client on a lossy, late line with a refusing board and radio traffic; two `Configure` calls | `TypeOK`, `NeverAhead`, `LoopHoldsFront`, `StopDrains`, `PortOpenWhileLooping`, `SendingStaysActive`, `ModeFollowsUnlessFailed`, `ImplementsOutbox`, `SendReturns`, `ConfigureReturns`, `StopReturns` |
| `ClientPoppedAired` | prompt, lossless line | violated: a packet leaves the list untransmitted |
| `ClientSurvives` | prompt, lossless line | violated: a thread uses a destroyed or missing packet |
| `Reception` | three packets, three calls | `ReceiveTypeOK`, `RunsInstalled`, `LambdaHasFrame`, `ReturnsWhole`, `ImplementsInbox`, `LimitedReturns`, `ReceivedReturns`, `StopJoins` |
| `Frames` | three frames, two lost or spoilt bytes | `FrameTypeOK`, `InStepLosesNothing`, `ImplementsLossyFifo`, `FrameArrives` |
| `FramesLargest` | the largest packets | violated: the buffer is overrun |
| `Data` | packets of up to three bytes of data; `SETUP_REQ`s; dump files of up to three messages | `IsRemainder`, `RoundTrip`, `SpoiltByteRefused`, `BoardSetUp`, `TalliesRight`, `PerRight` |
| `Port` | any calls, two devices, failing steps | `PortTypeOK`, `AttributesKept`, `EightBitsPass`, `CloseRestores` |
| `PortOpenFailed` | settings that cannot be read | violated: the port stays open |
| `PortTransfer` | two writers, reads of every kind, a device that may go | `WritesAreWhole`, `ReadsAreWhole`, `ReadEnds`, `WriteEnds` |
| `Stream` | a careful program, any calls, a port that may fail to open or hang up | `StreamTypeOK`, `GoodMeansSent`, `ImplementsByteStream` |
| `StreamInAvail` | the reading loop that `SerialStreamBuf.h` recommends | violated: a byte is read that never came |

**Bounds of the client.** `MaxPackets` bounds the packets queued (2: a second
one is there to be popped by an acknowledgement of the first), `MaxConfigures`
the `Configure` calls (2: an answer to the first may be taken for the second's),
`MaxInFlight` the frames on the line when a timeout or the radio adds one (2: a
duplicate and its original). All other frames answer a frame or a call, so the
state space is finite without a state constraint. Deadlock is checked in `Port`
only: elsewhere a program may stop, wait for a refused set-up, or run out of its
bounds.

**Bounds of the others.** `Reception`: three packets and three calls let a packet come
before, in and after a call, and a callback outlive the call before the last. `Frames`:
the buffer is 8 bytes instead of 512; the frames have no data or two bytes; garbage
sizes include one that runs into the next frame (3) and one that does not fit (9); two
spoilt bytes can put the reader out of step, and spoil the frame it finds, and each of
the bodies it reads out of step may pass `decode` or not. `FramesLargest` has data of
`BufferSize` bytes, as `MAX_DATA_SIZE` allows. `Data`: bytes 0, 1, 128 and 255, which
set and clear both ends of a byte; packets of up to three bytes of data, with nothing or
two bytes of an earlier frame behind them in the buffer; every preset, `PKTCTRL0` as it
is or with whitening (0x45), and a length that does not fit in a byte (278); dumps of
three messages of two bytes, received right or wrong under two RSSIs, too short, with
257 bytes, which makes the size byte of the record 1, or not at all. Packets and dumps
are independent, so the run enumerates the ones with the others at their start. `Port`:
a device as the kernel makes it and one left with seven bits, parity and foreign control
characters; one rate, two sizes, all kinds of flow control and parity, in any order.
`PortTransfer`: two writes of two bytes with room for two, so that one is split when the
driver still holds a byte of the other. What comes is 200, 10 and 65, and a line ends at
10, at 200, which is negative as a char, or at zero, which does not come; reads of none
and of two, into plain memory or not, with and without a limit. `ReadEnds` excepts a
`ReadLine` whose limit is used up exactly. `Stream`: three bytes each way, reads of up
to three, writes of up to two, two flushes or hang-ups: a peek, a put-back, a flush that
spares the held byte and a read over both follow each other.

**Why `ModeFollows` needs two conditions.** A stale `SETUP_ACK` activates the client
although its own `SETUP_REQ` may be spoilt and is then not repeated, or refused, so the
board stays in the old mode. The history variable `asked` of `MCModes` is the mode of
the last `SETUP_REQ` that left the line, and the board took that one if it is in that
mode. Or the stale `SETUP_ACK` comes between the two halves of `ChangeState`
(`link_fsm.cpp:61` and `62`): the loop thread makes the link active, `Configure`, having
stored `SETUP`, reads the state again and calls the `OnEntry` of the active one, and its
`SETUP_REQ` is never written. `overtaken` tells that this has happened to the last
`Configure`. It does happen on a line that loses nothing and with a board that refuses
nothing, under the two `Configure` calls of the swap test in `main.cpp`: with
`LossyLine` and `Refusals` false and without the condition on `overtaken` TLC finds the
property violated. `ModeFollowsUnlessFailed` says that nothing else, no order of late
answers, repeated requests and calls, leaves an active client with a board in another
mode. In that state no data request is acknowledged, which is why `SendReturns` and
`StopReturns` except it.

**Why `CloseRestores` needs two steps that do not fail.** Between `open()` and the
saving of the settings are `TIOCEXCL` and `tcgetattr`; if either fails `Open`
throws and leaves the port open, and `Close` would write back settings that were
never saved. `PortOpenFailed` shows the first half of this.

**Fairness.** Each thread is scheduled (weak fairness on its steps); a blocked read gets
data or times out; a polling loop sees a condition that stays true. On a lossy line
reading is strongly fair: not every frame is spoilt for ever. `Client` also assumes that
the radio falls silent in the end (`RadioFallsSilent`): a read times out only on
silence, so a board left in RX mode by an earlier program can keep the client from
repeating a lost `WAKEUP` as long as packets come. In `Reception` taking `m_recv_mtx` is
strongly fair: `std::mutex` is not, but it is held for moments between reads that wait
for the radio. `FrameArrives` is promised to a frame sent after one silent time limit;
under steady traffic nothing brings a reader back in step. In `PortTransfer` a write
that is offered room again and again takes it at last.

**The violated runs of the client** use the program of `main.cpp` and
`example_tx.cpp`: one `Configure`, then synchronous `SendPacket` calls, on a line
that is prompt and loses nothing. `OnEntry` runs in both threads when a packet is
queued between the loop thread's `PopPacket` (or its change to `TX_ACTIVE`) and
its emptiness test. Then the packet is requested twice, the second
acknowledgement pops the next packet (`PoppedWereAired`), and a reference or the
list itself may be used after the packet is gone (`SurvivesItsThreads`).

**The others.** `LargestPacketFits`: `BaseLoop` compares the data size with the
buffer's size, but header and CRC are in the buffer too, so packets of 507 to 512
bytes are copied past its end. `OpenFailedIsClosed`: an `Open` that fails after
`open()` leaves the port open; a repeated `Run` then throws `AlreadyOpen`.
`GotWereReceived`: `showmanyc` (`SerialStreamBuf.cpp:1199`) sets
`mPutbackAvailable` without having read a character, so after `in_avail()` a `get`
returns whatever `mPutbackChar` held; the loop in `SerialStreamBuf.h:397` calls
exactly these two.

Met while modelling and not given a run, because one call or a look at one
function shows them:

* serial port: `GetSerialPortBlockingStatus` returns the opposite of what
  `SerialPort.h:425` says; `Read(uint8_t*)` without a limit returns at once with none of
  the bytes it was asked for (`SerialPort.cpp:2226`), where `SerialPort.h:310` says it
  blocks; `ReadLine` never meets a terminator of 128 or more (`SerialPort.cpp:2572`) and
  meets a zero before anything has come (`2559`), where `SerialPort.h:379` says it
  blocks until one is received; `ReadsAreWhole` excepts just these; `SetParity` never
  clears `IGNPAR`, so bytes with parity errors are dropped once parity was off; a
  `ReadLine` whose limit is used up to the millisecond goes on with a limit of 0, which
  is none (`atLimit`);
* client: a late `SETUP_ACK` between the two halves of `ChangeState` keeps `Configure`
  from writing its `SETUP_REQ` (above); `example_rx.cpp:78` takes the default limit of
  `ReceivePacket` for 500 ms when it is none; a `SendPacket` on a client set to receive
  never returns, since nothing pops the list; an application callback that calls
  `ReceivePacketAsync` waits for a lock its own thread holds; `preparation` reads before
  the start of a message of fewer than two bytes; `cnt` is shared by all clients of a
  process and is not reset by an acknowledgement, so the first repetition may come after
  fewer timeouts than meant;
* settings: `SET_BIT` and `SET_BITS` (`global.hpp:30`) mask with the logical `!`, so
  they clear the whole byte: `Configure` also turns off data whitening if the caller had
  it on. `BoardSetUp` holds because all that `activate` wants of `PKTCTRL0` is zero;
* framing: `decode` takes the place of the CRC from the size in the header, so a spoilt
  size byte is noticed only if other bytes do not happen to be the CRC
  (`SpoiltByteRefused` excepts the two size bytes);
* dump files: one lost packet puts `by_txfile` out of step for the rest of the file, so
  packets received as sent are reported as wrong (`TalliesRight` says of such a file
  only that every packet is counted under its RSSI), and nothing writes the file it
  reads (`SaveToDumpFile` is not called); packets of 254 and 255 bytes make, with RSSI
  and LQI, records whose size byte is 0 or 1 (`TalliesRight` excepts them); the report
  divides by another RSSI's packets if an RSSI without errors is below one with errors
  (`PerRight` excepts that);
* streams: `FlushInputBuffer` spares the byte held by a peek; `xsgetn` loses that byte
  if `read()` then fails, or if it is all that was asked for, since it counts the byte
  from -1 (`SerialStreamBuf.cpp:984`; `ImplementsByteStream` allows both, as `failbit`
  is set); `read(n)` sets `eofbit` and `failbit` as soon as the driver has fewer than n
  bytes; the constructor with a file name never sets the port to blocking; `Open` of an
  open stream sets `failbit`, and an `Open` retried after a failed one does not clear
  it; an `Open` that fails half-way leaves the port open and not blocking.

## 4. Proofs

For all values of the constants (any number of packets and calls, any set of
retransmission counts, any kind of line):

* `TypeCorrect`: `Spec => []TypeOK`.
* `ThreadSafety`: `ThreadInv` is inductive. It adds `IdleLoop` to the two
  properties about threads: while no loop thread runs, the list is empty and the
  client is stopped or was never started; and which states a thread may be about to
  store. Without it nothing excludes a packet
  queued for a thread that has ended. From it `StopLeavesNothing`, `LoopHasPort`
  and `SendNeverExits`.
* `OrderKept`: `OrderInv` is inductive. It adds `Numbered` (the list holds the
  last packets queued, in order), without which the front has no place in the
  order, and `LoopSeesFront` (a packet that the loop thread has seen stays, as
  nobody else pops). From it `PacketsInTurn` and `LoopNeverDangles`.
* `ClientRefines`: every step of the client is a step of `Outbox` or a stutter.
  `OrderInv` is not enough: on an empty list the order alone would let a packet be
  aired that was never accepted. `OnlyAccepted` adds that whatever is held, on the
  line or on the air was accepted first.
* `ModeKept`: `ModeInv` is inductive over `ModeSpec`. It follows the mode from the
  state `SETUP`, where the `SETUP_REQ` may still be on the line, over the `SETUP_ACK`
  that may be a late one, to the active client: as long as no thread has a `SETUP_REQ`
  still to write and the last `Configure` was not overtaken, the last `SETUP_REQ` on
  the line, or else the last that left it, asks for the configured mode. For
  that it says which states the loop thread may be about to store: an active one only
  while the state is `SETUP`. From it `ModeAgreed`.
* `ReceiveSafety`: `ReceiveInv` is inductive. Beside the types it has two parts.
  `LockPart`: the loop thread holds the lock exactly while it runs a callback, and
  then the callback is installed, and a lambda only while its call waits; without
  it a callback could be taken away under the thread that runs it. `CallPart`: the
  call's locals are those of the packet whose lambda last ran, up to the field it
  has reached. From it `ReceiveTypes`, `CallbackOutlivesItsRun`, `LambdaOutlived`
  and `TuplesAreWhole`.
* `ReceptionRefines`: with `ReceiveInv`, every step of reception is a step of
  `Inbox` or a stutter, so `Spec => Promise!Spec`.
* `StreamTypes`: `StreamTypeOK` is inductive. Its last conjunct, that only an open
  port holds anything, is what makes a new `Open` start with an empty line.
* `GoodStreamSends`: with the types, `GoodMeansSent` is inductive.
* `StreamRefines`: for a `Careful` program, every step of the stream is a step of
  `ByteStream`. The lemmas say it of the buffer's functions:
  `UnderflowKeepsLine`, `UflowTakesFirst` and `XsgetnGivesFirst`, for reads of any
  size on a line of any length.

* `FrameSafety`: `FrameInv` is inductive. Its part about the line, `InOrder`, says
  that the cells ahead of the reader (the header it has read, then the line) are in
  the order they were sent, and none is of a frame up to the last one delivered.
  Losing and spoiling cells and dropping what was read keep that (`Thinned`); when a
  whole frame was read all of it and of the frames before is gone
  (`GoodFrame`). From it `FrameTypes`. `FramesRefine` also needs `InStepInv`, since a
  reader in step must not deliver what is no frame.
* `InStepSafety`: while the reader is in step the cells ahead are whole frames, one
  behind the other (`InStepInv`, with each frame's offset); so a header that is read
  is that of the next frame, its body follows, and a read can give up only where
  nothing is ahead.
* `PortSafety`: `PortInv` is inductive. It says of every attribute that it is as the
  port's user knows it or is done in the call under way (`Settled`), and that a call
  which sets modes as a whole does so before it sets single attributes
  (`ModesFirst`), so nothing settled is undone later. From it `PortTypes`,
  `GettersReturnWhatWasSet` and `BytesPass`.
* `ClosingRestores`: assumes that "exclusive" and "save" do not fail (section 3).
  Its invariant adds `SavePart`: an open port has saved the settings found, or is
  about to before it changes any.

* `TransferSafety`: `TransferInv` is inductive. For the writers it says how far each
  call has come: its first bytes, as many as its thread has counted, and no others of it
  are on the wire or in the driver (`Progress`), in order (`InOrder`), whatever the
  other thread has put between them. For the reader the bytes in the buffer and those
  that wait are the last ones received, in order (`UpTo`), and a call that goes on has
  not met what ends it, compared as the code compares it (`Met`). From it `WritesWhole`
  and `ReadsWhole`, for any lengths, any number of calls and any way in which `read()`
  and `write()` split them.

The theorems about data are about everything the data may be, of any length:

* `CrcDivides`: `crc16` is the remainder of the division. The code keeps 16 bits and
  shifts them, 8 times for every byte and 16 for the last; `IsRemainder` divides the
  whole polynomial.
  `Simulates` relates the two: after each shift the register, moved up to where it
  stands, and the bits still to come are the polynomial with every exponent above
  the register taken out. One shift takes out one exponent.
* `DecodesWhatWasEncoded` follows from where `encode` puts what (`Framed`), whatever
  lies behind the frame.
  `SpoiltBytesRefused`: a shift can be undone, since the generator has bit 0
  (`StepInjective`); so two registers that are different stay different under
  the bytes that follow, and a spoilt byte makes them different. A spoilt
  size byte moves the place of the CRC and is excepted.
* `SetupSafety` and `BoardIsSetUp`: the settings an enabled client has are those of
  the last `Configure`; each register has a byte of its own in the `SETUP_REQ`, and
  what `SET_BITS` does to a byte is worked out bit by bit.
* `DumpSafety`: `DumpInv` is inductive. The files hold the records one behind the
  other (`Whole`, `Holds`, with each record's `Offset`), behind them at most one that
  was cut off (`Ended`). A parser that has read k packets is at the offset of the
  next, in both files if it reads two, and its maps are right for the first k
  (`Reading`, `Tallies`), the error maps if it compares each packet with the message it
  was sent as. The last needs that the code's sum of the bits in two buffers
  is the number of places in which the packets differ (`BitsCounted`), though the
  buffers also hold what was there before. From it `TalliesOfThePackets`.
* `RatesOfTheirLines`: the maps' keys ascend (`KeysAscend`), and the shorter list of
  two is the beginning of the longer if it has all that is below what it has
  (`ListsBegin`).
* `DataRuns`: the theorems are of `SetupSpec` and `DumpSpec`; the run `Data`
  enumerates both in one behaviour, and every behaviour of it is one of each.

These need induction over lengths, which TLAPS cannot take from its library (the
induction theorem has an operator for a parameter). `Induct` says the same of a set:
one that has 0, and n + 1 if it has n, has every natural number, since otherwise
there were a least one missing. `Iterates` gives from it the function that a
recursive definition stands for. Whatever is computed by recursion (`Shifts`,
`Number`, `BitErrors`) is therefore written as a recursive function, not as an operator.

The assumptions are those named in the modules: bounds are naturals, switches
are Booleans, frames have sizes that the buffer's check lets through, and bytes have
eight bits. Every safety invariant and every refinement that a run checks is proved.
Only model-checked is liveness (TLAPS does not do liveness under fairness), and what
the runs that expect a violation find.

## 5. Plan

1. Done: packet list, link, state machine, client, `Outbox`; reception and
   `Inbox`; framing and `LossyFifo`; coding, settings and dump files; the serial
   port; the stream and `ByteStream`; proofs of the safety of all of these.
2. Left, proofs: what the liveness properties rest on and is itself safety, for
   instance that a reader which has been silent for a time limit is at a frame's start.

## 6. Not modelled

The blocking flag and the modem lines of `SerialPort` (nothing in the
client calls them); what the stream's attribute functions do beyond being passed
on; logging and text formatting; the test programs (their call patterns are in
the runs). More than one application thread per client: the programs use one, and
the API has no lock that would make several safe.
