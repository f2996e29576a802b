# OpenPRLX: a verification project

OpenPRLX is a daemon that receives a wfb-ng video link with an RTL8812AU USB
Wi-Fi adapter: it listens in monitor mode, decrypts and repairs the stream, and
sends it as RTP to a local UDP port. A localhost HTTP API starts, stops and
retunes it. This directory holds TLA+ models of its core, the TLC runs that
check them, and theorems that TLAPS checks. Paths below are relative to `src/`.

## The system

| Part | State it keeps | Operations | What makes it correct |
|---|---|---|---|
| Supervisor, `src/openprlx_main.cpp` | `g_run` | reap, take stop, take start, every 200 ms; shutdown | one capture thread at a time, accepted requests are served, the process ends |
| Capture session, `src/wifi/WFBReceiver.cpp` | libusb handles, `aggregator_`, `usbThread_`, `curChannel_` | `Start`, `Stop`, `Join`, the capture thread, `applyPendingControlActions` | unguarded members have one owner, no handle leaks, the channel is one asked for |
| Shared context, `src/Context.h` | `state`, `shouldStop`, `captureFinished`; under `sessMutex` the mailbox `ControlRequests` and `SessionConfig`; the stream description | request/take, `mergeSessionConfig`, `setError`, `resetDetection` | state tells the truth; nothing staged for one session reaches another |
| Control server, `src/ControlServer.h` | listening socket, `run_` | `/start /stop /tune /key /sdp /health /pubkey`, `stop` | a refused request has no effect |
| Aggregator, `src/wifi/WFBProcessor.cpp` | session key and code, ring of unfinished blocks | `process_packet` | in order, at most once, nothing received is lost, decodable blocks are decoded |
| Stream description, `handleRtp`, `resetDetection`, `handleSdp`, `health` | `codec`, `described`, `rtpPayloadType`, SDP sets | describe once, reset on retune, report | the SDP describes the stream that is on the air |
| Frame filter, `src/wifi/RxFrame.h` | none | `IsValidWfbFrame`, `MatchesChannelID` | the aggregator gets the payloads of video frames, whole |
| Reed-Solomon, `src/wifi/fec.c` | tables, one matrix a code | `fec_new`, `fec_decode` | any k fragments rebuild a block |
| SDP, RTP, KeyVault | none or constant | pure functions | bounds, agreement with their formats |
| RTL8812AU driver, `3rd/rtl8812au-monitor-pcap/src` | members that cache channel, width and flags; what the EFUSE said; and the adapter's registers, page tables and 8051, which outlive a session | `CreateRtlDevice`, `BringUp`, `SetMonitorChannel`, `ReadOnce` | after a tune the registers are those of the request, after a bring-up the adapter is in order, whatever was cut short before |

The parts interact through the context. The server never touches the device: it
looks at `state`, then stages a request in the mailbox. The supervisor takes
starts and stops; the capture thread takes tunes and keys at the top of its
loop, feeds frames to the aggregator, and the aggregator calls `handleRtp` back.
There are three threads, two mutexes that guard single fields, and several
decisions that read an atomic and act on it later. That is where the hard
behaviour is: everything listed under `hazards` in `PROJECT.json`, each with its
line and the properties that watch it.

## The modules

| Module | Models |
|---|---|
| `Session` | supervisor, capture thread and control server over the shared context |
| `AdapterLease` | what they promise about the adapter: an abstract specification |
| `Aggregator` | the aggregator's sessions, block ring and forwarding |
| `LossyLink` | what it promises its consumer: an abstract specification without ring and indices |
| `Fec` | `fec.c`: the field, the code, and the inversion that decodes |
| `Stream` | the description of the forwarded stream: `handleRtp`, `resetDetection`, `/sdp`, `/health` |
| `Radio` | tuning: `RadioManagementModule` as `BringUp` and `applyPendingControlActions` call it |
| `Efuse` | `EepromManager`: the walk of the EFUSE and what the driver learns from it |
| `Firmware` | `FirmwareManager`: download, checksum, start of the 8051 |
| `BoardTables` | the conditional register tables of `HalModule` and the loop that reads them |
| `RxPath` | `infinite_read`, `FrameParser`, `RxFrame`, `handle80211Frame`: from a bulk transfer to the aggregator |
| `Adapter` | the bring-up of `HalModule`, session after session: composes the four modules above |
| `SessionProofs`, `StreamProofs`, `FecProofs`, `AdapterProofs` | theorems about `Session`, `Stream`, `Fec` and `Adapter` |
| `AggregatorInvariant`, `RadioInvariant` | the inductive invariants of `Aggregator` and `Radio`, which the runs check and the proofs use |
| `AggregatorLemmas`, `AggregatorProofs`, `RadioProofs` | lemmas and theorems about `Aggregator`, that it implements `LossyLink`, and about `Radio` |
| `Induction` | one lemma: a set that holds 0 and with n also n + 1 holds every natural number |
| `MC...` | values for the constants, for TLC |

### Session

A step is one access to memory another thread can write: an atomic load, an
atomic store, or one critical section of `sessMutex`. So the pairs the code
performs in two steps are two steps: `StopLoad`/`StopStore` (Stop's compare and
store of `state`), `FinalLoad`/`ToIdle` (the thread's own), `HandleStart`/
`StartMerge`/`StartStage` and `HandleTune`/`TuneStage` (check, then stage),
`Reap`'s and `StartReady`'s two loads. A thread's program counter (`supPc`,
`capPc`, `srvPc`) stands for its place in the code; what it does to data only it
can reach belongs to the step before. The atomics are sequentially consistent,
as in C++ by default.

* `state`, `shouldStop`, `captureFinished` are the atomics of the same name;
  `reqs` is `ControlRequests` (tune and key hold their value or `NoChannel`,
  `NoKey`), `cfg` is `SessionConfig` (adapter and channel).
* `usb` is `usbCtx_`, `devHandle_` and the claimed interface; `aggKey` the key
  `aggregator_` was built with; `joinable` is `usbThread_.joinable()`.
* libusb calls, the driver and the aggregator's constructor succeed or fail at
  will: `UsbInit`, `UsbOpen`, `UsbClaim`, `BuildAggregator`, `BringUp`,
  `ApplyTune`, `ApplyKey`, `ReadOnce`. `ReadOnce` returns packets, a timeout
  (the error streak stays), an error (counted), or that the device is gone.
* `asked` is history, for the properties only.
* `supPc` starts as `bootStart` if `--vidpid` was given, else as `bootIdle`: by the
  time main() stages its own start the server may have changed `cfg`.
* A key leaves the mailbox before the aggregator is rebuilt with it, and the
  rebuild may throw (`ApplyKey`, `KeyFailed`): `KeyTakesEffect` says that such a
  key is not lost without the session leaving `streaming`.

Left out of it: channel width (it travels with the channel), the wording of
`lastError`, the stream description, and requests the server refuses, which
change nothing (`Answer`).

### AdapterLease

The adapter is on lease to nobody, to the starter or to the capture thread. The
starter takes it with nothing open, acquires the three handles, and gives all
back or hands all over. `Session` implements it with `owner` and `held`:
`LeaseSpec` in `Session.tla`.

### Aggregator

One action is one call of `process_packet`; only the capture thread calls it.
`Session(s)` is a session packet that decrypts, `Data(s, b, f)` a data packet.
The air is the environment: every packet of every session may come at any time,
any number of times, so loss, repetition and reordering are all there. `rx` is
the ring; `Push`, `Enter` (`get_block_ring_idx`), `Flush`, `SendPrefix`,
`Recover`, `Store` and `Send` (`send_packet`) are the functions and loops of the
code. Every `assert` of the code feeds the history variable `sane`. `got` and
`out` are history: what was accepted and what was handed to the callback.

Left out: `count_p_*` and `seq`, which nothing reads; `fec_decode`'s arithmetic
(that a block with k fragments is rebuilt is what `Fec` checks); packets refused
before they change anything. A packet decrypts exactly when its session is the
one in force.

### LossyLink

The consumer of the link sees one position that only moves on, `base`, the
oldest block not given up. A fragment of a block given up is ignored. An
unfinished block that has fragments is given up only for a reason: a newer block
is finished, or `Patience` newer ones have begun. When a block is given up its
packets are handed over, in order and once; those of the block in hand are
handed over as far as they came without a gap, at once or later: when the oldest
block leaves, the code does not look whether the next one could send.
`Aggregator` implements it with `base` as the last known block less the blocks in
the ring: `LinkSpec` in `Aggregator.tla`, a property of `AggregatorWindow`.

### Fec

The field is GF(2^`GfBits`) with the polynomial `Pp`: `x (+) y` is the exclusive
or, bit by bit (`XorBits`), `x (.) y` the table of products (`GfMul`); `GfExp`,
`GfLog`, `Inv` are the other tables. That the polynomial is primitive, so that the powers in `GfExp` are
all the elements but 0, the code takes for granted and the model assumes
(`FecPrimitive`); TLC evaluates it for the instance and for the program's own
eight bits (`MCFec`). `FecNew` builds the encoder's matrix as `fec_new` does, with
the fast inversion of the Vandermonde matrix (`InvertVdm`). `Gather` is
`apply_fec`'s choice of fragments and the matrix that belongs to it,
`InvertColumn` one round of `_invert_mat` with its search for a pivot, and
`Unscramble` its end. `_invert_vdm` leaves the constant term out of its product:
right only because the first element is 0, and the model does the same.

### Stream

The description of the stream is five pieces of `OpenPrlxContext`: `codec`,
`described`, `rtpPayloadType`, `haveParamSets` and the three SDP sets (`sets`).
The capture thread writes them in `handleRtp` (`Receive`, `Count`, `Detect`,
`Describe`, `StorePt`, `ExtractParamSets`) and in `resetDetection`, which a
retune, a reseed and `Start` call (`ResetStep`, one step a store); `Stop` clears
`described` in the middle of it all (`Undescribe`); `GET /sdp` reads three of
them one after the other (`SdpCodec`, `SdpPt`, `SdpSets`). Only the sets are
under a mutex. `/health` compares `rtpPktCount` with `lastPkts`.

A packet is the stream it belongs to, whether it is shorter than an RTP header,
has no payload, or has one, and the first byte of the payload, a single NAL
unit. A parameter set is the stream it came from. What the session's threads do
between these accesses is `Session`'s matter; from there `Stream` takes that
`Start` meets no capture thread (theorem `Exclusive`). `since` and `poll` are
history: what the packets since the last reset said, and whether packets were
counted or a session started since the last poll; `sdp.torn` says that a reset
overtook the request in hand.

Left out: `ssrc`, stored with the payload type and only reported; aggregation
packets; the sending of the packet.

### Radio

A call of `set_channel_bwmode` decides what to reprogram (`Handle`), updates the
driver's caches and raises its flags, and then performs a program of masked
register writes, each after a USB read of the register (`Step`); a flag goes down
with the last write of its part. `rtw_read` throws when a transfer fails, so a
call may end before any step (`Fail`): in a bring-up that ends the session, in a
session that streams `applyPendingControlActions` logs it and goes on. `HalChannel`,
`InitMlme`, `MonitorChannel` are the three calls of one bring-up, `Tune` the one
of a session. `regs` are the fields of the adapter's registers that depend on
channel, width or band; `todo` is what is left of the program, in the four parts
of `phy_SwChnlAndSetBwMode8812`. Members the constructor leaves unassigned start
with garbage. `last` and `torn` are history.

What one meets on the way, all of it in the model: channel 1 at 40 MHz has the
center 255, and that is the 5 GHz band; channel 2 at 40 MHz has the center 0,
which reads as "no change", so that the channel is forgotten (`Forgotten`); at 40 MHz the channel is always the upper
half; after a failed RF read CCA stays off until the next tune; field 0x830[3:1]
of a 1T1R adapter depends on the width of the tune before; a band switch cut
short after its mark in CCK_CHECK hides what it did not write, which is why
`FrontEndIsOfBand` exempts it (`torn`). All this is about reads that fail. That a
write arrives is assumed: `rtw_write` returns false when the transfer fails, and
no caller looks; the flag of that part would go down over the old register, and
`TunedIsConfigured` and `UnflaggedIsDone` would not hold. A tune that fails leaves the radio neither
on the old channel nor on the new one; `UnflaggedIsDone` says that what is then
missing is at least flagged for the next tune.

### Adapter, and what it composes

`Adapter` is one adapter and the sessions that use it one after the other. `phase`
is the place in `rtl8812au_hal_init`. A session may end in every phase
(`EndSession`), and nothing puts the adapter in order then: `mcu`, `ram`, `cr`,
`llt`, `bounded` stay as they are until `Unplug`. As in `Radio`, only reads fail:
apart from the blocks of the firmware, which may be lost, a register write
(`REG_CR`, the boundary, the page table) is assumed to arrive.

* `Efuse`: `WalkRecord` is one round of `Hal_EfuseReadEFuse8812A` on the bytes the
  records were burned as; `Parse` is what the constructor makes of the map,
  `Refuse` the exception without transmit power. Members that are read without
  having been assigned (the amplifier types, and the map of a blank or EEPROM
  adapter) take any value of `Types` and `Maps`.
* `Firmware`: pages and blocks of the image, some of which may not arrive; the
  checksum, cleared before each attempt; three attempts and more while 500 ms
  have not passed. A page is selected by three bits of its number, so an image of
  more than eight would be written over itself: `FirmwareAssumption` excludes it
  (the driver's image has seven). Then the start, and a report that may come late. A download that
  fails tells no one, and the bring-up goes on.
* `BoardTables`: the flat list of conditions and writes, and the loop over
  `is_matched` and `is_skipped` (six copies of it in the code).
* Pages: the transmitter's list ends with the mark 0xFF (`EndOfList`), which in
  the driver is the number of the last page of the ring as well; `Further` does
  not follow it.
* `RxPath`: the packets of a transfer at multiples of eight, found by the parser
  from their lengths. Transfers of 1000 bytes or less are dropped with their
  packets; a damaged packet drops the rest of its transfer. A frame with more
  fragments to come the parser keeps, although it logs that it skips it
  (`FrameParser.cpp:103`); `IsDataFrame` then refuses it, because the bit is part
  of the frame control (`RxFrame.h:85`). `IsVideo` is both tests, and the channel.

Left out: registers that get one fixed value (queues, EDCA, beacons, USB
aggregation), the page numbers of the transmitter, and the crystal trim, of which
`hal_set_crystal_cap` writes 8 bits where its comment speaks of two fields of six.
`rtl8812au_hw_reset` waits for a bit of the adapter without a timeout; the model
takes it that the bit clears.

## The runs

| Run | Question | Bounds |
|---|---|---|
| `SessionSafety` | one owner, no leak, reaping never blocks, streaming is live, the lease is implemented | 1 channel, 1 adapter, 1 key, bodies that set, clear or keep the adapter, 2 errors |
| `SessionChannels` | the capture loop's channel; the inductive invariant | 2 channels, bodies that set the channel, 1 error |
| `SessionProgress` | a signal ends the process, a stop ends the capture, a key gets into force or the session does not stay in `streaming` | 1 channel, 1 key, empty body, 1 error |
| `AggregatorWindow` | the aggregator's properties, its inductive invariant, and that it implements `LossyLink` | ring of 3, blocks 0..4, codes 2/3 and 1/2, a refused 3/2 |
| `StreamDescription` | after each packet the description is that of the packets since the last reset; an SDP no reset overtakes agrees with it; `streaming` is exact within a session; the inductive invariant | 3 streams (2 H.264, 1 H.265), 6 packets, the codec sniffed and pinned, 3 packets a session |
| `RadioRetune` | a tune that completes leaves the registers of its request, whatever reads failed before it; the inductive invariant, which has the types | channels 2, 13 and 36, three widths, two boards, two values of garbage, 1 failed tune a session |
| `DriverLoading` | the map is what was burned, the firmware that runs is the image, pages are laid out while the MAC is off, tables write what they mean for the board, intact frames are handed on | 7 EFUSEs of 27 bytes, 3 boots, image of 10 bytes in pages of 7 and blocks of 4, 2, 1, 3 attempts, 1 lost block, 5 pages, 5 tables, all transfers of one or two of 7 packets, whole or one byte short |
| `FecCode` | any k fragments rebuild the block | GF(8), every code up to n = 8, every choice of k fragments |
| `StreamTornSdp` `SessionLostStart` `SessionUnreaped` `RadioFirstTune` | four statements of comments that some interleaving or input breaks | small |

Why the bounds are enough. Sessions follow one another without bound in every
`Session` run, so what one leaves to the next is covered; two channels are what
it takes to be on the wrong one; two errors are what it takes for a streak to
survive a timeout and to be reset by packets; the adapter's absence and presence
are both in `Configs`. In `AggregatorWindow` five blocks on a ring of three give
overflow, wrap-around of every index, and jumps shorter than, equal to and longer
than the ring; the two codes give a change of code in the middle of blocks, a
session that cannot return because its epoch is older, and k = 1, where every
fragment decodes. The air's block range has one index above `MaxBlockIdx`, and
its fragment range one above n, for the two range checks. In `StreamDescription`
every stream is heard on every channel, so that packets of the old channel may
follow a retune. Three packets are the two sets H.264 needs and one from another
stream that must no longer replace them, or two without payload before the one
that decides the codec; retunes and reseeds divide them in every way.
`MaxPackets` bounds a session, not the number of sessions.

In `RadioRetune` the channels are of both bands; with the widths they reach the
workarounds of 2480 MHz and, with channel 2, the center that reads as "no change".
One failure a session is what it takes to find the rest of a program not done; a
failure after a failure, and every other channel, is what `RadioProofs` adds. The
sessions are without bound. The boards differ in
everything a program asks of one. In `DriverLoading` the EFUSEs hold records with
one- and two-byte headers, a word burned twice, a section past the map, no
transmit power, nothing; 27 bytes is the length some of them fill exactly and
the others do not. The image needs a whole page and a rest, and each of them all
three sizes of block. Of the tables one has two chains one after the other, with
arms for no amplifier, for one, and for two. The transfers put every kind of
packet before and after every other, at lengths that are and are not multiples
of eight; a large one is there so that the limit of 1000 bytes lets some of them
pass. GF(8) with n up to 8 stands to its field as GF(256) with n up to 256 to
its: every field element is a row of the code. No state constraint is used.
The runs of the aggregator and of `Fec` do not check deadlock: they stop when the
last block has been processed and when the block is decoded.

Fairness (`FairSpec`) is weak fairness of each thread: the run loop sleeps at most
200 ms, `ReadOnce` returns within its USB timeout, a handler ends within its
receive deadline, and each thread is runnable again after every step. Nothing
makes a client send a request, a user send a signal, or the radio receive.

### What the violations show

Each is quoted with its lines in `PROJECT.json` under `findings`.

* `SessionLostStart`: an accepted start can meet a thread that has stored its
  terminal state but not `captureFinished` (or one that goes on after a failed
  reseed). `Start` then returns false and the request is gone; the supervisor
  retries only what it postponed itself.
* `SessionUnreaped`: `Stop` loads `streaming`, the thread faults and ends, `Stop`
  stores `stopping`. Nothing leaves that state and every `/start` is refused.
* `StreamTornSdp`: a retune between the loads of `handleSdp` gives the payload
  type of one stream with the parameter sets of another.
* `RadioFirstTune`: the first change of channel "would be done properly" because
  `_currentChannel` starts as 0, which no channel has; channel 2 at 40 MHz has the
  center 0, and the session then streams from channel 36 with the right width.

Three more that the models contain and no run repeats. The 409 check of `/start`
and the merge of its configuration are two steps of `Session`, so that a busy
session's configuration can change. The 409 check of `/tune` and its staging are
two steps as well, so that a tune accepted in one session can take the next one
off its channel. And of the odd bytes that "can only be H.264"
(`WFBReceiver.cpp:305`) the sniff knows three of sixteen, the rest is taken for
H.265 (`Sniff` in `Stream`).

## The theorems

`SessionProofs` proves, for every set of channels, adapters, keys and bodies and
every error limit (assumption `SessionAssumption`: the special values are not
among the others, bodies are well typed, the limit is positive):

* `TypeCorrect`, `Exclusive`, `Handles`, `Reaped`, `Live`, `Channel`: the
  invariants the runs check;
* `ImplementsLease`: `Spec => LeaseSpec`;
* `SessionInvariant`: what they rest on.

None of these invariants is inductive alone. `SessionInv` adds what ties them
together. `Ownership`: a thread object exists exactly while the capture thread's
program counter is not `none`, and none exists inside `Start`. `Reaping`: a
raised `captureFinished` means that the thread is at its end, or that the
supervisor has already joined it and will clear the flag. `Stopped`: after
`shouldStop` nothing streams until the next start, which is why a stop between
two sessions cannot leave `streaming` behind. `HandleStages`: which handles are
open at which step. `ChannelSources`: every value that may become the channel
was asked for. The argument has four independent steps (`TypeStep`, `LifeStep`,
`HandlesStep`, `TunedStep`), each with a case for every action, and `LeaseStep`
maps each action to a step of the lease.

`StreamProofs` proves, for every set of streams, packets, channels and hints and
every bound on the packets of a session (`StreamAssumption`: a payload type has
seven bits, a byte eight):

* `StreamTypes`, `FirstPayload`, `FirstPacket`, `SetsDescribed`,
  `SdpConsistent`, `StreamingExact`: the invariants `StreamDescription` checks;
* `StreamInvariant`: what they rest on.

The properties speak of the moments between two packets; `StreamInv` says what
holds inside `handleRtp` and `resetDetection` as well. `Threads`: nobody is in
one of them beside another thread. `Resetting`: what a reset has stored so far
stays. `Fresh`: between the reset of `Start` and the spawn the description is
empty. `CodecInForce`, `LatchInForce`, `SetsInForce`: each latch agrees with the
history and with the place in the code, `LatchInForce` only while `shouldStop`
is down, because `Stop` clears `described` under `handleRtp`'s hands.
`SdpInForce`: what a request has read is still there, or was not yet known.
There is one lemma for each part, with a case for every action.

`AggregatorProofs` proves, for every size of the ring, range of
blocks, list of sessions and codes (`AggregatorAssumption`):

* `TypeCorrect`, `AssertsAlwaysHold`, `RingAlwaysWindow`,
  `WaitingAlwaysNecessary`, `DecodableAlwaysForwarded`,
  `ReceivedAlwaysForwarded`, `ForwardedAlwaysReceived`, `AlwaysInOrderOnce`: all
  that `AggregatorWindow` checks;
* `ImplementsLink`: `Spec => LinkSpec`, the refinement of `LossyLink`;
* `Invariant`: what they rest on.

`WaitingAlwaysNecessary` is about blocks that could be rebuilt. A packet that could
be sent may wait: the start of a block that has just become the oldest.

`AggregatorInv` (module `AggregatorInvariant`) is stated twice over. Inside a call
it is `Progress`: of a ring r and the fragments g that came, each used slot holds
what came of its block (`Contents`), blocks are in order (`Sorted`), those without
a slot ahead of the oldest got nothing (`Untouched`), and what was sent is exactly
what is due (`Account`, `Due`): a block that left the ring gave all that could be
had of it, the oldest one its prefix. Every helper of the code keeps it:
`FlushProgress`, `PushProgress`, `EnterProgress`, `AdvancedProgress`,
`KeptProgress`, `RecoverLeaves`, `StoreLeaves`. Between two calls three things are
added: the ring is a `Window` that ends at the last known block, nothing came for
a block that is not known (`KnownOnly`), and no block of the ring could be rebuilt
(`Unfinished`). That last one is what fails without the others: it needs that a
fragment is looked at when it comes, and that a slot is only reused after its
block was sent. `Account` is what makes forwarding exact in both directions, so
that nothing is lost, invented or repeated.

The loops of the code are recursive functions inside a LET. What such a function
computes is proved by showing that a function with its equations exists and that
any two of them agree, by `Induction`: the least number on which a property fails
does not exist. `ImplementsLink` maps a call to one step of the link: `BringsPlaces`
(where the block comes to lie), `BringsHandsOver` (what is sent for it) and
`BringsArrives` (what is left) are the three conjuncts of that step.

`RadioProofs` proves, for every set of channels and widths, every board, every
garbage and number of failures (`RadioAssumption`):

* `TypeCorrect`, `UnflaggedAlwaysDone`, `TunedAlwaysConfigured`,
  `FrontEndAlwaysOfBand`: what `RadioRetune` checks;
* `Invariant`: what they rest on.

`RadioInv` (module `RadioInvariant`) speaks of the rest of the program in hand.
`After(s, f, x)` is the value of field f after the steps s, and `Outcome(f)` what
the whole rest will leave it at; `OnItsWay` says that this is what the caches say,
from the first step of a call to its last, and `UnflaggedIsSet` that a field whose
flag is down already has it. A failure then needs no argument of its own: the
flags that are up stay up, and the next tune writes what they mark. `Flags` and
`Caches` say which flags and caches belong to which call, `BandIsWhole` that a
band switch that is not torn is whole or will be. The lemmas about `After`
(`AfterConcat`, `AfterTail`, `StaysWithin`) and about what each part writes
(`SwitchBandShape`, `SwChnlShape`, `PostSetBwShape`, `FixSpurEffect`) are stated
once and used for every call.

`AdapterProofs` proves, for every EFUSE, image, page layout, table and bound
(`EfuseAssumption`, `FirmwareAssumption`, `AdapterAssumption`,
`TransfersAssumption`, `BurnedAssumption`):

* `AdapterTypeCorrect`: every variable of the bring-up keeps its type; the walk of
  the EFUSE stays inside it and writes no section past the map.
* `WholeImage`: the download accepts and starts nothing but the whole image, in
  any session, whatever was lost in it or in those before (`RunsWholeImage`).
* `BlocksAlwaysImage`: an attempt that loses nothing leaves the whole image in
  place, for every page size, block size and length of up to eight pages (`BlocksAreImage`).
* `PagesWhileOff`: pages and their boundary are laid out only while the MAC
  neither sends nor receives (`LaidOutWhileOff`).
* `PagesLaidOut`, `LayoutAlwaysWhole`: a MAC that sends and receives has its
  boundary set and every entry of the page table as `InitLLTTable8812A` means it,
  and these make up one terminated list and one ring (`LayoutIsWhole`).
* `TablesAlwaysMeant`: a table writes what it means for the board, for every table
  (`TablesAreMeant`).
* `WalkAlwaysDecodes`: for any EFUSE whose sections are all of the map, of any
  number of records, the walk ends with the map that was burned (`WalkDecodes`).
* `FramesAlwaysHanded`: of any transfer, of any number of units of any lengths and
  cut anywhere, the intact video frames are handed on, and nothing else (`IntactFramesHanded`).

That the adapter's checksum agrees only with the image is assumed of the adapter
(`ChecksumOk`); what is proved is that the driver never takes an old report for
a new one. `FirmwareInv` is what that rests on: from the moment the 8051 is
reset until the firmware is freed it does not run, while the image is written
no checksum vouches for it, and no download exists before its phase of a
session. `Placing` adds what an attempt without a loss has in place: the pages
before the one in hand; `PageFills` shows that the three loops of `BlockWrite` tile
a page, `PageIsNext` and `PagesAreImage` that the pages tile the image,
`PageIsSelected` that the three bits of its number select the page.
`LayoutInv` says how many entries are written in each phase, and that a
MAC that is on has all of them, since the table is begun only after `PowerOn`
turned it off; `ListIsWhole` and `RingIsWhole` follow the links.

A table is proved from its parts: `LoopParts` (the loop over two tables one after
the other), `LoopWrites` (a run of writes), `LoopArm`, `LoopChain` (the arms of a
chain: none was taken so far, or the first that holds was), `LoopItem` (a chain
leaves the loop as it found it). `MeantIs` turns the condition, which compares the
types only of the amplifiers it names, into what it means, and that needs
`BoardFits`: the constructor assigned the type of every amplifier the board has
(`ParseFits`). `LoadInv` says which tables are loaded in which phase, for the
parameters that were read. `EfuseInv` and `ChipInv` are the rest of the types.

`WalkInv` is the walk's invariant: it stands at the header of some record i + 1, or
behind the last one, and its map is that of the first i (`StandsAt`). `MadeHolds`
says where each piece of a sequence put together of pieces is, and it is used
twice: for the records of the EFUSE (`RecordsAre`) and for the words of a record
(`RecordBurned`). `HeaderTaken` says that both forms of a header are taken for what
was burned, `WordsRead` that the words are looked for where they are, and
`LastOfNext` that a record overrides those before it. The walk may also end one
record early, if that takes the last byte of the EFUSE: it has no words then
(`WalkEndsWhole`). Assumed is that a burned header is not 0xFF (`BurnedAssumption`):
that would be section 15 without a word, and is a byte that was never burned.

The adapter rounds a unit's place up from the sum of all before it, the parser
rounds each unit and adds: `RoundsUp` says that it is the same, since each place is
a multiple of eight. `PlacesAscend` and `QueryAt` say that places do not overlap, so
that the descriptor at a place is that of its unit, and behind the last one there
is none. `ParsedUpTo` is the invariant of the parser's loop: it stands at place i + 1
and has kept the units before it, as long as they are intact. `IntactEnds` picks
the unit where that ends, `ParsedWhole` says that the loop ends there too, by one of
its three conditions, and `NothingBehind` that no later unit counts as intact.
Assumed of the adapter is that it packs no empty packet (`Units`): the parser takes
one for the end. Since `Handed` depends on the transfer alone, `RxInv` lifts this
to a session.

`FecProofs` proves, for every number of bits, primitive polynomial, k and n
(`FecAssumption`, `FecPrimitive`):

* `EveryBlockAlwaysRebuilt`: whichever k of the n fragments arrive and whatever
  the block holds, each data fragment that is missing is rebuilt;
* `AnyKAlwaysRebuild`: hence `AnyKRebuild`, which the run checks for the blocks
  with one symbol that is not 0;
* `AnyKIndependent`: any k rows of the matrix of `fec_new` are independent.

First the tables are a field. The exclusive or is a group by induction over its
bits (`XorBitsLaws`), and multiplication is addition of exponents (`Mul`). That it
distributes is the step that needs the polynomial: taking the next power is linear
(`NextPowerLinear`), also where a bit falls out, and a product is that step
repeated (`MulNext`). Then polynomials: synthetic division, as the code does it,
leaves the value as remainder (`Division`, `Remainder`), and a polynomial with as
many roots as coefficients is 0 (`Roots`). `_invert_vdm` is both at once: its first
loop makes the polynomial with the given roots (`CoefficientRoots`; this is where
the constant term it leaves out must be 0), the second divides it by each
x - p[i], and the value of the quotient at p[i] is the number it divides by
(`InvertVdmInverts`). A row of the encoder is then a polynomial of degree k - 1
read at an element of its own, which makes any k of them independent.

`Stand` picks k rows, no two the same: as many parity fragments arrived as data
fragments are missing (`AsManyParity`), and each gap leaves enough of them for
those after it (`Enough`, `NextFreeDef`). `IInv` says where `_invert_mat` is.
`Exchanged` is the invariant of an elimination in place: the matrix holds the same
equations as the rows it started from, with the unknown and the result of each
pivot exchanged. Swapping two rows and eliminating one column keep it
(`SwapExchanged`, `EliminateExchanged`). Since the rows are independent, an
unfinished column always has a pivot (`PivotExists`, `PivotFound`): the branch
where the search finds none is never taken. After k columns every unknown is
exchanged, so the matrix is the inverse up to the order of its columns, and undoing
the swaps from the last to the first restores that (`PutBackRebuilds`).

Only model-checked: liveness (`SessionProgress`), which the prover does not do
under fairness, and the violations.

## Not modelled

* HTTP and JSON text, the command line, logging: parsing and wording.
* KeyVault's cryptography: calls of libsodium, used by their two outcomes.
* The walk of aggregation packets in `Sdp.cpp` and the size arithmetic of `Rtp.h`.
* Of the driver: transmit power (its tables are compiled out), registers with
  fixed values, USB descriptors and endpoints, the numbers inside the register
  tables and the firmware, which are data, and most of the headers in `hal/`,
  which define registers nothing here uses.

## Plan

1. Done: `Session`, `AdapterLease`, `Aggregator`, `LossyLink`, `Fec`, `Stream`,
   `Radio`, `Efuse`, `Firmware`, `BoardTables`, `RxPath`, `Adapter`, their runs, and
   the theorems above.
2. Done: `AggregatorProofs`, `RadioProofs`, the rest of `AdapterProofs`, and
   `FecProofs`: every invariant and action property of the runs is proved.
3. `Sdp`: the walk of an aggregation packet, and the RTP payload arithmetic with
   its widths, checked against a reference definition over bounded inputs.
