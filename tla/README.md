# A TLA+ model of MERGLCB

MERGLCB is an Arduino library for the nodes of a Layout Control Bus: small
microcontrollers on a CAN bus that teach each other events ("when you hear event
5 of node 260, do something"). This directory holds TLA+ modules translated from
its source (`src/src/*.cpp`), the TLC configurations that check them, and proofs
checked by TLAPS. File names below are those of `src/src`.

## 1. Inventory

| Component | State it keeps | Operations | What is hard, and what makes it correct |
|---|---|---|---|
| Learned events (`MLCBConfig.cpp`, handlers in `MLCB.cpp`) | event slots in EEPROM; `evhashtbl` and `hash_collision` in RAM; `bLearn` | `begin`, `findExistingEvent`, `findEventSpace`, `writeEvent`, `writeEventEV`, `updateEvHashEntry`, `clearEvHashTable`; opcodes NNLRN, NNULN, EVLRN, EVULN, NNCLR, RQEVN, NNEVN, NERD, REVAL, ACON... | two copies of one truth, one of them remade an entry at a time; hash collisions with a short cut; writes cut off by power loss. The RAM mirrors the slots, lookup is exact, no event is stored twice, other events survive |
| Modes and identity (`MLCB.cpp`) | `FLiM`, `CANID`, `nodeNum` (EEPROM); `mode_changing`, `timeout_timer`; LEDs | push button, SNN, CANID, RQNP, RQMN, the 30 s timeout | button, tool and time act in any order. LEDs agree with the mode, a number is only taken in a transition, transitions end |
| CAN id enumeration (`MLCB.cpp`) | `enumeration_required`, `_active`, `_start`, `_responses` | start (conflict, ENUM, SNN, button), answers to RTR, `check_enumeration` | several nodes and lossy buffers; a conflict restarts a cycle. The id chosen is not another's, cycles start and end |
| Lite multipart messages (`MLCBMultipartMessage.cpp`) | one message in each direction | send, process, receive a fragment, timeout | lost, repeated and foreign fragments, wrap of the sequence number |
| Extended multipart messages | send and receive contexts, the round-robin counter, the copies of the messages | the same, and a CRC | contexts run out, repeated headers, interleaved streams. Streams do not disturb each other, every context is freed once, every message gets its turn |
| Storage of identity, reset, NVs (`MLCBConfig.cpp`) | bytes 0..9, the NV area; `FLiM`, `CANID`, `nodeNum` in RAM | setters, `writeNV`, `resetModule`, `begin`, `loadNVs` | bytes written one at a time. RAM and memory agree; flag and mode are stored after what they stand for |
| Flash page cache (`MLCBConfig.cpp`, AVR-Dx only) | `cache_page`, `curr_page_num` | `flash_cache_page`, `flash_write_bytes`, `flash_writeback_page`, `resetEEPROM` | erase, then program, against power loss; stale copies; writes across two pages. A write changes the bytes it names and no others |
| LED, push button | blink and pulse timers; pin state and durations | `run`, `on`, `off`, `blink`, `pulse` | contacts bounce, presses meet transitions and timeouts. The LED shows the mode, a press it acknowledged counts |
| Parameters, opcodes, platform code | constants, I/O | | no behaviour to get wrong over several steps |

`MLCBbase::process()` is the centre. The sketch's `loop()` calls it for ever; it
reads frames from the CAN driver (a derived class in another library), calls
`MLCBConfig` for everything stored, and passes fragments to the multipart object.
There is one thread per node; concurrency is between nodes, frames, the clock
and power loss. `PROJECT.json` lists the hazards at their lines.

## 2. Modules

| Module | Models |
|---|---|
| `EventTable` | the event table of one node and every handler that uses it |
| `EventStore` | what the table promises: a bounded set of events with variables |
| `EventHash` | `makeHash` as the code computes it |
| `EnumMap` | the response map of an enumeration and the choice of an id |
| `Bus` | nodes that run `process()`: modes, identity, enumeration, frames, time |
| `Multipart` | Lite multipart messages: several senders, a channel, one receiver |
| `MultipartEx` | extended multipart messages: contexts on both sides, a channel |
| `ByteMemory` | what the configuration expects of the memory it is kept in |
| `Storage` | the calls that write, the reset, EEPROM and cached flash, power loss |
| `Panel` | the push button and the LEDs of a node in `process()` |
| `EventTableProofs`, `EnumMapProofs`, `BusProofs`, `MultipartProofs`, `MultipartExProofs`, `StorageProofs`, `PanelProofs` | theorems about the module of that name |
| `LeastElement` | that a set of numbers has a least one, for the operators that choose it |
| `MCEventTable`, `MCBus`, `MCMultipartEx`, `MCStorage` | values for the constants of a TLC run |

The modules are views of one node at different grain. `EventTable` takes memory as
slots of bytes that are written in order; `ByteMemory` is that assumption, and
`Storage` shows which memories satisfy it. `Bus` takes presses of the button by their
length; `Panel` derives the presses from the contact. `Multipart` and `MultipartEx`
take from `Bus` only that frames of several nodes arrive in the order of the bus.

### EventTable

`eeprom` is a function from slots to bytes: offsets 0..3 are node and event
number, offset 3+n is EV n. `evhashtbl`, `hash_collision` and `bLearn` are the
variables of the code. `frame` is the frame handled last, `reply` the frame or
callback its handler ends in.
Each opcode is an action; the writes, the remade hash entry, the flag and the
reply of one handler happen together because nothing runs between them, except
power loss, which has actions of its own that stop a handler after each byte
(`PowerLossLearning`, `PowerLossUnlearning`, `PowerLossClearing`) and rebuild the
RAM as `begin()` does. EEPROM bytes are written one at a time and in order
(`EEPROM_INTERNAL`); bytes past the last slot are not modelled, a write to them
is dropped and a read returns 255. The node's handler for events is taken to be
the extended one (`eventhandlerex`), with the other one the call has fewer
arguments. EVLRN and EVULN carry no number of the receiver, so every node in
learn mode obeys; frames for another node number change nothing and are not
modelled.

`EventTable` implements `EventStore` (`ImplementsStore`): the set of events is
read off the used slots, and slots, hashes, collisions and reuse do not show. The
store's promise is as weak as the code: `Forget` may remove some event or none
(see the finding on EVULN), and the variables of a new event that were not taught
are arbitrary.

### Bus and EnumMap

`pc[n]` tells where node n is in `process()`: at the top, or in the loop over
frames. A call is `StartRequired` (if an enumeration is required), one of the
switch actions, up to `NUM_MESSAGES` times `HandleFrame`, and `CheckTimers`, which
is `check_enumeration()` followed by the check of the 30 s timer. The two timers
are one action because nothing else reads or writes the node's state between
them, and frames that arrive in between arrive as well after both. `rx[n]` is the
receive buffer of the driver; a frame is put into the buffers of all other nodes,
and lost where the buffer is full. The frame carries the seven low bits of the
sender's id. `Tick` advances the timers that run; they stop at the values
`ENUM_TIME` and `MODE_TIME` for 100 ms and 30 s. A press of the button is an action
of the kind `process()` distinguishes by its length; a press of 0.5 to 1 s or of 2
to 8 s does nothing in the code and is left out. `led` is the mode that
`indicateMode` was last given. `steady` is a history variable, no state of the
code: `steady[n]` are the nodes that have kept their id since n last started to
enumerate. What people, programs and other equipment do to a node are stimuli, of the
kinds in `Acts`: each takes one of `MAX_STIMULI`, except for the kinds in `Endless`, which
can occur for ever. The number in an SNN is a legal one, 1 or more; the handler
(`MLCB.cpp:554`) takes 0 as well, and would make a FLiM node without a number.

`EnumMap` is the 128-bit map with the index arithmetic of the code: byte id / 16,
bit id % 8. Ids eight apart share a bit, so ids 8..15 of each sixteen are never
selected though the comment at `MLCB.cpp:994` speaks of the lowest available id.

### Multipart

`snd[s]` is what node s sends (`_send_stream_id`, `_send_buffer_len`,
`_send_buffer_index`, `_send_sequence_num`, the time since `_last_fragment_sent`);
`rcv` holds the variables of the receiver, with the contents of the receive buffer
in place of `_receive_buffer_index`. A byte of message m is the pair of m and its
place, so a byte that is handed to the sketch shows where it comes from. `calls`
are the calls of the sketch's handler in the last step. `process()` is two
actions: `SendNext` on the senders, `TimeOut` on the receiver, which may be the
same node in the code but share no variable. `processReceivedMessageFragment()` is
one action for each way through it, and on each of them, the ignored fragments
included, the expected number goes up and the timeout starts again. A frame with
number 0 is read as a header whatever it is: a fragment whose number has wrapped
announces any length, or is dropped for its flags. The five bytes of a fragment
and the 256 numbers are the constants `PAYLOAD` and `SEQ_MOD`, so that a message of
few bytes has several fragments and wraps.

A frame is lost or repeated where it is sent; a full queue loses it as well. A
sender that restarts forgets its message; a receiver that restarts forgets
everything. `got`, `source`, `undisturbed`, `headerLost` and `faulty` are history
variables: what has been handed over since the last header that was accepted, the
message of that header, and what went wrong since. A message of length 0 is
legal; the receiver waits for a fragment of it until its timeout.

Nothing in a fragment tells its message and the Lite version has no CRC: if the
end of one message and the header of the next are lost, fragments of the second
complete the first. `CompleteIsSent` and the others are therefore stated for
executions in which no header was lost.

### MultipartEx

`snd[s]` are the send contexts of node s, `context[s]` the static counter of
`process()`, `rcv` the receive contexts. The search for a free send context lets the
index past the last one through; `Beyond` is the memory behind the array, to which the
message is then written and which `process()` never visits. A message is chosen from
`Messages` by its length and the place of its first zero byte: `strdup()` copies up to
there, and what follows is `Garbage`. The last `last_fragment_sent` of a context stays
when it is used again, so the first fragment of a message can follow at once; before
the first use it is not initialised (`Init` chooses). The CRC of a message is the
message itself, which is to say that CRCs never agree by chance; the value 0, "no
CRC", is the empty sequence. A frame whose number wraps to 0 is read as a header with any
length.

`process()` is `Process(s)` on a sender, which handles the context whose turn it is and
advances the counter also when nothing was due, and `TimeOut` on the receiver, which
gives up all overdue contexts in one call. `open`, `disturbed`, and in a context `msg`
and `body`, are history: messages begun and not reported, the streams some fault has
hit, and the message whose header took the context. A full queue counts as a fault of
the stream whose frame it loses. `PROMPT`: time passes only when nothing is due, which
is what makes a stream that nothing was lost of safe from the timeout.

### Storage and ByteMemory

A call is the sequence of writes it makes (`setSLiM`, `SNN`, `writeNV`, `writeEvent`,
`resetModule`, ...), held in `todo`; `ram` is what it sets in RAM before a write. A node
has one of two kinds of memory, fixed before `begin()`. With `EEPROM_INTERNAL` a step
is a byte (`WriteByte`). With `EEPROM_USES_FLASH` a write is three steps: `Fill` puts
the bytes into the copy of the page, reading the page first if it is another one;
`Erase` and `Program` are `flash_writeback_page`. Power can fail between any two
steps, and in the middle of programming, which leaves the first bytes of the page and
blanks behind them (`PowerLoss`, `cut`). Every write is written back at once, so the
flag `dirty` never outlives a call and is not kept. Bytes past the end of the page go
behind the array `cache_page`, where `curr_page_num` may lie: `Fill` lets its value
change. `Init` is memory that was never written.

Two restrictions. The node numbers of SNN are legal ones, 1 or more: the handler takes any,
so `FLiMNeedsNumber` says nothing of an SNN with number 0. And the platform is any but the
Due: on `__SAM3X8E__` the loop of `resetModule` that clears the on-chip EEPROM
(`MLCBConfig.cpp:865`) is compiled out, so that the events stay and the flag is set;
`ResetFlagTruthful` and its theorem do not hold there.

`Storage` implements `ByteMemory` by reading `mem` as the flash with the write-back
that is under way completed (`stored`), and `atRisk` as the page between its erasure
and its programming. The abstract memory says that writes are done in order, that each
changes the bytes it names, and that power loss harms nothing except cells at risk.

### Panel

One node's button and LEDs. `pressed` is the contact and changes at any moment; `sw`
and `grn`, `ylw` are the objects `MLCBSwitch` and `MLCBLED` with times as ages in ticks.
The start of `process()` (`RunUI`: both LEDs run, the pin is read, the LEDs of a long
press, the release) is one step, each frame one, the end one. A frame is any frame
or the SNN that closes a transition. There is no debouncing in the code, and none
here. The pulse of the green LED has length 0 (nothing in the library sets
`_pulselength` for it), so it ends in the same call with the LED off. Enumeration and
identity are those of `Bus` and are left out.

## 3. Runs

| Run | Instance | Shows |
|---|---|---|
| `event_table` | 3 slots, 2 EVs, 4 events of which two collide, legal EV numbers, powered | the invariants and the refinement |
| `event_power` | 2 slots, 1 EV, 3 events, EV numbers 0 and 1, power loss at every byte | the RAM after a restart, the survival of other events |
| `event_unlearn` | as `event_table` | finding: EVULN clears slot 0 |
| `bus_modes` | 1 node, fresh or set up, 4 stimuli of every kind except reboot, and RTR frames without end | modes, LEDs and the termination of transitions and enumerations |
| `bus_enum` | 2 nodes, set up with equal ids or with 1 and 9, 2 stimuli, reboots | the id that is chosen, conflicts in both directions |
| `bus_free` | 2 nodes, button presses | finding: concurrent enumerations |
| `lite` | 2 senders, 2 streams of which one is subscribed, 2 messages of 0 or 4 bytes, 2 faults | complete messages are the ones sent, pieces in order, one report each, the receiver becomes free |
| `lite_foreign` | 2 senders, 2 messages of 0 or 5 bytes, 1 fault | finding: ignored fragments are counted |
| `multipart_ex` | 2 senders, 2 streams, 2 contexts each way, messages of 3 or 4 bytes, with a CRC and a zero byte or without, buffer of 3, 2 messages, 1 fault | complete messages are the ones sent, isolation of streams, one report per context, every message arrives |
| `storage` | both kinds of memory, 2 pages of 8 bytes, 1 NV, 1 event with 1 EV, power loss at every step | the refinement, RAM against memory, order of the writes of SNN and of the reset |
| `storage_cross` | flash, 3 pages, an event across the end of the second | finding: bytes past the end of a page are lost |
| `panel` | thresholds 1, 2, 3, 4; blinking 2; transition 5 ticks | LEDs against mode, presses, blinking |

**Bounds.** Three slots and four events let the table be full, let a collision be
on either side of a free slot and let an event be relearnt elsewhere; the events
of `MCEventTable` are chosen by the hash function of the code so that two of
them collide, and one is a short event (node number 0). Two slots are enough for
the runs with power loss, where the memory has many more values. In `Bus`,
`NUM_MESSAGES` is 1 or 2 where the code's default is 3, so that `process()` leaves
frames in the buffer even in small instances; a buffer of 2 overflows in
`bus_modes`, one of 5 is never full in `bus_enum`. `MAX_STIMULI` bounds what people and
tools do, not what nodes send to each other. The RTR frames of `bus_modes` never end, so the
buffer need never run empty: `process()` must come to its timers all the same, because it leaves its loop
after `NUM_MESSAGES` frames. Frames with data under the node's own id would restart its enumeration for
ever. The ids 1 and 9 of `bus_enum` share a bit of the response map. The timers count 1 and 2 ticks, which
keeps their order and lets every frame arrive before, with and after each. In
`lite` a message of 4 bytes is one fragment of 3 bytes and one that is not full, and
the buffer holds 2, so that it fills up inside a fragment and with the last byte; two messages let a second sender, a second
stream or a second message of the same sender come in between; two faults cover a
loss with a restart or a repetition. The queue of 2 overflows.

In `multipart_ex` a fragment carries 2 bytes and the buffer 3, so that messages of 3
bytes fill it exactly and those of 4 are truncated, both in the middle of a fragment;
two messages are enough for every pair (same stream of two senders, two streams of
one sender, one after the other), and one fault for a loss, a repeated header that
takes the second context, or a restart. The two contexts are exhausted by a repeated
header and a second message. In `storage` the identity and the reset flag
lie in page 0, the NV and the event in page 1, so that calls alternate between cached
pages; NVSET of index 0 reaches the byte
before the NVs. Node numbers 1 and 256 have different high and low bytes. The
thresholds in `panel` keep the order of 0.5, 1, 2 and 8 s and the transition is longer
than the longest of them; a blinking period of 2 ticks lets `process()` run several
times within it.

**Fairness.** `WF_vars(Process(n))`: `loop()` calls `process()` again and again, and
every call comes to an end. `WF_vars(Tick)`: time passes. Nothing is assumed of the
button, the tool, the sketch or of frames being delivered. `PROMPT` restricts
`Tick`: time passes only when all buffers are empty, which is the assumption that
answers come within 100 ms. It is set only in runs about the choice of an id:
without it the code can choose any id.

In `MultipartEx`, `WF_vars(Process(s))` for each sender, `WF` of the receiver's two actions
together, and `WF_vars(Tick)`; in `Panel`, `WF` of the steps of `process()` except the
handling of a frame, so that no frame is assumed to come, and of `Tick`. `process()`
leaves its loop after `num_messages` frames, which is why its end is fair.

In `Multipart`, `WF` of `SendNext`, `HandleFragment` and `TimeOut` say that every node
keeps calling `process()`, and `WF_vars(Tick)` that time passes.

**What the liveness runs mean.** `ReceptionEnds` holds although every fragment, of
any stream, restarts the timeout, because messages are finite in number: a
stream of other messages that never ends keeps the receiver waiting. `EnumerationEnds` in `bus_enum` covers nodes that
conflict and restart each other: it holds since the id a cycle chooses differs
from those of the conflict. With unbounded conflicting frames from outside it would
not hold: the frames that never end (`Endless`) are remote frames, which never count as a
conflict.

## 4. Proofs

Every invariant and every action property that a run checks is also a theorem, proved
for all values of the constants that satisfy the assumptions, as are both refinements.
Liveness is only model-checked. The tables name the property a theorem states. An
assumption in the second column is one the theorem makes beyond the `ASSUME`s of the
module; each is satisfied by the passing run of the module, and what happens without
it is said below.

### EventTable

| Theorem | Assumes | Establishes |
|---|---|---|
| `Inductive`, `TypeCorrect` | `LegalEVs` | `IInv`; `TypeOK` |
| `MirrorHolds`, `CollisionFlagExact` | `LegalEVs` | `HashMirror`, `CollisionExact` |
| `LookupCorrect` | `LegalEVs` | `LookupExact` |
| `OthersSurviveHolds` | `LegalEVs` | `OthersSurvive` |
| `NoDuplicatesHolds` | `NoEVZero`, no power loss | `NoDuplicates` |
| `StoreImplemented` | `LegalFrames`, no power loss | `ImplementsStore` |

They hold for every number of slots and variables, every hash function into 1..255 and
all sets of events. `IInv` says that the slots are bytes, that `evhashtbl` is what
`makeEvHashTable` would compute, and that the flag is exact. `HashMirror` alone is not
inductive: an update remakes one entry, so the step needs that the slots changed in one
place only (`LearntType`, `WriteEVType`), and that the flag is recomputed from the table
(`UpdateKeepsMirror`). Lookup is the case analysis of `findExistingEvent`, with and
without the collision flag (`FindExact`). `NoDuplicates` needs more than itself: equal
used slots are the same slot, which EVLRN keeps because its lookup is exact. The
refinement rests on the same fact, since it makes slots and events correspond one to
one: a full table is then a full store (`StoreSize`), and the slot found is the event's.

`LegalEVs`: frames carry EV numbers of at most `EE_NUM_EVS`; beyond that the next slot
is overwritten (section 5). `NoEVZero`: nor 0, which is the low byte of the event
number. `LegalFrames` is `NoEVZero`, and that no event is taught whose four bytes are those of an
erased slot, which the code could not tell from a free one.

### Bus and EnumMap

| Theorem | Assumes | Establishes |
|---|---|---|
| `SelectedIsFree` (`EnumMapProofs`) | | the id selected is in 1..128 and none that was heard |
| `Inductive`, `TypeCorrect` | | `IInv`; `TypeOK` |
| `LedsTrue` | | `LedShowsMode` |
| `NumberGuarded` | | `NodeNumberGuarded` |
| `FLiMHasId` | no reboot among the stimuli, FLiM nodes start with an id | `FLiMGetsId` |
| `EnumerationAvoids` | `PROMPT`, and always `NotAtLimits` | `EnumerationAvoidsOthers` |

They hold for any number of nodes, any buffers and timers, and frames of any kind from
outside. In `SelectedIsFree` the key is that bit 0 of byte 8 is never set, so that the
search always ends. `IInv` adds to the types that buffers hold frames of the protocol
only, and `LedShowsMode`. `FLiMGetsId` is kept because nothing but the end of an
enumeration ends one that is required or active (`RequiredKept`), and no enumeration ends
with id 0 (`SelectedIsByte`).

`EnumerationAvoids` is the longest argument. Its invariant `Heard` follows each node m
that has kept its id since n started: its id is in the map of n, or the request is still
in the buffer of m, or its answer in that of n; the last two only as long as no time has
passed. It needs `PROMPT`, for with a late answer the code can choose any id, and
`NotAtLimits`: no buffer is full, which would lose the request or the answer, and the
map has a place below 128 left, since id 128 looks like 0 in the header of a frame. `bus_enum`
satisfies both.

### Multipart

| Theorem | Assumes | Establishes |
|---|---|---|
| `Inductive`, `TypeCorrect` | | `Types`; `TypeOK` |
| `BuffersNeverOverflow` | | `BufferFits` |
| `ReportedOnce` | | `EndsOnce` |
| `Following` | `NoWrap` | `IInv` |
| `CompleteMessagesAreSent` | `NoWrap` | `CompleteIsSent` |
| `PiecesInOrder` | `NoWrap` | `PiecesArePrefix` |
| `ErrorsHaveACause` | `NoWrap` | `ErrorsHaveCause` |

They hold for any number of senders, streams, messages and faults and all sizes; the
first four rows also with numbers that wrap. `IInv` has, besides the types, four parts:
`Contents`, each frame holds the bytes of its message that its number stands for;
`Order`, the messages of a sender come one after the other in the queue, and behind
what it is sending there is nothing; `Progress` and `Pieces`, what the receiver has,
handed over or in the buffer, is the beginning of the message whose header it accepted. A fragment
does not name its message, so that a fragment with the expected number is only known to
be the right one by its place in the queue: this is why an invariant about the receiver needs
one about the channel. `ErrorsHaveACause` needs the converse, that nothing is missing:
`Chain` says that frames of a sender follow each other without a gap as long as there is no
fault.

`NoWrap`: no message has more fragments than there are numbers. TLC finds `CompleteIsSent`
violated without it (messages of 1 and 7 bytes, two bytes in a fragment, two numbers,
two faults): a receiver that restarts reads a fragment whose number has wrapped to 0 as a header.
In the code that is a message of more than 255 * 5 bytes, which the receiver cannot receive anyhow
(section 5).

### MultipartEx

| Theorem | Assumes | Establishes |
|---|---|---|
| `Inductive`, `TypeCorrect` | | `Types`; `TypeOK` |
| `EveryEndIsReported` | | `EndsOnce` |
| `CrcTells` | `NoWrap` | a message with a CRC that is reported complete is the one sent |
| `CompleteMessagesAreSent` | `NoWrap`, `EnoughContexts` | `CompleteIsSent` |
| `StreamsAreIsolated` | `NoWrap`, `EnoughContexts`, `CrcsAgree`, `TimeEnough` | `StreamsIsolated` |

They hold for any number of nodes, contexts, streams, messages and faults.

* `Right`: the number of a fragment tells its offset in the message, on the sender, in
  the queue, and at the receiver, where the expected number tells how much is there. It
  is all that `CrcTells` needs beyond the types.
* `OneSender`: a node sends one message of a stream at a time.
* `Ordered`, for each stream no fault has hit: each frame in the queue is followed by
  the next fragment of its message, the last one by a header; the receive context
  waits for the frame that comes first; and there is one such context at most.
* `Pieces`: what a context of such a stream has is the beginning of its message.
* `Young`: the age of such a context is at most the delay between two fragments, as
  long as its sender has something to send. A tick comes only when nothing is due and
  the queue is empty.

`Ordered` cannot be weakened to what the receiver sees: that the next frame is the one it
waits for is only kept by knowing all frames behind it and what the sender will send.

`EnoughContexts`: a node has as many send contexts as there are streams. With fewer a message
can be written behind the array (section 5); its header is sent and its fragments are not, a later
message of the stream takes a second receive context, and its fragments go to the first one.
`CrcsAgree`: a receiver that does not use CRCs hears none, as it rejects
them (section 5). `TimeEnough`: `PROMPT`, and a timeout longer than the delay between two fragments, 5000
and 20 ms in the code. `multipart_ex` satisfies all of them.

### Storage

| Theorem | Assumes | Establishes |
|---|---|---|
| `Inductive`, `TypeCorrect` | `EventsFit` | `IInv`; `TypeOK` |
| `IdentitySurvives` | `EventsFit` | `IdentityStored` |
| `FlagTruthful` | `EventsFit` | `ResetFlagTruthful` |
| `FLiMHasNumber` | `EventsFit` | `FLiMNeedsNumber` |
| `MemoryImplemented` | `EventsFit` | `ImplementsMemory` |

They hold for both kinds of memory, any number and size of pages, and any number of NVs
and events. `IInv` has three parts besides the types. `CacheTrue`: the copy in
RAM is the page it is taken for, except in the middle of a write. `ResetOnItsWay`: a reset
that has come to its k-th write has done the k - 1 before it; without it nothing
connects the flag, the last byte written, with the bytes before it. `CallOnItsWay`: the writes a running call
has done and those it has still to do lead to one identity (`IdentityComing`), whose
number is not 0 if it is to be FLiM; this is what an SNN cut into single bytes keeps. The refinement
proof takes the step `Erase` as the one that does the write, and shows
that all else is a stutter, a new call, or cells at risk that are settled or lost.

`EventsFit`: on flash no event lies across two pages. `storage_cross` is the run that
shows what happens otherwise.

### Panel

| Theorem | Establishes |
|---|---|
| `Inductive`, `TypeCorrect` | `IInv`; `TypeOK` |
| `YellowShows` | `YellowShowsMode` |
| `PromiseKept` | `ReleaseKeepsPromise` |

They hold for all thresholds and times. `IInv` adds to `TypeOK` and `YellowShowsMode` that a promise the
LEDs have made is true of the button (`PromiseHeld`): it is held, and has been for long enough.
Neither of the last two is inductive without the other, since the LEDs may differ from the mode only
while something is promised.

### Changes to the model that the proofs led to

The memory of `EventTable` is assumed to be bytes (`ByteAssumption`), a page of `Storage`
to be longer than an event's four bytes, the identities of `Bus` to be identities, and
streams to exist in `Multipart` and `MultipartEx`: each was used and not said. `inOrder`
in `MultipartEx` says in one line in what order overdue contexts are reported, where a
recursive library operator had been used, about which nothing can be proved.

### Only model-checked

Liveness: `EnumerationStarts`, `EnumerationEnds`, `TransitionEnds`, `ReceptionEnds` (twice),
`MessagesArrive` and `YellowBlinks`. They rest on fairness and `ENABLED`, which the provers at hand
do not support. What `makeHash` computes is not proved either, since the bitwise operators are
beyond them too; the theorems about `EventTable` hold for every hash into 1..255, which TLC
checks of the code's on the events of the instance (`HashAssumption`).

## 5. Findings

With a run:

1. `MLCB.cpp:653`: EVULN looks the event up as `index` but clears slot `j`, a local
   that is always 0 (`event_unlearn`).
2. `MLCB.cpp:1001`: two nodes that enumerate at once can take the same id
   (`bus_free`).
3. `MLCBMultipartMessage.cpp:261`: a fragment that is ignored is counted as one of
   the message; it breaks the message, or hides a lost fragment (`lite_foreign`).
4. `MLCBConfig.cpp:1070`: the test for the end of a flash page compares an index that
   never changes; an event across two pages is lost (`storage_cross`).

Seen while modelling, without a run of their own (`PROJECT.json` quotes the comments):

* `MLCB.cpp:812`: `evindex` is not compared with `EE_NUM_EVS`; a number past the last
  variable writes into the next slot, whose hash entry is not remade. TLC finds
  `HashMirror` violated when `event_power` is given `EVIndices = {1, 2}`.
* `MLCB.cpp:439`, `:308`: SLiM nodes enumerate, against the comment at 183. All of them
  have id 0, so a frame of one (the RQNN after a press, say) is a conflict for the
  others, which then take an id. A node that reverts to SLiM during an enumeration takes one as well.
* `MLCBMultipartMessage.cpp:213`: the expected number is wider than the byte it is
  compared with, so that a message of more than 255 fragments fails. TLC finds
  `ErrorsHaveCause` violated without any fault by `SEQ_MOD = 2` and one message of two fragments.
* `MLCBMultipartMessage.cpp:415`: with no free send context the message is written
  behind the array; `:425`: `strdup()` stops at a zero byte; `:645`: a receiver that
  does not use CRCs rejects messages that carry one.
* `MLCB.cpp:423`: the pulse of the green LED has length 0 and turns it off.
* `MLCBLED.cpp:129`, `:132`: both blinking rates of `op()` are the same, and the pulses
  "off" light the LED.
* `MLCBConfig.cpp:865`: on the Due (`__SAM3X8E__`) `resetModule` clears nothing of the on-chip
  EEPROM, against the comment at 861, and sets the reset flag.
* `MLCBConfig.cpp:513`: NVs go to the memory of `eeprom_type`, against the comment at 125.
* Ids 8..15 of each sixteen are never chosen (`MLCB.cpp:453`); the handler calls
  `eventhandler` for AREQ without a test (`MLCB.cpp:837`); NVRD compares a local that is
  always 0 (`MLCB.cpp:608`); the comment of `is_sending`
  (`MLCBMultipartMessage.cpp:286`, "true = complete") says the opposite of what it
  returns.
* A power cycle between SNN and the end of the enumeration leaves a FLiM node with
  CAN id 0, so `FLiMGetsId` is checked without power cycles. Power loss inside `setSLiM`
  or inside SNN for a node that is in FLiM already leaves a FLiM node with number 0, or
  with one byte of the new number: `FLiMNeedsNumber` speaks of the moment FLiM is
  stored only.
* `MLCBConfig.cpp:886`: `resetModule` sets the reset flag before it zeroes the NVs, so
  that after power loss in between NVs are blank (255) and the flag is set.
  `ResetFlagTruthful` therefore says nothing of the NVs.

## 6. Plan

The components above are modelled, and their safety is proved. What would say more, in
this order:

1. The hazards of `PROJECT.json` that no property covers. The first to have one: an event
   learnt in a freed slot starts with the variables of the event that was there
   (`MLCB.cpp:813`), and the id a node takes at the end of an enumeration some answers
   of which were lost (`MLCB.cpp:962`).
2. `Bus`: `EnumerationAvoidsOthers` for cycles that overlap, which says how far the
   finding of `bus_free` reaches: an id taken twice is one that was taken during the cycle.
3. `EventTable`: a store for a node that loses power, in which an event can have two slots.
4. The safety part of the liveness properties: that each step of an enumeration, a
   transition or a reception leaves less to do, for all values of the constants.

## 7. Not modelled

Parameters and opcode numbers (constants); the external EEPROM on the I2C bus, whose
errors the code only logs, the watchdog, free memory and other platform code (input and
output); `MLCBLED::op` and LEDs of the sketch; `crc32`, which nothing calls; the heartbeat (`isMLCB` is never set, so it never
runs); MODE, RQSD and REQEV (they print); the values carried by NVANS, PARAN, DGN
and NAME. The CAN drivers are in other repositories and are external here.
