# A TLA+ model of gr-LibreLoRa

gr-LibreLoRa is a LoRa modem made of GNU Radio blocks. Each block is a C++
object with a thread of its own; blocks exchange *streams* (items with
occasional tags) and *messages* (handled by the receiving block between two
calls of its work function). What is hard about the modem is not in a
single block but in this mixture: sizes, spreading factors and code rates
travel by message or by tag, the items they are about travel by stream, and
nothing but the order of events keeps them together.

The modules here model the two control blocks, the loop and the path they
live in, the tail behind the receiver, the code blocks between the two
chains with the bits inside them, the power detector in samples, and the
setters of the two hier blocks. TLC checks all of it on small instances;
TLAPS proves their safety properties for every value of the constants, some
of them under a condition that section 4 names.

## 1. Inventory

### Receiver (`python/LoRaRx.py`)

| Part | State | Operations | Talks to |
|---|---|---|---|
| `PowerDetector` (in `ChirpDetector`) | `state` (detection, started, waiting), `samplesToRead` | work in each state; message `reset` | `detectOut` to the gates, `correlationSync`; samples to `FFTMax` |
| `FFTMax`, `Correlation` | `enabled` | work; messages `enable`, `reset` | samples and correlation to `correlationSync` |
| `correlationSync` | `syncd`, `preambleConsumed`, `nOutputItemsToProduce` | search, consume preamble, produce symbols; messages `reset`, `setNOutputItemsToProduce` | `sync` to the controller and to `Correlation`; symbols to the demodulator |
| `symbolDemodNew`, `grayEncode`, `deinterleave`, `decode` | `SF`, `codeLength`/`CR`, output buffers that are ored into | work; messages `setSF`, `setCR` | nibbles to the controller |
| `receiverController` | state, `SFcurrent`, `CR`, header fields, sizes | drop a nibble, read a header, send a payload; message `sync` | `setSFout`, `setCRout`, `synchronizerSetN`, `synchronizerReset`, `payloadLength`, `crc`, `lfsrStateOut`; nibbles and `payloadSize` tags to the tail |
| `NibblesToBytes`, `randomize`, `CRC16` (the tail) | LFSR, `payloadSize`, byte counters, `xorOut` | work; tag `payloadSize`; messages `setLfsrState`, `setPayloadSize`, `setXorOut` | bytes and `crcOut` to the user |
| `LoRaRx` and `ChirpDetector` themselves | parameters and the variables computed from them | a setter for each, which recomputes what depends on it and tells some of the running blocks | the blocks inside |

The loop is closed: the controller's `synchronizerReset` ends the detection
window, gates FFTMax and drops the synchronisation; its `synchronizerSetN`
decides how many symbols the synchroniser produces; what comes back are the
nibbles it waits for. Correctness: a payload that is handed on is made of
the nibbles of one frame; the symbols asked for are exactly those the frame
has; nothing of one frame is left over where the next would be read after
it; the controller never waits for ever; frames are not lost; the bytes are
dewhitened from the start of the sequence and checked against the CRC of
their own frame; the detector keeps its two inputs together.

### Transmitter (`python/LoRaTx.py`)

| Part | State | Operations | Talks to |
|---|---|---|---|
| `CRC16` | `payloadSize`, `byteCount`, `crc` | work; tag `payloadSize` | `crcOut` to the controller, by message |
| `randomize`, `BytesToNibbles` | `payloadSize`, `byteCount`, LFSR | work; tag `payloadSize` | nibbles to the controller |
| `TransmitterController` | state, parameters, `payloadSize`, `crc`, `nNibbles`, `nNibblesTotal`, header | write header block, write payload blocks; tags `payloadSize`, `loraFrameParams`; messages `setCRC`, `setPayloadSize` | nibbles with tags `loraParams`, `loraEndOfFrame`; `transmissionStart` to `AppendSilence` |
| `Encode`, `Interleave`, `GrayDecode`, `SymbolMod`, `AppendPrefix`, `FrequencyMod` | SF, CR, `changedParams`, symbol size, from `loraParams` tags; Interleave's output buffer | work | samples to `AppendSilence` |
| `AppendSilence` | `transmittingFrame` | work; message `start`; tag `loraEndOfFrame` | samples to the radio |
| `LoRaTx` itself | parameters, `OSF`, `symbolSize`, `preambleFrequency` | setters, which tell no block | - |

Correctness: each PDU becomes one whole frame with the header, payload, CRC
and padding the receiver expects, whitened from the start of the sequence,
cut into code blocks with the right SF and CR, sent without interruption, in
order, and eventually; no call reads input that is not there.

### Not part of either chain

PDU header generator and reader, `DetectionCount`, `ChirpTrackMsgToFreq`
(message blocks around the modem), a set of floating-point estimators
(frequency trackers, sliding DFTs, searches), older variants of blocks
(`correlationSyncDemod`, `preambleDetector`, ...), bindings, GRC
descriptions, examples and the documentation tooling. Section 5 and
`PROJECT.json` say why they are not modelled.

Nothing is persisted and no message is lost or duplicated by GNU Radio, so
there is no crash recovery and no retransmission. What is hard is
interleaving, ordering between messages and streams, stale state, sizes at
their boundaries, buffers with old contents, and waiting.

## 2. Modules

| Module | Models |
|---|---|
| `ReceiverController` | `lib/receiverController_impl.cc` in an arbitrary environment |
| `TransmitterSizes` | the sizes computed in `lib/TransmitterController_impl.cc` |
| `TransmitterController` | `lib/TransmitterController_impl.cc` in an arbitrary environment |
| `FrameFormat` | both controllers' sizes side by side: does one read what the other writes? |
| `ReceiverLoop` | the feedback loop of `python/LoRaRx.py`, with `ReceiverController` as an instance |
| `ReceiverTail` | `randomize` and `CRC16` behind the controller in `python/LoRaRx.py` |
| `TransmitterPath` | `python/LoRaTx.py` from the source to the radio, with `TransmitterController` as an instance |
| `CodeSize` | the spreading factor that `Codec` and `CodeBlocks` share |
| `CodeBlocks` | `Interleave` and `deinterleave` as streaming blocks, with tags, messages and buffers |
| `Codec` | the bits of a code block: parity, interleaver, Gray code, bins, header checksum |
| `PowerDetector` | `lib/PowerDetector_impl.cc` in samples and power items |
| `Reconfiguration` | the setters of `LoRaRx`, `ChirpDetector` and `LoRaTx` |
| `MC...` | constants for the runs |
| `Basics` | lemmas on `%` and `\div`, on powers of two, on sequences, and on functions defined by recursion |
| `...Proofs` | theorems about the module they are named after; those about `FrameFormat` are in `ReceiverControllerProofs`, those about `Codec` and `CodeBlocks` in `CodecProofs`, those about `PowerDetector` and `Reconfiguration` in `DetectorAndSettersProofs` |

**ReceiverController.** The variables are the block's members of the same
name; `nibblesIn` counts the items of its input buffer, any number of
`Occupancies`, and `out` holds the
messages the last call published, port by port, for the loop to forward.
`StartRx` is the handler of `sync`, possible in every state. `DropNibble`,
`RejectHeader`, `AcceptHeader` and `SendPayload` are the branches of
`general_work`, each guarded by what `forecast()` asks for in that state and
each including `stopRx`, `setSFcurrent` and `setCR` where the code calls
them. What five nibbles spell is a parameter; whether they do is
`ReceiverLoop`'s business. `ExtraNibbles` keeps the previous frame's padding
where the code does not assign it. `CR` and `payloadCRCPresent`, which the
constructor leaves uninitialised, start with any value.

**ReceiverLoop.** One disjunction of actions for each thread. Samples are
abstracted to symbols `<<frame, k>>`, and a nibble remembers the frame, code
block and row it came from. `deinterleave` makes a code block's nibbles only
of that block's symbols, in order, with the right SF and CR, and garbage
otherwise. A detection window on a frame is one *segment* that the two gates
let through or blank as a whole. `avail` says how many symbols of a frame
the window held. The window closes by its own count (`Timeout`) at any time,
wherever its samples are by then, or by the controller's reset
(`DetectorReset`). A block handles all messages waiting for it before each
work call; which of two ports it serves first is left open. The variable
`scenario` fixes at the start how many frames come, which headers they have,
what unreadable nibbles spell, how many symbols fit a window, and how far
the receiver gets with a frame before the next is detected: not at all
(`"none"`), until its controller waits for the next (`"received"`), or until
no block has work left (`"quiet"`). The instance `RC` supplies the
controller's actions, and the property `RefinesController` says that the
loop is one of the environments the controller was proved for. The history
variables `hdrFrame` and `delivered` record whose header was accepted and
whose payloads were handed on. Three more record what the code does not
provide for: `cut`, that a frame was detected before the receiver was done
with the one before (`UnderWay`) or in a window too short for it; `overrun`,
that a sync met a whole header block of old nibbles; `misread`, that garbage
passed the header checksum. `Undisturbed` says that none of them has
happened (section 3).

**ReceiverTail.** A byte is `<<frame, i>>`, and randomize appends the place
in the whitening sequence it used; state 0 of the LFSR, which the block is
built with, is `Off`. Three things reach the two blocks by ways of their own:
the tag (put on the item that is written *next*, so that the tags of a frame
without bytes wait for the next frame's), the messages at header time, and
the received CRC just before the payload. The blocks look for tags at the
first item of a call only, and of several on one item take the first.
`Ends[f]` is the number of bytes the frames up to f have put on the stream.
`disturbed` is history: it names a block that handled a message of a later
frame while bytes of an earlier one were still in front of it, or read a tag
that was not its frame's.

**TransmitterController.** `SendHeader` and `SendPayload` are the two
branches of `general_work`, guarded by `forecast()`, which runs *before* the
tags are read and therefore knows only the frame before. `Arrive` lets the
input grow to any number of `Occupancies`. A size is any natural number:
the code checks that of a tag alone, while the header has two nibbles for it
(`HeaderOf`, the size modulo 256). `fault` records
that a call would leave defined behaviour (`underrun`, `wrap`); nothing is
modelled after that. `frame` is history: what has been written of the frame
being sent, whether its size came with it by tag, and whether a
`setPayloadSize` message came between its two calls. Negative sizes, and
sizes so large that doubling them overflows a `size_t`, are not modelled.

**TransmitterPath.** Byte i of frame f is `<<f, i>>`; whitening appends the
position of the LFSR, a CRC is the sequence of bytes it covers. A work call
of CRC16 or randomize takes any number of waiting items and reads the size
tag of the first only, as the code does; `CRCStates` and `RandomizeStates`
are the states its loop goes through, byte by byte. The modulation chain is a
FIFO of chunks that carry the end-of-frame tag. The variable `source` fixes
how the source behaves: it waits for each frame to be on the air (`spaced`),
sends PDUs of one size back to back (`uniform`), or of any sizes (`mixed`).
The frames here have a CRC and therefore always a payload block; that
Interleave's part of the chain really is a FIFO for such frames is what
`CodeBlocks` looks at.

**CodeBlocks.** Row r of block b of frame f is `<<f, b, r>>` and its symbol k
`<<f, b, k>>`. A slot of an output buffer is the *set* of what has been ored
into it since it was cleared, so that the buffer's old contents are visible.
`SymbolDue[p]` and `RowDue[p]` are the symbol and the row that are due after
p others, counted through blocks and frames. `InterleaveWork` makes as many
blocks as the scheduler asked for, stops at a `loraParams` tag inside the
call, and takes its parameters in the next (`changedParams`); it clears only
the first block, and writes whole blocks even where the free space ends
inside one (`overrun`, after which nothing is modelled). `Transfer` is the
rest of the chain, with the receiver's parameters set at the header and at
the payload, as `ReceiverLoop` shows. `fresh` is history: the blocks that
were the first of their call. `paced` frames come when the one before has
left the buffer.

**Codec.** A word is the set of the indexes of its 1 bits, so xor is
symmetric difference. One block at a time goes from nibbles to nibbles
through the actions `EncodeBlock`, `Transmit`, `Receive` and `DecodeBlock`;
`Strike` moves one symbol to any other bin. `CosetLeaders` is translated
with the fact that the code assigns only to keys its map already has: the
table stays empty, so `decode` strips parity bits and corrects nothing.

**PowerDetector.** Port 0 is samples, port 1 one power for each
`decimation` of them; powers arrive after their samples. `Work` takes any
`noutput_items` for which `forecast()` is satisfied. What a loop reads
behind its input is any value, so its exit there is a nondeterministic
choice, and `beyond` notes it; after a call that *consumes* what has not
arrived nothing is modelled. `passed`, `timeouts` and `armed` are history.

**Reconfiguration.** A floating-point value is the tuple of what it is
computed from, so that two values are equal just if they come from the same
inputs; integer sizes are computed, with Python's rounding of a half to the
even side. One operator per setter, which calls the setters the code calls,
in that order. An application with one value for a parameter sets it on
both hier blocks that have it. `told` is what running blocks got
through callbacks; `ControllerSetsSF` is receiverController, which sets the
demodulator's SF without knowing of any of this.

### Abstractions that matter

* Output space is unlimited but in `CodeBlocks`: no other block looks at
  `noutput_items` before it writes here. Where the code ignores it too, that
  is a listed hazard.
* In `ReceiverLoop` and `TransmitterPath` the codec and the waveforms are
  ideal: a block received with the right parameters gives the nibbles sent,
  which `Codec` checks. What garbage reads as is a constant.
* Signal quality does not exist but for `Strike` in `Codec` and the levels
  in `PowerDetector`: every frame whose segment is not blanked is found.
  Loss comes from control alone.
* A window that the controller's reset closes drops what it had not passed on
  yet: `DetectorReset` leaves any number of the symbols that have not been
  read. A window that times out has passed all of its symbols on, however
  far they have got: the detector counts samples
  (`PowerDetector_impl.cc:135`) and writes into a buffer that holds a whole
  window (`ChirpDetector.py:66`).
* How many symbols fit a window is a number of the scenario. `maxFrameTime`
  (`LoRaRx.py:62`) may be too short at low data rate, as it counts SF bits
  per symbol where the frame has SF - 2.
* A pause between frames and a paced source restrict the environment, not
  the program: the next frame comes when the modem is done with the one
  before. They are alternatives to frames that come at any time, and the
  properties that need them name them.

## 3. Runs

| Run | Bounds | Shows |
|---|---|---|
| `receiver_controller` | SF 9, low data rate, lengths 0..9, all CR, 34 nibbles | request and wait agree with the frame as sent |
| `receiver_padding` | same | *violation*: a short frame inherits padding |
| `receiver_loop` | SF 12; 2 frames detected at any time; 3 when the controller waits, some rejected, or some that fit the header block, with noise behind them and garbage that may pass the checksum; 3 that find the receiver quiet | while `Undisturbed`: whole frames in order, no symbol left over, windows hold their frames, the only way to starve, receptions end; spaced frames all arrive; refinement |
| `loop_timeout` | SF 9, low data rate, 2 frames of 18 symbols detected at any time, windows of 12 or 18 | *violation*: symbols before the start |
| `transmitter_controller` | 3 parameter sets (SF 9 and 11), sizes 0, 1, 2, 4, 300 by tag or construction, 0, 2, 5, 300 by message; 12 nibbles, or those of 300 bytes | frames that end are whole and announce their size modulo 256; the only causes of a fault |
| `transmitter_path` | SF 9, 3 PDUs of 1 or 2 bytes, spaced or of one size back to back | frame = PDU; CRC at most one behind; order on the air; lost starts accounted for; spaced frames reach the air |
| `path_whitening` | 3 PDUs of 1 or 3 bytes, mixed | *violation*: whitening not restarted |
| `codec` | SF 7; 16 headers; payload blocks of 5 and 7 rows, CR 0..4, 3 patterns; any symbol to any bin | blocks come back; what one wrong symbol costs; two wrong header bits are noticed |
| `code_blocks` | SF 7, buffers of 24 symbols and 16 nibbles, 3 frames of 0, 1 or 2 payload blocks, both data rates, paced or not | right cutting and parameters; where old bits get in; where Interleave starves; paced frames arrive |
| `receiver_tail` | 3 frames of 0..3 bytes, one perhaps without CRC or cut off, spaced or not | dewhitening and CRC are the frame's own; what can disturb them |
| `power_detector` | decimation 3, window 6, 21 samples | drift between the inputs; length of windows; one window per rise; reading behind the input |
| `reconfiguration` | 2 values of each parameter | variables are those of a new block; what running blocks keep |

Why the bounds are enough. In the control modules SF only enters through SF -
7 (room in the header block), SF - 2 and SF (rows of a code block); with SF 9
there is room for 2 nibbles, so frames that fit it, just do not fit it and
take one or two more blocks are all small. Lengths 0..9 make the padding
arithmetic meet every residue modulo 7; the proofs cover the rest. Three
frames let the leftovers of one meet the next and the one after; two code
blocks are the smallest payload in which a lost or extra symbol shifts a
block without ending the frame. Sizes 0, 1, 2 and 4 fall short of, fill and
exceed the header block of each parameter set; 300 does not fit the header's
8 bits, and is refused only if it comes by tag. `MaxNibbles` bounds only the
input that waits (`Occupancies` is 0 to `MaxNibbles`, and what a payload of
300 bytes needs, in the runs, and any set of numbers in the proofs), and the
controllers never need more than one frame. The loop runs at SF 12, where a
rejected header leaves five nibbles and two of them make a header block, so
that three frames are enough to reach the case of `overrun`; two frames
detected at any time are enough for a cut one and for a reset that reaches
the window of the next. The codec is
independent from row to row and from nibble to nibble but for the diagonal,
which the patterns of period 3 make visible, and SF 7 has both kinds of
block. The symbol buffer (24 slots, as GNU Radio's one slot is kept free)
holds two header blocks and comes round several times in three frames; the
nibble buffer takes two blocks in a call. The detector's two inputs part by
two samples for each timeout, and 21 samples are enough for the drift to
exceed a block. In `reconfiguration`, 1125 / 250 is half way between two
oversampling factors, decimation 3 divides no symbol, and SF 11 needs the low
data rate at one bandwidth and not at the other.

Deadlock is checked where the environment can always act
(`receiver_controller`, `receiver_padding`, `reconfiguration`). The other
models stop when the frames or samples are used up, or after the fault at
which the program's behaviour is no longer defined.

The action mutants next to some definitions (their comments begin with
"mutant") are plausible mistakes that make a property fail; they take no
part in the specifications.

### Fairness

`WF_vars` of each block's actions as a whole, in `ReceiverLoop`,
`TransmitterPath`, `CodeBlocks` and `ReceiverTail`: GNU Radio's scheduler
gives each block a thread that it wakes for messages and for input. No
fairness is assumed of a single message or branch. The properties that every
frame is delivered, transmitted, received or checked also rely on a source,
detector or controller that goes on. The other modules state safety only.

### What the violations say

1. `receiverController_impl.cc:202` - padding is not recomputed for a frame
   that fits the header block. After a long frame that needs padding, such a
   frame waits for nibbles that were never sent, until the next sync.
   `StarvationExplained` shows that this is the only way in which the loop
   starves as long as it is undisturbed; section 4 proves it.
2. `correlationSync_impl.cc:424` - `reset()` keeps
   `nOutputItemsToProduce`; when a frame is detected while the one before is
   still being received, symbols of the new one are produced before the
   controller has started. A window as long as its frame does not prevent
   it, as it may be over before the blocks behind it are.
3. `randomize_impl.cc:83` - a payload size that changes inside a work call
   is not seen.

### What the passing runs say besides

Some properties are as strong as the code allows and no stronger; the
exception they name is the news.

* `FrameIntegrity`, `BlocksAligned`, `StarvationExplained`, `WindowsKept` and
  `ReceptionEnds` of the loop hold as long as it is `Undisturbed`, and each of
  the three exceptions is needed: in the bounds of the run TLC violates all
  five without the first, `FrameIntegrity` without the second and
  `StarvationExplained` without the third.
  *Cut*: nothing makes the detector wait for the receiver. If it detects a
  frame while one is on the way through the blocks, `sync.reset` drops the
  synchroniser in mid-frame; its request, part of a code block and a
  controller that waits for the rest stay behind, and the controller's late
  reset may close the window on the next frame. Two frames are enough.
  *Overrun*: a rejected header leaves SF - 7 nibbles at the
  controller's input, which drops them one per call and only while it waits
  (`receiverController_impl.cc:157`). If the frames follow each other so
  closely that it does not get to it, the remains of several rejected headers
  add up to a header block (two at SF 12, three at SF 10 and 11, four at SF
  9, six at SF 8). The next `sync` then makes the controller read at once;
  what it reads may spell a valid header, the request for the new frame's 8
  symbols stays at the synchroniser unanswered, and the symbols behind it are
  cut into code blocks at the wrong place.
  *Misread*: garbage with a good checksum announces a payload nobody sent.
  Section 4 proves the properties up
  to the first of these events, so they are the *only* ways to mix frames.
* `EveryFrameDelivered` is the other side: frames that go on behind the header
  block, fit their windows and find the receiver quiet all arrive. They lead
  to none of the three, which section 4 proves (`PauseSuffices`).
* `WholeFrame` of the transmitter: a size that came by tag is announced as it
  is; one that came by message or construction may be above 255, and its
  frame of 300 bytes, say, is announced as one of 44
  (`TransmitterController_impl.cc:256`).
* At SF 7 the header block has no room for payload, so that `forecast()` of
  the transmitter asks for min(2 * payloadSize + CRC, 0) = 0 nibbles
  (`TransmitterController_impl.cc:100`). GNU Radio may then call
  `general_work` with an empty input: it writes the header of a frame before
  any nibble or tag of it is there, with the payload size of the frame before.
  With SF 7 and lengths 1 and 2 TLC violates `FrameIntegrity` of
  `TransmitterPath`; the run has SF 9, and the theorems about what is written
  say `HeaderRoom(P) > 0`.
* `CrcAtMostOneBehind`: the CRC in a frame is whatever message came last
  (`TransmitterController_impl.cc:214`); even with a pause between the PDUs
  it may be that of the frame before.
* `FaultExplained`: a payload that does not fill the header block makes the
  controller read behind its input or wrap a length around, and so does a tag
  that changes SF, as `forecast()` has looked at the frame before.
* `ErrorsSpread` and `HeaderErrorsDetected`: interleaver and Gray code keep
  what one wrong symbol costs within what a code with coset leaders could
  correct, but the table of coset leaders is empty
  (`getPairityMatrix.cc:49`) and nothing is corrected.
* `ResidueExplained`, `NibblesReceived`: a call that makes several blocks
  clears only the first, so a buffer that comes round adds old bits to the
  others - on either side.
* `CodeBlocks!StarvationExplained`: a frame that consists of a header block
  alone is left in front of Interleave, whose `forecast()` asks for the rows
  of the block before, until more input comes.
* `SpacedDisturbance`: a frame that is cut off or has no bytes leaves its
  `payloadSize` tag on the first byte of the next, where it is the one that
  counts.
* `InputsDrift`, `BeyondExplained`: each timeout leaves part of a block of
  samples over, by which samples and powers part for good; the waiting state
  loops over `decimation` times more powers than were asked for.
* `VariablesCurrent`: `LoRaRx.set_samp_rate` does not reach the
  `ChirpDetector`, which goes on with the chirp rate of the old one.
* `RunningBlocks`: setters replace windows and factors in blocks whose
  vector lengths are those of the construction.

## 4. Proofs

The theorems hold for every SF >= 7 (in `Codec` and `CodeBlocks`, where a
symbol is a uint16, for SF from 7 to 16), both data rates, every set of
headers or parameters, any number of frames, every decimation and window,
and every bound, unless a hypothesis is named. The hypotheses speak of
constants only, and each is met by the run of the module. `ChainConfigured`
of the receiver controller and `PauseSuffices` of the loop are proved, and in
no run: what
they are good for, whole frames and their arrival, is checked as
`FrameIntegrity` and `EveryFrameDelivered`.

* `ReceiverControllerProofs`. `TypeCorrect` is inductive by itself: the
  guards are those of `forecast()`, and `SizesType`, `HeaderType`, `ExtraType`
  and `SymbolsType` type the sizes. `ChainCorrect` and `RequestCorrect` add
  their own invariant to it. The heart of `RequestCorrect` is
  `RequestInBlocks`: the padding completes the nibbles behind the header
  block to a multiple of the rows (`MissingCompletes`), so the truncating
  division in the request loses nothing (`DivCancels`). `SymbolsAgree`: for the
  same header, the receiver asks for just the code blocks the transmitter
  writes. `ReadsWhatIsSentAlways`: whatever came before, a frame that
  continues behind the header block is read in full and no further; to
  `RequestCorrect`'s argument it adds that the two padding formulas agree
  (`SameTotal`).
* `ReceiverLoopProofs`. No theorem has a hypothesis: every SF, set of headers,
  number of frames, window and kind of pause is allowed. The refinement
  (`LoopRefinesController`) carries `ChainCorrect` and `RequestCorrect` over
  to the loop (`LoopChainConfigured`, `LoopRequestIsExact`). `FramesIntact`,
  `SymbolsNotLeftOver`, `WindowsOutlastFrames`, `StarvesOnlyByPadding`,
  `NeverStarves` and `NoEarlySymbols` follow from one invariant,
  `OneAtATime`: while `Undisturbed`, payloads are in order (`InOrder`), every
  window holds its frame (`Windows`), and the receiver is in one of six
  phases - `Idle`, `Announced`, `ReadsHeader`, `ReadsPayload`, `ReadsShort` (a
  frame that fits the header block) and `Starves` (one that waits for old
  padding) - each of which says what all queues, counts and messages hold.
  None of the properties is inductive: that no symbol is left over depends
  on the count in the synchroniser, that on the message in its queue, and
  that on what the controller read; that a window holds its frame depends on
  the detector having read the reset of one frame before it detects the
  next. Of a quiet receiver only `Idle` and `Starves` remain (`QuietOnly`), and
  where frames go on behind the header block only `Idle` (`LongNotStarved`).
  `SpacedUndisturbed` (`PauseSuffices`) shows that for spaced frames the
  exceptions never come up: by `Clean`, no nibble is left when a segment or a
  sync is on its way, so a sync meets none (`overrun`), a header block is read
  only as it was sent (`misread`), and a frame is detected only when nothing
  is under way (`cut`).
* `ReceiverTailProofs`. One function of the scenario carries the argument:
  byte i of frame f is item `Ends[f - 1] + i` of the stream, and the tag of
  frame f is on the item after `Ends[f - 1]`, be that a byte of frame f or of
  a later one. `TailInv` says of each block that, while it is undisturbed, its
  counter is the place of the next item in its frame, its size that of the
  frame, and that the messages still waiting are those of later frames.
  `TailTyped`, `BytesDewhitened`, `CrcCoversOneFrame` and `PauseExplained`
  have no hypothesis. `PauseSuffices` turns the exception of the last into a
  positive statement: if frames are spaced and each has bytes that arrive,
  nothing ever disturbs the tail.
* `TransmitterPathProofs`. `StartsCounted` has no hypothesis. Its invariant
  `StartInv` says that what waits between controller and radio continues the
  air without a gap (`AirContinues`, `WaitingInOrder`), and counts frames
  ended, absorbed, announced and under way (`Counted`).
  `PathRefinesController` assumes `Filled` (every payload fills the header
  block's room), without which the controller reads past its input;
  it makes the theorems about the controller those of the path.
  `PathTyped`, `FramesWritten` and `CrcLateByOne` assume besides that the
  source is `Regular` (spaced, or of one size: with mixed sizes
  `path_whitening` shows the property fail) and that the header block has
  room (`HeaderRoom(P) > 0`, i.e. SF above 7; at SF 7 it fails, section 3).
  Their invariant `WholeInv` is an argument on places: `Starts[f]` is where
  frame f + 1 begins in the stream of bytes, and every queue between the
  source and the controller holds a consecutive piece of that stream
  (`Placed`, `NibblesPlaced`), so that byte counter, LFSR and tag of a block
  are functions of how much it has consumed (`CrcCounter`, `RndCounter`) and
  the pieces add up (`Written`). `CrcInTime` says where the CRC of the last
  PDU is: not finished, in the queue, or taken.
* `TransmitterControllerProofs`. `TypeCorrect` includes that the sizes and
  the header computed in advance always match the parameters.
  `FaultsExplained` is an action property from the type invariant: a step
  that makes `fault` appear is one of the named ones. `NeverFaults`
  assumes `SafeSizes` (every payload fills the header block, no tag changes
  SF); its strengthening `RoomFilled` says that the current size does so too,
  which makes `forecast()` right for the next frame although it looks at the
  one before. `FramesAreWhole` holds for sizes of any value without
  assumption, because the property itself speaks of sizes modulo 256 unless
  they came by tag, and excepts a frame during which a `setPayloadSize`
  message came (none is connected in `LoRaTx`); that two nibbles of header
  are the size modulo 256 is `Announced`. Its strengthening `InFrame` says that between
  the two calls of a frame the history is a header block of the current
  parameters.
* `CodecProofs`, `Codec`. `DeinterleaveInverts`: for any number of rows and
  any code length the receiver's permutation undoes the transmitter's; the
  argument is that a row and a column meet in exactly one place of the
  diagonal (`DiagonalMeets`). `GrayInverts`: the parity of everything from a
  bit up differs from that of everything from the next bit up just by the bit
  (`ParityFlips`, `ParityFrom`), for symbols of up to 16 bits. `BlocksTyped`,
  `BlocksReturn`, `OneSymbolSpreads` and `StruckHeaderRefused` are about the
  whole chain, for every header (length 0..255, CR 0..7), every payload block
  and every struck symbol (`CasesAssumption`). Their invariant `BlockInv`
  says at each stage what the block is: the nibbles, `SentWords`, `OnAir`
  (the symbols sent, but for the one struck), `Arrived`, `Decoded`. It rests
  on the two theorems above, on `DemodInverts` (the receiver's rounding of a
  bin undoes the transmitter's choice of it), on `NoLeaders` (the table of
  coset leaders stays empty, so `DecodeLaw`: decode strips parity and no
  more), and on `GrayNeighbours` (the codes of neighbouring numbers differ in
  one bit, which `NextBin` makes a fact about bins: none with SF - 2 rows).
  `RowErrors` and `ColumnErrors` spread the bits of one symbol over different
  rows, `SumOfErrors` counts them, and `MasksDiffer` and `ChecksumCatches`
  show that the header checksum notices one and two of them.
* `CodecProofs`, `CodeBlocks`. `StreamTyped`, `StreamResidueExplained`,
  `StreamNibblesReceived` and `StreamStarvationExplained` hold for every
  sequence of frames (CR 0..4, any number of payload blocks,
  `ScenariosAssumption`) and every size of the two buffers. None of the last
  three is inductive. Their common invariant `StreamInv` is an argument on
  places: the rows in front of Interleave go on where the symbols it has made
  end (`RowsInPlace`: `RowDue[q] = SymbolDue[made]` for some q, at the start
  of a block); Interleave has the parameters of the next block unless that
  block's tag is still unread, and with low data rate the larger SF of the
  constructor before the first block only (`TxKnows`); every unread slot holds
  its symbol, alone if its block was the first of a call or the ring has not
  come round (`BufferExplained`, `FreshMade`); what waits in front of
  deinterleave is of one header or payload, whose parameters it has, and goes
  on where its nibbles end (`AirInPlace`, `NibblesExplained`). `BlocksRun` and
  `UntaggedAlike` show that the untagged blocks of a call are of one size and
  follow each other, `StopsThere` where a call stops, `RingSlot`, `SlotPlace`
  and `UnreadSlot` which place of the stream a slot of the ring stands for,
  `FillMade` and `BitsAre` what a call of either side writes there.
* `DetectorAndSettersProofs`, `PowerDetector`. `TypeCorrect` is inductive:
  what a call consumes behind its input is recorded, and `samplesToRead` does
  not pass 0. `DriftsByTimeouts`, `WindowsAreMeasured` and
  `RisesGiveOneWindow` add one invariant each; `SameRemainder` carries the
  remainder of the window through a timeout. `BeyondOnlyWaiting`, an action
  property, needs `PowersArrived` (there is no power without its samples) and
  `InputsDrift`: a loop that leaves detection or started stays within what
  `forecast()` made sure of, and the waiting loop stays within the samples
  unless they have run ahead by more than a block.
* `DetectorAndSettersProofs`, `Reconfiguration`. `SettingsCurrent` and
  `SettingsRunning` come from one invariant, `SettingsInv`: the receiver's
  parameters are legal, each variable is current (`Current`), `tx` is what
  its constructor would make of the same parameters, and a demodulator whose
  SF is larger than at construction has that of now. The proof goes along the
  setters' calls: a state is `Fresh` but for a set of stale variables, a
  setter that assigns a parameter makes stale what depends on it (`StaleBW`
  and its like), and each recomputation the code calls takes variables out of
  the set; at the end of each setter it is empty, so none of the calls is
  missing and none comes too early. `SettingsRunning` assumes `ChipsKept`: a
  symbol is not decimated below a sample per chip (`decimation <= 2^SF`), SF
  at most 16. Beyond that different oversampling factors may truncate to the
  same symbol size, 0 among them, and what was built no longer tells them
  apart; below it `DivInjective` shows that they cannot.

What a loop does with any number of bytes (`CRCStates`, `RandomizeStates`) and
the sums `Ends` and `Starts` are recursive functions, not RECURSIVE operators.
`Basics` derives from the well-foundedness of the numbers that such a function
exists (`RecursionExists`) and that a set of numbers with 0 and all successors
is all of them (`InductTo`); the lemmas about them are inductions in that form.

The assumptions on constants are named in the module that declares them.

Only model-checked:

* liveness (`ReceptionEnds`, `EveryFrameDelivered`, `EveryFrameTransmitted`,
  `EveryFrameReceived`, `EveryFrameChecked`), which is out of the prover's
  reach;
* what holds for a source of mixed sizes in `TransmitterPath`.

## 5. Not modelled, and why

* *Documentation tooling* (`docs/doxygen`): the XML parser and docstring
  extractor that every GNU Radio module template brings along, most of it
  generated by generateDS.py. It is nine tenths of the repository's Python
  and no part of the modem; the modem itself is in C++ and in three Python
  hier blocks.
* *Signal processing*: waveforms, correlation, offset estimation, the
  formulas in front of `symbolDemodNew` and `PowerDetector`. Floating point
  without a protocol; the models start where its results become decisions.
* *Research blocks and superseded blocks*: no hier block instantiates them.
* *PDU header blocks and statistics*: message handlers around the modem; one
  example (`examples/main_txrx.grc`) feeds a receiver through them into a
  transmitter.
* *Setters that only store an attribute* in `LoRaTx` (CR, CRCPresent,
  lowDataRate, payloadSize) and `LoRaRx.set_nUpchirps`, to which no parameter
  of the block leads.
* *Output space* of the two controllers and AppendPrefix: it depends on the
  buffer sizes GNU Radio chooses. Listed as hazards.
* *Insertion of the prefix* and the samples of a symbol: `TransmitterPath`
  treats them as part of a chunk. Two lines of
  `AppendPrefix_impl::calculatePrefix` (162 and 165) insert `syncWord1`, and
  none inserts `syncWord2`; what that means on the air is a question of
  waveforms.
* *Output tags of PowerDetector*: nothing behind it in `LoRaRx` reads them.
* *Bindings, GRC descriptions, build files, examples*: generated or
  declarative.

## 6. Plan

Done: the controllers, the receiver loop and tail, the transmitter path, the
frame format, the codec and the stream of code blocks, the detector, the
setters, and the proofs of section 4. Left, in this order:

1. `Modulation`: `loraParams` and `loraEndOfFrame` through SymbolMod and
   AppendPrefix, with output space.
2. `HeaderBlocks`: PDU header generator and reader in front of a
   transmitter.
