--------------------------- MODULE TransmitterPath ---------------------------
(***************************************************************************)
(* The transmitter hier block python/LoRaTx.py.  A source of PDUs feeds    *)
(* two threads with the same bytes:                                        *)
(*                                                                         *)
(*   source -> CRC16 ......... setCRC ......v                              *)
(*   source -> randomize/BytesToNibbles -> TransmitterController           *)
(*      -> Encode ... FrequencyMod -> AppendSilence -> radio               *)
(*                 (and transmissionStart ....^)                           *)
(*                                                                         *)
(* A work call processes any number of the items that wait.  CRC16 and     *)
(* randomize read the payloadSize tag of the first item of a call only.    *)
(*                                                                         *)
(* Byte i of frame f is <<f, i>>; whitened with the k-th state of the LFSR *)
(* after a reset it is <<f, i, k>>, and its nibbles come in two copies.  A *)
(* CRC is the sequence of bytes it was computed over.  The modulation      *)
(* chain behind the controller passes on, per call of it, one chunk        *)
(* [frame, last], `last' being its loraEndOfFrame tag.                     *)
(***************************************************************************)
EXTENDS Naturals, FiniteSets, Sequences, SequencesExt, TransmitterSizes

CONSTANTS P,        \* frame parameters
          Lengths,  \* payload sizes of the frames
          NFrames,  \* PDUs the source sends, then nothing
          Sources   \* how the source may behave

(* A "spaced" source waits until a frame is on the air before it sends the *)
(* next PDU.  The others send them back to back: PDUs of one size, or of   *)
(* several.                                                                *)
ASSUME PathAssumption ==
  /\ P \in Parameters /\ Lengths \subseteq 1..255 /\ NFrames \in Nat
  /\ Sources \subseteq {"spaced", "uniform", "mixed"}

Frames == 1..NFrames

VARIABLES
  source,                              \* which kind of source it is
  len,                                 \* payload size of each frame
  nextFrame,                           \* next PDU of the source
  crcIn, crcSize, crcCount, crcBytes,  \* CRC16: input, payloadSize, byteCount, crc
  rndIn, rndSize, rndCount, lfsr,      \* randomize, likewise; LFSR steps made
  crcMsgs,                             \* setCRC messages waiting
  params, payloadSize, crc, nNibbles, nNibblesTotal, currentState,
  headerNibbles, fault, frame,         \* TransmitterController
  nibbles,                             \* its input
  body,                                \* nibbles of the frame it is writing
  frames,                              \* history: frames it has written
  chain,                               \* chunks inside the modulation chain
  startMsgs, transmittingFrame, samples, \* AppendSilence: messages, flag, input
  air,                                 \* history: chunks and silences sent
  absorbed                             \* history: starts handled while transmitting

given == <<source, len>>
crcVars == <<crcIn, crcSize, crcCount, crcBytes>>
rndVars == <<rndIn, rndSize, rndCount, lfsr>>
tcVars == <<params, payloadSize, crc, nNibbles, nNibblesTotal, currentState,
            headerNibbles, fault, frame>>
silenceVars == <<startMsgs, transmittingFrame, samples, air, absorbed>>
vars == <<given, nextFrame, crcVars, rndVars, crcMsgs, tcVars, nibbles, body, frames,
          chain, silenceVars>>

TC == INSTANCE TransmitterController
        WITH Params <- {P}, Sizes <- Lengths, MessageSizes <- {},
             Crcs <- Seq(Frames \X Nat), Occupancies <- Nat, nibblesIn <- Len(nibbles)

BytesOf(f) == [i \in 1..len[f] |-> <<f, i>>]
NibblesOf(f) == [j \in 1..(2 * len[f]) |-> <<f, (j + 1) \div 2, (j + 1) \div 2>>]

(* The payloadSize tag sits on the first item of a frame.                  *)
TaggedSize(item, size) == IF item[2] = 1 THEN len[item[1]] ELSE size

Init ==
  /\ source \in Sources
  /\ len \in [Frames -> Lengths]
  /\ source = "uniform" => \A f, g \in Frames : len[f] = len[g]
  /\ nextFrame = 1
  /\ crcIn = <<>> /\ crcSize \in Lengths /\ crcCount = 0 /\ crcBytes = <<>>
  /\ rndIn = <<>> /\ rndSize = crcSize /\ rndCount = 0 /\ lfsr = 1
  /\ crcMsgs = <<>>
  /\ params = P /\ payloadSize = crcSize /\ crc = <<>>
  /\ nNibbles = NNibbles(P, payloadSize) /\ nNibblesTotal = NNibblesTotal(P, payloadSize)
  /\ currentState = "sendingHeader" /\ headerNibbles = TC!HeaderOf(P, payloadSize)
  /\ fault = "none"
  /\ frame = [p |-> P, len |-> 0, payload |-> 0, written |-> 0, crcs |-> <<>>, done |-> FALSE,
               tagged |-> FALSE, resized |-> FALSE]
  /\ nibbles = <<>> /\ body = <<>> /\ frames = <<>>
  /\ chain = <<>>
  /\ startMsgs = 0 /\ transmittingFrame = FALSE /\ samples = <<>>
  /\ air = <<>> /\ absorbed = 0
-----------------------------------------------------------------------------
(* The source: a whole PDU at a time, to both readers of its buffer.       *)
Idle ==
  /\ crcIn = <<>> /\ rndIn = <<>> /\ crcMsgs = <<>> /\ nibbles = <<>>
  /\ currentState = "sendingHeader"
  /\ chain = <<>> /\ samples = <<>> /\ startMsgs = 0 /\ ~transmittingFrame

SendPDU ==
  /\ nextFrame \in Frames
  /\ source = "spaced" => Idle
  /\ nextFrame' = nextFrame + 1
  /\ crcIn' = crcIn \o BytesOf(nextFrame)
  /\ rndIn' = rndIn \o BytesOf(nextFrame)
  /\ UNCHANGED <<given, crcSize, crcCount, crcBytes, rndSize, rndCount, lfsr, crcMsgs,
                 tcVars, nibbles, body, frames, chain, silenceVars>>
-----------------------------------------------------------------------------
(* CRC16.  One byte of the loop of general_work: the CRC is published and  *)
(* restarted when byteCount reaches payloadSize.                           *)
CRCByteKeepingCount(size, s, byte) ==   \* mutant: byteCount is not reset
  IF s.count + 1 = size
  THEN [count |-> s.count + 1, bytes |-> <<>>, msgs |-> Append(s.msgs, Append(s.bytes, byte))]
  ELSE [count |-> s.count + 1, bytes |-> Append(s.bytes, byte), msgs |-> s.msgs]

CRCByte(size, s, byte) ==
  IF s.count + 1 = size
  THEN [count |-> 0, bytes |-> <<>>, msgs |-> Append(s.msgs, Append(s.bytes, byte))]
  ELSE [count |-> s.count + 1, bytes |-> Append(s.bytes, byte), msgs |-> s.msgs]

(* The state after each of the n bytes of a call.                          *)
CRCStates(size, start, n) ==
  LET state[i \in 0..n] == IF i = 0 THEN start ELSE CRCByte(size, state[i - 1], crcIn[i])
  IN  state

CRC16Work(n) ==
  LET size == TaggedSize(Head(crcIn), crcSize)
      done == CRCStates(size, [count |-> crcCount, bytes |-> crcBytes, msgs |-> <<>>], n)[n]
  IN  /\ n \in 1..Len(crcIn)
      /\ crcIn' = SubSeq(crcIn, n + 1, Len(crcIn))
      /\ crcSize' = size
      /\ crcCount' = done.count /\ crcBytes' = done.bytes
      /\ crcMsgs' = crcMsgs \o done.msgs
      /\ UNCHANGED <<given, nextFrame, rndVars, tcVars, nibbles, body, frames, chain,
                     silenceVars>>
-----------------------------------------------------------------------------
(* randomize, with BytesToNibbles behind it.  One byte of its loop: the    *)
(* LFSR is reset when byteCount reaches payloadSize.                       *)
RandomizeByteNoReset(size, s, byte) ==   \* mutant: only byteCount is reset
  LET whitened == Append(byte, s.lfsr)
  IN  [count |-> IF s.count + 1 = size THEN 0 ELSE s.count + 1,
       lfsr  |-> s.lfsr + 1,
       out   |-> s.out \o <<whitened, whitened>>]

RandomizeByte(size, s, byte) ==
  LET whitened == Append(byte, s.lfsr)
      ends     == s.count + 1 = size
  IN  [count |-> IF ends THEN 0 ELSE s.count + 1,
       lfsr  |-> IF ends THEN 1 ELSE s.lfsr + 1,
       out   |-> s.out \o <<whitened, whitened>>]

RandomizeStates(size, start, n) ==
  LET state[i \in 0..n] == IF i = 0 THEN start ELSE RandomizeByte(size, state[i - 1], rndIn[i])
  IN  state

RandomizeWork(n) ==
  LET size == TaggedSize(Head(rndIn), rndSize)
      done == RandomizeStates(size, [count |-> rndCount, lfsr |-> lfsr, out |-> <<>>], n)[n]
  IN  /\ n \in 1..Len(rndIn)
      /\ rndIn' = SubSeq(rndIn, n + 1, Len(rndIn))
      /\ rndSize' = size
      /\ rndCount' = done.count /\ lfsr' = done.lfsr
      /\ nibbles' = nibbles \o done.out
      /\ UNCHANGED <<given, nextFrame, crcVars, crcMsgs, tcVars, body, frames, chain,
                     silenceVars>>
-----------------------------------------------------------------------------
(* TransmitterController.                                                  *)
HandleCrc ==
  /\ crcMsgs # <<>>
  /\ crcMsgs' = Tail(crcMsgs)
  /\ UNCHANGED nibbles
  /\ TC!SetCrc(Head(crcMsgs))
  /\ UNCHANGED <<given, nextFrame, crcVars, rndVars, body, frames, chain, silenceVars>>

(* The tag of the first nibble, when that is the first of a frame.         *)
SizeTag ==
  IF nibbles # <<>> /\ Head(nibbles)[2] = 1 THEN <<len[Head(nibbles)[1]]>> ELSE <<>>

(* The call's chunk enters the chain; after the last one of a frame the    *)
(* frame, as written, goes into the history.                               *)
Write(k) ==
  LET whole == body \o SubSeq(nibbles, 1, k)
  IN  /\ chain' = Append(chain, [frame |-> Len(frames) + 1, last |-> frame'.done])
      /\ body' = IF frame'.done THEN <<>> ELSE whole
      /\ frames' = IF frame'.done
                   THEN Append(frames, [len |-> frame'.len, body |-> whole, crcs |-> frame'.crcs])
                   ELSE frames

SendHeader ==
  /\ crcMsgs = <<>>
  /\ \E k \in 0..Len(nibbles) :
       /\ nibbles' = SubSeq(nibbles, k + 1, Len(nibbles))
       /\ TC!SendHeader(SizeTag, <<>>)
       /\ Write(k)
  /\ startMsgs' = startMsgs + 1
  /\ UNCHANGED <<given, nextFrame, crcVars, rndVars, crcMsgs, transmittingFrame, samples,
                 air, absorbed>>

SendPayload ==
  /\ crcMsgs = <<>>
  /\ \E k \in 0..Len(nibbles) :
       /\ nibbles' = SubSeq(nibbles, k + 1, Len(nibbles))
       /\ TC!SendPayload
       /\ Write(k)
  /\ UNCHANGED <<given, nextFrame, crcVars, rndVars, crcMsgs, silenceVars>>

(* Encode, Interleave, GrayDecode, SymbolMod, AppendPrefix, FrequencyMod.  *)
Modulate ==
  /\ chain # <<>>
  /\ chain' = Tail(chain)
  /\ samples' = Append(samples, Head(chain))
  /\ UNCHANGED <<given, nextFrame, crcVars, rndVars, crcMsgs, tcVars, nibbles, body, frames,
                 startMsgs, transmittingFrame, air, absorbed>>
-----------------------------------------------------------------------------
(* AppendSilence.                                                          *)
Silence == [frame |-> 0, last |-> FALSE]

HandleStart ==
  /\ startMsgs > 0
  /\ startMsgs' = startMsgs - 1
  /\ transmittingFrame' = TRUE
  /\ absorbed' = IF transmittingFrame THEN absorbed + 1 ELSE absorbed
  /\ UNCHANGED <<given, nextFrame, crcVars, rndVars, crcMsgs, tcVars, nibbles, body, frames,
                 chain, samples, air>>

PassChunkOnce ==   \* mutant: one chunk for each start message
  /\ startMsgs = 0
  /\ transmittingFrame /\ samples # <<>>
  /\ samples' = Tail(samples)
  /\ air' = Append(air, Head(samples))
  /\ transmittingFrame' = FALSE
  /\ UNCHANGED <<given, nextFrame, crcVars, rndVars, crcMsgs, tcVars, nibbles, body, frames,
                 chain, startMsgs, absorbed>>

PassChunkAlways ==   \* mutant: samples are passed on without a start message
  /\ startMsgs = 0
  /\ samples # <<>>
  /\ samples' = Tail(samples)
  /\ air' = Append(air, Head(samples))
  /\ transmittingFrame' = FALSE
  /\ UNCHANGED <<given, nextFrame, crcVars, rndVars, crcMsgs, tcVars, nibbles, body, frames,
                 chain, startMsgs, absorbed>>

(* Samples of the frame, up to and including the one tagged as its last.   *)
PassChunk ==
  /\ startMsgs = 0
  /\ transmittingFrame /\ samples # <<>>
  /\ samples' = Tail(samples)
  /\ air' = Append(air, Head(samples))
  /\ transmittingFrame' = ~Head(samples).last
  /\ UNCHANGED <<given, nextFrame, crcVars, rndVars, crcMsgs, tcVars, nibbles, body, frames,
                 chain, startMsgs, absorbed>>

(* Silence while no frame is transmitted; one stretch counts once.         *)
PassSilence ==
  /\ startMsgs = 0
  /\ ~transmittingFrame
  /\ IF air = <<>> THEN TRUE ELSE Last(air) # Silence
  /\ air' = Append(air, Silence)
  /\ UNCHANGED <<given, nextFrame, crcVars, rndVars, crcMsgs, tcVars, nibbles, body, frames,
                 chain, startMsgs, transmittingFrame, samples, absorbed>>
-----------------------------------------------------------------------------
CRC16 == \E n \in 1..Len(crcIn) : CRC16Work(n)
Randomize == \E n \in 1..Len(rndIn) : RandomizeWork(n)
Controller == HandleCrc \/ SendHeader \/ SendPayload
AppendSilence == HandleStart \/ PassChunk \/ PassSilence

Next == SendPDU \/ CRC16 \/ Randomize \/ Controller \/ Modulate \/ AppendSilence

Spec == Init /\ [][Next]_vars

(* A thread per block; the source goes on sending.                         *)
FairSpec ==
  /\ Spec
  /\ WF_vars(SendPDU) /\ WF_vars(CRC16) /\ WF_vars(Randomize)
  /\ WF_vars(Controller) /\ WF_vars(Modulate) /\ WF_vars(AppendSilence)
-----------------------------------------------------------------------------
(* Types of the queues; the controller's variables are those of            *)
(* TransmitterController, whose calls never fault here.                    *)
TypeOK ==
  /\ nextFrame \in 1..(NFrames + 1)
  /\ {crcSize, rndSize, payloadSize} \subseteq Lengths
  /\ crcCount \in 0..(crcSize - 1) /\ crcCount = Len(crcBytes)
  /\ lfsr = rndCount + 1
  /\ fault = "none"
  /\ \A q \in {chain, samples} : \A i \in DOMAIN q :
       q[i] \in [frame : Frames, last : BOOLEAN]
  /\ startMsgs \in 0..NFrames /\ transmittingFrame \in BOOLEAN /\ absorbed \in 0..NFrames

(* The j-th frame written is the j-th PDU: the header announces its        *)
(* length, the body is its nibbles, each byte whitened with the LFSR state *)
(* of its place in the frame.                                              *)
FrameIntegrity ==
  \A j \in DOMAIN frames : frames[j].len = len[j] /\ frames[j].body = NibblesOf(j)

(* "reset state at the end of each frame" (randomize): the first byte of a *)
(* frame is whitened with the initial state.                               *)
ResetAtEndOfFrame ==
  \A i \in DOMAIN nibbles : nibbles[i][2] = 1 => nibbles[i][3] = 1

(* The CRC comes by message and may be late: it is the frame's own or, at  *)
(* worst, the one that was valid before, never that of a later frame or of *)
(* a part of one (frames spaced).                                          *)
CrcAtMostOneBehind ==
  \A j \in DOMAIN frames :
    source = "spaced" /\ frames[j].crcs # <<>> =>
      frames[j].crcs[1] \in {BytesOf(j), IF j = 1 THEN <<>> ELSE BytesOf(j - 1)}

(* On the air, frames are in order and whole, and never interrupted by     *)
(* silence.                                                                *)
FrameAfter(c) == c.frame + (IF c.last THEN 1 ELSE 0)

AirInOrder ==
  \A i, j \in DOMAIN air :
    i < j /\ air[i] # Silence /\ (\A m \in (i + 1)..(j - 1) : air[m] = Silence) =>
      IF air[j] = Silence THEN air[i].last ELSE air[j].frame = FrameAfter(air[i])

(* Frames are in order on the air, and every frame whose header was        *)
(* written is there, or its start is still to be obeyed, or the start was  *)
(* lost because it came while an earlier frame was being transmitted: only *)
(* then do samples get stuck (AppendSilence).                              *)
Started == Len(frames) + (IF currentState = "sendingPayload" THEN 1 ELSE 0)
Ended == Cardinality({i \in DOMAIN air : air[i].last})

StartsAccounted ==
  /\ AirInOrder
  /\ Ended + absorbed + startMsgs + (IF transmittingFrame THEN 1 ELSE 0) = Started

(* Every PDU is eventually transmitted to its end (frames spaced).         *)
EveryFrameTransmitted ==
  \A f \in Frames :
    source = "spaced" /\ nextFrame > f ~> \E i \in DOMAIN air : air[i].frame = f /\ air[i].last
=============================================================================
