---------------------------- MODULE ReceiverLoop ----------------------------
(***************************************************************************)
(* The control loop of the receiver hier block python/LoRaRx.py:           *)
(*                                                                         *)
(*  PowerDetector -> FFTMax -> Correlation -> correlationSync              *)
(*     -> deinterleave/decode -> receiverController                        *)
(*                                                                         *)
(* One thread per block, as GNU Radio's scheduler runs them.  A block      *)
(* handles every message queued for it before each work call, so a work    *)
(* action is guarded by empty message queues; otherwise messages and       *)
(* items take as long as they like.  The order in which one block handles  *)
(* messages waiting on two of its ports is not specified.                  *)
(*                                                                         *)
(* Samples are abstracted to symbols: <<f, k>> is the k-th symbol after    *)
(* the preamble of frame f, Noise a symbol of samples after the frame.     *)
(* A nibble is <<f, b, i>>, the i-th of the b-th code block of frame f     *)
(* (block 0 is the header block), or Garbage: the output of deinterleaving *)
(* symbols that are not one block of one frame with the right SF and CR.   *)
(***************************************************************************)
EXTENDS Naturals, Sequences, SequencesExt

CONSTANTS SF, LowDataRate,
          NFrames,       \* frames on the air, then silence
          Scenarios      \* what the air may be like

(* A scenario: how many frames come, how far the receiver gets with one    *)
(* before the next is detected, how many symbols behind a preamble fit the *)
(* detection window, which headers the frames have, and what readHeader()  *)
(* may make of garbage.                                                    *)
ASSUME FramesAssumption ==
  /\ NFrames \in Nat \ {0}
  /\ \A s \in Scenarios :
       /\ DOMAIN s = {"frames", "pause", "window", "headers", "unreadable"}
       /\ s.frames \in 1..NFrames /\ s.window \in Nat
       /\ s.pause \in {"none", "received", "quiet"}

Headers == UNION {s.headers \cup s.unreadable : s \in Scenarios}

Frames == 1..NFrames

VARIABLES
  scenario,     \* one of Scenarios
  hdr,          \* the header each frame is received with
  nextFrame,    \* next frame to reach the detector
  (* PowerDetector *)
  state,        \* detection, started or waiting
  avail,        \* per frame: symbols inside its detection window
  (* FFTMax, Correlation: the "enabled" flags *)
  fftEnabled, corrEnabled,
  (* segments (one detection window each) waiting at three blocks *)
  fftIn, corrIn, syncIn,
  (* correlationSync *)
  syncd, preambleConsumed, nOutputItemsToProduce,
  curFrame,     \* frame whose samples it reads, 0 when none
  pos,          \* symbols of it already produced
  (* deinterleave with the 1:1 blocks around it *)
  dSF, codeLength, symbols,
  (* receiverController *)
  currentState, SFcurrent, CR, payloadCRCPresent, payloadNibblesToRead,
  extraNibblesToConsume, requested, out, nibbles,
  (* message queues, by receiving port *)
  pending,      \* ports whose (idempotent, argument-less) message waits
  syncMsgs,     \* "sync" messages waiting at the controller
  setNq, setSFq, setCRq,
  (* history *)
  hdrFrame,     \* frame whose header was accepted last, 0 if garbage
  delivered,    \* per payload delivered: its frame, or 0 if it is mixed
  overrun,      \* has a sync met a header block's worth of old nibbles?
  misread,      \* has garbage passed the header checksum?
  cut           \* has a frame lost its end, or not been left the time for it?

given == <<scenario, hdr>>
detVars == <<nextFrame, state, avail>>
gateVars == <<fftEnabled, corrEnabled, fftIn, corrIn>>
csVars == <<syncd, preambleConsumed, nOutputItemsToProduce, curFrame, pos>>
deintVars == <<dSF, codeLength>>
ctlVars == <<currentState, SFcurrent, CR, payloadCRCPresent,
             payloadNibblesToRead, extraNibblesToConsume, requested, out>>
msgVars == <<pending, syncMsgs, setNq, setSFq, setCRq>>
histVars == <<hdrFrame, delivered, overrun, misread, cut>>
vars == <<given, detVars, gateVars, syncIn, csVars, deintVars, symbols,
          ctlVars, nibbles, msgVars, histVars>>

RC == INSTANCE ReceiverController
        WITH nibblesIn <- Len(nibbles), Occupancies <- Nat

(* The receiver's SF and data rate, and headers as readHeader() sees them. *)
ASSUME SizesAssumption == SF \in Nat /\ SF >= 7 /\ LowDataRate \in BOOLEAN
ASSUME HeadersAssumption == Headers \subseteq RC!HeaderRecord

Ports == {"detector.reset", "fft.enable", "fft.reset",
          "corr.enable", "corr.reset", "sync.reset"}

(* Nothing is queued on these ports: the block may call its work function. *)
Drained(ports) == pending \cap ports = {}
-----------------------------------------------------------------------------
(* What a transmitter that follows the protocol puts on the air.           *)

HeaderRows == SF - 2
PayloadRows == IF LowDataRate THEN SF - 2 ELSE SF

(* The header block has room for SF - 7 nibbles besides the header.        *)
BlocksOf(h) ==
  LET n == 2 * h.len + (IF h.crc THEN 4 ELSE 0)
  IN  IF ~RC!Accepted(h) \/ n <= SF - 7 THEN 0
      ELSE (n - (SF - 7) + PayloadRows - 1) \div PayloadRows

SymbolsOf(f) == 8 + BlocksOf(hdr[f]) * (hdr[f].CR + 4)

Noise == <<0, 0>>
Garbage == <<0, 0, 0>>

(* The symbols of block b of frame f, and the nibbles the chain must make  *)
(* of them.                                                                *)
BlockSymbols(f, b) ==
  IF b = 0 THEN [k \in 1..8 |-> <<f, k>>]
  ELSE LET cl == hdr[f].CR + 4
       IN  [k \in 1..cl |-> <<f, 8 + (b - 1) * cl + k>>]

BlockRows(b) == IF b = 0 THEN HeaderRows ELSE PayloadRows

BlockNibbles(f, b) == [i \in 1..BlockRows(b) |-> <<f, b, i>>]

(* Everything of frame f that follows the five header nibbles: the rest of *)
(* the header block, then the rows of one block after the other.           *)
BodyNibble(f, i) ==
  LET j == i - (SF - 7) - 1
  IN  IF i <= SF - 7 THEN <<f, 0, 5 + i>>
      ELSE <<f, 1 + (j \div PayloadRows), 1 + (j % PayloadRows)>>

BodyNibbles(f) ==
  [i \in 1..((SF - 7) + BlocksOf(hdr[f]) * PayloadRows) |-> BodyNibble(f, i)]
-----------------------------------------------------------------------------
Init ==
  /\ scenario \in Scenarios
  /\ hdr \in [Frames -> scenario.headers]
  /\ nextFrame = 1
  /\ state = "detection"
  /\ avail = [f \in Frames |-> 0]
  /\ fftEnabled = TRUE /\ corrEnabled = TRUE
  /\ fftIn = <<>> /\ corrIn = <<>> /\ syncIn = <<>>
  /\ syncd = FALSE /\ preambleConsumed = FALSE /\ nOutputItemsToProduce = 0
  /\ curFrame = 0 /\ pos = 0
  /\ dSF = 7 /\ codeLength = 8        \* LibreLoRa.deinterleave(7, 4)
  /\ symbols = <<>> /\ nibbles = <<>>
  /\ currentState = "waitingForSync" /\ SFcurrent = SF
  /\ CR = 4 /\ payloadCRCPresent = FALSE   \* read only after being set
  /\ payloadNibblesToRead = 0 /\ extraNibblesToConsume = 0
  /\ requested = 0 /\ out = RC!NoMessages
  /\ pending = {} /\ syncMsgs = 0
  /\ setNq = <<>> /\ setSFq = <<>> /\ setCRq = <<>>
  /\ hdrFrame = 0 /\ delivered = <<>> /\ overrun = FALSE /\ misread = FALSE /\ cut = FALSE
-----------------------------------------------------------------------------
(* PowerDetector.                                                          *)

(* Every block has run out of work, be it that the receiver is idle or     *)
(* that it waits for symbols nobody is going to produce.                   *)
ControllerStarved ==
  \/ currentState = "waitingForSync" /\ nibbles = <<>>
  \/ currentState = "readingHeader" /\ Len(nibbles) < SFcurrent
  \/ currentState = "sendingPayload" /\ Len(nibbles) < RC!PayloadNeed

SyncStarved ==
  syncd => IF preambleConsumed
           THEN nOutputItemsToProduce = 0 \/ pos >= avail[curFrame]
           ELSE avail[curFrame] = 0

Quiet ==
  /\ fftIn = <<>> /\ corrIn = <<>> /\ syncIn = <<>>
  /\ pending = {} /\ syncMsgs = 0 /\ setNq = <<>> /\ setSFq = <<>> /\ setCRq = <<>>
  /\ SyncStarved
  /\ Len(symbols) < codeLength
  /\ ControllerStarved

(* The receiver is not done with a frame: a segment waits, the             *)
(* synchroniser is on one, or the controller has not come to its end.      *)
UnderWay ==
  \/ fftIn # <<>> \/ corrIn # <<>> \/ syncIn # <<>>
  \/ syncd /\ "sync.reset" \notin pending
  \/ syncMsgs > 0 \/ currentState # "waitingForSync"

DetectUndrained ==   \* mutant: works before it reads its messages
  /\ state = "detection"
  /\ nextFrame <= scenario.frames
  /\ scenario.pause = "received" => ~UnderWay
  /\ scenario.pause = "quiet" => Quiet
  /\ state' = "started"
  /\ nextFrame' = nextFrame + 1
  /\ avail' = [avail EXCEPT ![nextFrame] = scenario.window]
  /\ cut' = (cut \/ UnderWay \/ scenario.window < SymbolsOf(nextFrame))
  /\ fftIn' = Append(fftIn, [frame |-> nextFrame, lit |-> TRUE])
  /\ pending' = pending \cup {"fft.enable", "corr.enable", "sync.reset"}
  /\ UNCHANGED <<given, fftEnabled, corrEnabled, corrIn, syncIn, csVars, deintVars,
                 symbols, ctlVars, nibbles, syncMsgs, setNq, setSFq, setCRq,
                 hdrFrame, delivered, overrun, misread>>

(* Power above the threshold: the window opens on the next frame, whose    *)
(* samples follow the detectOut message; behind a short frame it holds     *)
(* noise.                                                                  *)
Detect ==
  /\ state = "detection" /\ Drained({"detector.reset"})
  /\ nextFrame <= scenario.frames
  /\ scenario.pause = "received" => ~UnderWay
  /\ scenario.pause = "quiet" => Quiet
  /\ state' = "started"
  /\ nextFrame' = nextFrame + 1
  /\ avail' = [avail EXCEPT ![nextFrame] = scenario.window]
  /\ cut' = (cut \/ UnderWay \/ scenario.window < SymbolsOf(nextFrame))
  /\ fftIn' = Append(fftIn, [frame |-> nextFrame, lit |-> TRUE])
  /\ pending' = pending \cup {"fft.enable", "corr.enable", "sync.reset"}
  /\ UNCHANGED <<given, fftEnabled, corrEnabled, corrIn, syncIn, csVars, deintVars,
                 symbols, ctlVars, nibbles, syncMsgs, setNq, setSFq, setCRq,
                 hdrFrame, delivered, overrun, misread>>

(* The synchroniser has left frame f, or leaves it before it reads on.     *)
Left(f) == curFrame = f /\ (syncd => "sync.reset" \in pending)

(* Handler of "reset", ignored unless the window is open.  The rest of the *)
(* window is dropped: how much had been passed on before, to be read yet,  *)
(* is open, and of no account if the synchroniser has left the frame.      *)
DetectorReset ==
  LET f    == nextFrame - 1
      seen == IF curFrame = f THEN pos ELSE 0
  IN  /\ "detector.reset" \in pending
      /\ pending' = pending \ {"detector.reset"}
      /\ state' = IF state = "started" THEN "waiting" ELSE state
      /\ IF state = "started" /\ ~Left(f)
         THEN \E n \in seen..avail[f] : avail' = [avail EXCEPT ![f] = n]
         ELSE UNCHANGED avail
      /\ UNCHANGED <<given, nextFrame, gateVars, syncIn, csVars, deintVars, symbols,
                     ctlVars, nibbles, syncMsgs, setNq, setSFq, setCRq, histVars>>

(* samplesToRead has counted down to 0: the whole window has been passed   *)
(* on, wherever its samples are now.                                       *)
Timeout ==
  /\ state = "started" /\ Drained({"detector.reset"})
  /\ state' = "waiting"
  /\ UNCHANGED <<given, nextFrame, avail, gateVars, syncIn, csVars, deintVars, symbols,
                 ctlVars, nibbles, msgVars, histVars>>

(* Power below the threshold again.                                        *)
PowerDrops ==
  /\ state = "waiting" /\ Drained({"detector.reset"})
  /\ state' = "detection"
  /\ UNCHANGED <<given, nextFrame, avail, gateVars, syncIn, csVars, deintVars,
                 symbols, ctlVars, nibbles, msgVars, histVars>>
-----------------------------------------------------------------------------
(* FFTMax and Correlation: while not enabled they pass zeros on, so that   *)
(* no preamble is found in the segment.                                    *)

(* All waiting enable and reset messages of a gate; with both waiting the  *)
(* one handled last wins.                                                  *)
GateMessages(enable, reset, flag) ==
  /\ ~Drained({enable, reset})
  /\ pending' = pending \ {enable, reset}
  /\ flag' \in {b \in BOOLEAN : (IF b THEN enable ELSE reset) \in pending}

FFTMaxMessages ==
  /\ GateMessages("fft.enable", "fft.reset", fftEnabled)
  /\ UNCHANGED <<given, detVars, corrEnabled, fftIn, corrIn, syncIn, csVars, deintVars,
                 symbols, ctlVars, nibbles, syncMsgs, setNq, setSFq, setCRq, histVars>>

CorrelationMessages ==
  /\ GateMessages("corr.enable", "corr.reset", corrEnabled)
  /\ UNCHANGED <<given, detVars, fftEnabled, fftIn, corrIn, syncIn, csVars, deintVars,
                 symbols, ctlVars, nibbles, syncMsgs, setNq, setSFq, setCRq, histVars>>

FFTMaxWork ==
  /\ fftIn # <<>> /\ Drained({"fft.enable", "fft.reset"})
  /\ fftIn' = Tail(fftIn)
  /\ corrIn' = Append(corrIn, [Head(fftIn) EXCEPT !.lit = @ /\ fftEnabled])
  /\ UNCHANGED <<given, detVars, fftEnabled, corrEnabled, syncIn, csVars, deintVars,
                 symbols, ctlVars, nibbles, msgVars, histVars>>

CorrelationWork ==
  /\ corrIn # <<>> /\ Drained({"corr.enable", "corr.reset"})
  /\ corrIn' = Tail(corrIn)
  /\ syncIn' = Append(syncIn, [Head(corrIn) EXCEPT !.lit = @ /\ corrEnabled])
  /\ UNCHANGED <<given, detVars, fftEnabled, corrEnabled, fftIn, csVars, deintVars,
                 symbols, ctlVars, nibbles, msgVars, histVars>>
-----------------------------------------------------------------------------
(* correlationSync.                                                        *)
SyncDrained == Drained({"sync.reset"}) /\ setNq = <<>>

SyncMessagesKeepingSync ==   \* mutant: reset() does nothing
  /\ ~SyncDrained
  /\ nOutputItemsToProduce' = IF setNq = <<>> THEN nOutputItemsToProduce ELSE Last(setNq)
  /\ pending' = pending \ {"sync.reset"}
  /\ setNq' = <<>>
  /\ UNCHANGED <<given, detVars, gateVars, syncIn, syncd, preambleConsumed, curFrame, pos,
                 deintVars, symbols, ctlVars, nibbles, syncMsgs, setSFq, setCRq, histVars>>

(* Handlers of "reset" (from the detector and from the controller) and     *)
(* "setNOutputItemsToProduce".  reset() leaves nOutputItemsToProduce alone.*)
SyncMessages ==
  /\ ~SyncDrained
  /\ syncd' = (syncd /\ "sync.reset" \notin pending)
  /\ nOutputItemsToProduce' = IF setNq = <<>> THEN nOutputItemsToProduce ELSE Last(setNq)
  /\ pending' = pending \ {"sync.reset"}
  /\ setNq' = <<>>
  /\ UNCHANGED <<given, detVars, gateVars, syncIn, preambleConsumed, curFrame, pos,
                 deintVars, symbols, ctlVars, nibbles, syncMsgs, setSFq, setCRq, histVars>>

(* Search the next segment for a correlation peak: synchronise to it, or   *)
(* consume it when the correlation was gated to zero.                      *)
Search ==
  /\ SyncDrained
  /\ ~syncd /\ syncIn # <<>>
  /\ syncIn' = Tail(syncIn)
  /\ pos' = 0
  /\ IF Head(syncIn).lit
     THEN /\ syncd' = TRUE
          /\ preambleConsumed' = FALSE
          /\ curFrame' = Head(syncIn).frame
          /\ syncMsgs' = syncMsgs + 1
          /\ pending' = pending \cup {"corr.reset"}
     ELSE /\ curFrame' = 0
          /\ UNCHANGED <<syncd, preambleConsumed, syncMsgs, pending>>
  /\ UNCHANGED <<given, detVars, gateVars, nOutputItemsToProduce, deintVars, symbols,
                 ctlVars, nibbles, setNq, setSFq, setCRq, histVars>>

ConsumePreamble ==
  /\ SyncDrained
  /\ syncd /\ ~preambleConsumed
  /\ avail[curFrame] > 0
  /\ preambleConsumed' = TRUE
  /\ UNCHANGED <<given, detVars, gateVars, syncIn, syncd, nOutputItemsToProduce, curFrame,
                 pos, deintVars, symbols, ctlVars, nibbles, msgVars, histVars>>

(* Produce n of the requested symbols: those of the frame, then noise, to  *)
(* the end of the window.                                                  *)
Produce(n) ==
  /\ SyncDrained
  /\ syncd /\ preambleConsumed
  /\ n <= nOutputItemsToProduce /\ pos + n <= avail[curFrame]
  /\ nOutputItemsToProduce' = nOutputItemsToProduce - n
  /\ pos' = pos + n
  /\ symbols' = symbols \o
       [k \in 1..n |-> IF pos + k <= SymbolsOf(curFrame) THEN <<curFrame, pos + k>> ELSE Noise]
  /\ UNCHANGED <<given, detVars, gateVars, syncIn, syncd, preambleConsumed, curFrame,
                 deintVars, ctlVars, nibbles, msgVars, histVars>>
-----------------------------------------------------------------------------
(* symbolDemodNew, grayEncode, deinterleave, decode: symbols in, nibbles   *)
(* out, one code block at a time.                                          *)
DeintMessagesSwapped ==   \* mutant: the two ports connected the wrong way
  /\ setSFq # <<>> \/ setCRq # <<>>
  /\ dSF' = IF setCRq = <<>> THEN dSF ELSE Last(setCRq)
  /\ codeLength' = IF setSFq = <<>> THEN codeLength ELSE Last(setSFq) + 4
  /\ setSFq' = <<>> /\ setCRq' = <<>>
  /\ UNCHANGED <<given, detVars, gateVars, syncIn, csVars, symbols, ctlVars, nibbles,
                 pending, syncMsgs, setNq, histVars>>

DeintMessages ==
  /\ setSFq # <<>> \/ setCRq # <<>>
  /\ dSF' = IF setSFq = <<>> THEN dSF ELSE Last(setSFq)
  /\ codeLength' = IF setCRq = <<>> THEN codeLength ELSE Last(setCRq) + 4
  /\ setSFq' = <<>> /\ setCRq' = <<>>
  /\ UNCHANGED <<given, detVars, gateVars, syncIn, csVars, symbols, ctlVars, nibbles,
                 pending, syncMsgs, setNq, histVars>>

DecodedRowTooMany(block) ==   \* mutant: one row more than the block has
  [i \in 1..(dSF + 1) |-> IF block[1][1] = 0 THEN Garbage ELSE <<block[1][1], 0, i>>]

(* The nibbles made of one block of symbols.                               *)
Decoded(block) ==
  LET f == block[1][1]
      B == IF f = 0 THEN {} ELSE
           {b \in 0..BlocksOf(hdr[f]) : BlockSymbols(f, b) = block /\ BlockRows(b) = dSF}
  IN  IF B = {} THEN [i \in 1..dSF |-> Garbage]
      ELSE BlockNibbles(f, CHOOSE b \in B : TRUE)

DeintWork ==
  /\ setSFq = <<>> /\ setCRq = <<>>
  /\ Len(symbols) >= codeLength
  /\ symbols' = SubSeq(symbols, codeLength + 1, Len(symbols))
  /\ nibbles' = nibbles \o Decoded(SubSeq(symbols, 1, codeLength))
  /\ UNCHANGED <<given, detVars, gateVars, syncIn, csVars, deintVars, ctlVars,
                 msgVars, histVars>>
-----------------------------------------------------------------------------
(* receiverController, with the messages it publishes.                     *)
Forward(oldPending) ==
  /\ setNq' = setNq \o out'.setN
  /\ setSFq' = setSFq \o out'.setSF
  /\ setCRq' = setCRq \o out'.setCR
  /\ pending' = IF out'.reset
                THEN oldPending \cup {"detector.reset", "fft.reset", "sync.reset"}
                ELSE oldPending

HandleSync ==
  /\ syncMsgs > 0
  /\ syncMsgs' = syncMsgs - 1
  /\ overrun' = (overrun \/ Len(nibbles) >= RC!SFHeader)
  /\ UNCHANGED nibbles
  /\ RC!StartRx
  /\ Forward(pending)
  /\ UNCHANGED <<given, detVars, gateVars, syncIn, csVars, deintVars, symbols,
                 hdrFrame, delivered, misread, cut>>

DropNibble ==
  /\ syncMsgs = 0
  /\ nibbles # <<>>
  /\ nibbles' = Tail(nibbles)
  /\ RC!DropNibble
  /\ UNCHANGED <<given, detVars, gateVars, syncIn, csVars, deintVars, symbols,
                 msgVars, histVars>>

(* The header the next nibbles spell, as <<frame, header>>.                *)
HeadersAtHead ==
  LET f == Head(nibbles)[1]
  IN  IF f # 0 /\ SubSeq(nibbles, 1, 5) = SubSeq(BlockNibbles(f, 0), 1, 5)
      THEN {<<f, hdr[f]>>}
      ELSE {0} \X scenario.unreadable

ReadHeader ==
  /\ syncMsgs = 0
  /\ Len(nibbles) >= SFcurrent
  /\ nibbles' = SubSeq(nibbles, 6, Len(nibbles))
  /\ \E fh \in HeadersAtHead :
       \/ RC!RejectHeader(fh[2]) /\ UNCHANGED <<hdrFrame, misread>>
       \/ RC!AcceptHeader(fh[2]) /\ hdrFrame' = fh[1] /\ misread' = (misread \/ fh[1] = 0)
  /\ Forward(pending)
  /\ UNCHANGED <<given, detVars, gateVars, syncIn, csVars, deintVars, symbols,
                 syncMsgs, delivered, overrun, cut>>

(* The payload and the CRC are the frame's own when they are the first     *)
(* nibbles after the header of the frame whose header was accepted.        *)
SendPayload ==
  LET used == payloadNibblesToRead + RC!CRCNibbles(payloadCRCPresent)
      own  == /\ hdrFrame # 0
              /\ IsPrefix(SubSeq(nibbles, 1, used), BodyNibbles(hdrFrame))
  IN  /\ syncMsgs = 0
      /\ Len(nibbles) >= RC!PayloadNeed
      /\ nibbles' = SubSeq(nibbles, RC!PayloadNeed + 1, Len(nibbles))
      /\ RC!SendPayload
      /\ delivered' = Append(delivered, IF own THEN hdrFrame ELSE 0)
      /\ Forward(pending)
      /\ UNCHANGED <<given, detVars, gateVars, syncIn, csVars, deintVars, symbols,
                     syncMsgs, hdrFrame, overrun, misread, cut>>
-----------------------------------------------------------------------------
Detector == Detect \/ DetectorReset \/ Timeout \/ PowerDrops
FFTMax == FFTMaxMessages \/ FFTMaxWork
Correlation == CorrelationMessages \/ CorrelationWork
CorrelationSync ==
  SyncMessages \/ Search \/ ConsumePreamble \/ \E n \in 1..nOutputItemsToProduce : Produce(n)
Deinterleave == DeintMessages \/ DeintWork
Controller == HandleSync \/ DropNibble \/ ReadHeader \/ SendPayload

Next == Detector \/ FFTMax \/ Correlation \/ CorrelationSync \/ Deinterleave \/ Controller

Spec == Init /\ [][Next]_vars

(* Every block has a thread of its own that the scheduler keeps waking.    *)
Fairness ==
  /\ WF_vars(Detector) /\ WF_vars(FFTMax) /\ WF_vars(Correlation)
  /\ WF_vars(CorrelationSync) /\ WF_vars(Deinterleave) /\ WF_vars(Controller)

FairSpec == Spec /\ Fairness
-----------------------------------------------------------------------------
(* Types of the wiring: queues, flags and the synchroniser's counters; the *)
(* controller's own variables are RC!TypeOK's, which the refinement covers.*)
TypeOK ==
  /\ nextFrame \in 1..(NFrames + 1)
  /\ state \in {"detection", "started", "waiting"}
  /\ avail \in [Frames -> Nat]
  /\ {fftEnabled, corrEnabled, syncd, preambleConsumed} \subseteq BOOLEAN
  /\ \A q \in {fftIn, corrIn, syncIn} :
       \A i \in DOMAIN q : q[i] \in [frame : Frames, lit : BOOLEAN]
  /\ curFrame \in 0..NFrames /\ pos \in Nat
  /\ dSF \in {7, SF - 2, SF} /\ codeLength \in 4..11
  /\ nOutputItemsToProduce \in Nat
  /\ \A i \in DOMAIN symbols :
       symbols[i] # Noise => symbols[i][1] \in Frames /\ symbols[i][2] \in 1..SymbolsOf(symbols[i][1])
  /\ pending \subseteq Ports /\ syncMsgs \in Nat
  /\ hdrFrame \in 0..NFrames
  /\ \A i \in DOMAIN delivered : delivered[i] \in 0..NFrames

(* The controller, in the loop, is the controller of ReceiverController:   *)
(* what is proved there for every environment holds here.                  *)
RefinesController == RC!Init /\ [][RC!Next]_(RC!vars)

(* Nothing has happened that the code does not provide for.  No frame was  *)
(* detected before the receiver was done with the one before, or in a      *)
(* window shorter than it; no sync met a header block of old nibbles; and  *)
(* no garbage passed the header checksum.  (A rejected header block leaves *)
(* its last SF - 7 nibbles, and when several frames are rejected before    *)
(* the controller comes to drop them they add up to a whole header block,  *)
(* perhaps that of an earlier frame, which the next sync makes the         *)
(* controller read at once.)                                               *)
Undisturbed == ~cut /\ ~overrun /\ ~misread

(* Every payload handed on is made of the nibbles of the one frame whose   *)
(* header announced it, none missing, none of another frame's; and frames  *)
(* are handed on in the order of the air, none twice.                      *)
FrameIntegrity ==
  Undisturbed =>
    \A i \in DOMAIN delivered :
      delivered[i] # 0 /\ (i > 1 => delivered[i - 1] < delivered[i])

(* The deinterleaver's code blocks start at the frame's first symbol: no   *)
(* symbol of an earlier frame is left over in its input buffer, where      *)
(* nothing would ever flush it.                                            *)
BlocksAligned ==
  Undisturbed =>
    \A i \in DOMAIN symbols :
      symbols[i] # Noise /\ symbols[i][2] = 1 => i % codeLength = 1

(* The reset of the controller for one frame never closes the window on    *)
(* the next: every window holds its frame.                                 *)
WindowsKept ==
  Undisturbed => \A f \in 1..(nextFrame - 1) : avail[f] >= SymbolsOf(f)

(* The one way to starve: the controller waits for nibbles that nobody is  *)
(* going to produce only if the frame fits the header block and padding of *)
(* an earlier frame is still added to its size.                            *)
ShortFrame ==
  payloadNibblesToRead + RC!CRCNibbles(payloadCRCPresent) <= RC!HeaderBlockRest

StarvationExplained ==
  Undisturbed /\ Quiet /\ currentState # "waitingForSync" =>
    currentState = "sendingPayload" /\ ShortFrame /\ extraNibblesToConsume > 0

(* Frames go on behind the header block, for which nothing starves.        *)
LongFrames ==
  \A h \in scenario.headers :
    RC!Accepted(h) => 2 * h.len + RC!CRCNibbles(h.crc) > RC!HeaderBlockRest

(* The controller never waits for ever: a frame it started on is completed *)
(* or given up.                                                            *)
ReceptionEnds ==
  LongFrames /\ Undisturbed /\ currentState # "waitingForSync" ~>
    currentState = "waitingForSync" \/ ~Undisturbed

(* Frames that find the receiver quiet, in windows that outlast them.      *)
Spaced ==
  /\ LongFrames /\ scenario.pause = "quiet"
  /\ \A f \in Frames : SymbolsOf(f) <= scenario.window

(* That is all it takes: no such frame is cut, none meets old nibbles, and *)
(* no garbage is read.                                                     *)
PauseSuffices == Spaced => Undisturbed

(* Every one with a good header is handed on in the end.                   *)
EveryFrameDelivered ==
  <>(Spaced =>
       \A f \in 1..scenario.frames :
         RC!Accepted(hdr[f]) => \E i \in DOMAIN delivered : delivered[i] = f)

(* "prevent demodulotator producing symbols before start" (receiver-       *)
(* Controller's constructor): after announcing a frame the synchroniser    *)
(* produces no symbol before the controller has started to receive it.     *)
NoSymbolsBeforeStart ==
  [][syncMsgs > 0 /\ syncMsgs' = syncMsgs => Len(symbols') <= Len(symbols)]_vars
=============================================================================
