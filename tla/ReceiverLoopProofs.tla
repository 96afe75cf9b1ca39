------------------------ MODULE ReceiverLoopProofs ------------------------
(***************************************************************************)
(* Proofs about the receiver's control loop, for every spreading factor,   *)
(* data rate, number of frames and scenario: its types, that the           *)
(* controller in it is the one of ReceiverController, and that the frames  *)
(* it hands on are whole and in order.                                     *)
(***************************************************************************)
EXTENDS ReceiverLoop, Basics

(* What is proved about the controller alone, in the loop's terms.         *)
RCP == INSTANCE ReceiverControllerProofs
         WITH nibblesIn <- Len(nibbles), Occupancies <- Nat

-----------------------------------------------------------------------------
(* The inductive invariant, first part: types.                             *)

Segment == [frame : Frames, lit : BOOLEAN]
Symbol == (0..NFrames) \X Nat
Nibble == (0..NFrames) \X Nat \X Nat
Rows == {SF - 2, SF}

DetectorType ==
  /\ nextFrame \in 1..(NFrames + 1)
  /\ state \in {"detection", "started", "waiting"}
  /\ state # "detection" => nextFrame > 1
  /\ avail \in [Frames -> Nat]

SyncType ==
  /\ fftEnabled \in BOOLEAN /\ corrEnabled \in BOOLEAN
  /\ fftIn \in Seq(Segment) /\ corrIn \in Seq(Segment) /\ syncIn \in Seq(Segment)
  /\ syncd \in BOOLEAN /\ preambleConsumed \in BOOLEAN
  /\ nOutputItemsToProduce \in Nat /\ pos \in Nat
  /\ curFrame \in 0..NFrames
  /\ syncd => curFrame \in Frames

(* A symbol is noise or one of its frame's.                                *)
SymbolsType ==
  /\ symbols \in Seq(Symbol)
  /\ \A i \in 1..Len(symbols) :
       \/ symbols[i] = Noise
       \/ symbols[i][1] \in Frames /\ symbols[i][2] \in 1..SymbolsOf(symbols[i][1])

ChainType ==
  /\ dSF \in {7, SF - 2, SF} /\ codeLength \in 4..11
  /\ nibbles \in Seq(Nibble)
  /\ pending \subseteq Ports /\ syncMsgs \in Nat
  /\ setNq \in Seq(Nat) /\ setSFq \in Seq(Rows) /\ setCRq \in Seq(0..7)

HistoryType ==
  /\ hdrFrame \in 0..NFrames /\ delivered \in Seq(0..NFrames)
  /\ overrun \in BOOLEAN /\ misread \in BOOLEAN /\ cut \in BOOLEAN

LoopType ==
  /\ scenario \in Scenarios /\ hdr \in [Frames -> scenario.headers]
  /\ DetectorType /\ SyncType /\ SymbolsType /\ ChainType /\ HistoryType
  /\ RC!TypeOK
  /\ extraNibblesToConsume < PayloadRows
-----------------------------------------------------------------------------
(* The inductive invariant, second part: the receiver does one thing after *)
(* the other.                                                              *)

(* The frame on the air last; the receiver is never behind by more.        *)
Now == nextFrame - 1

NoSegments == fftIn = <<>> /\ corrIn = <<>> /\ syncIn = <<>>

(* No message already sent will close the window on the last frame, and    *)
(* nothing of the frame has been handed on.                                *)
OnAir ==
  /\ "detector.reset" \notin pending
  /\ Now \in Frames
  /\ \A i \in 1..Len(delivered) : delivered[i] < Now

(* Its segment is on the way through the gates.                            *)
SegmentWaits ==
  \E lit \in BOOLEAN :
    LET s == <<[frame |-> Now, lit |-> lit]>>
    IN  \/ fftIn = s /\ corrIn = <<>> /\ syncIn = <<>>
        \/ fftIn = <<>> /\ corrIn = s /\ syncIn = <<>>
        \/ fftIn = <<>> /\ corrIn = <<>> /\ syncIn = s

StartsBlock(n) == n[2] = 0 /\ n[3] = 1

(* Of a header block that nobody read all nibbles are left.                *)
Leftover ==
  \A i \in 1..Len(nibbles) : StartsBlock(nibbles[i]) => i + HeaderRows <= Len(nibbles) + 1

(* What the deinterleaver will use once it has read its messages.          *)
ComingSF == IF setSFq = <<>> THEN dSF ELSE Last(setSFq)
ComingCodeLength == IF setCRq = <<>> THEN codeLength ELSE Last(setCRq) + 4

(* How many symbols the synchroniser is going to produce.                  *)
ToCome == IF setNq = <<>> THEN nOutputItemsToProduce ELSE Last(setNq)

(* The synchroniser will have produced n symbols of the frame.             *)
WillReach(n) ==
  \/ setNq = <<>> /\ pos + nOutputItemsToProduce = n
  \/ /\ Len(setNq) = 1 /\ setNq[1] > 0 /\ pos + setNq[1] = n
     /\ nOutputItemsToProduce = 0 /\ symbols = <<>>

Idle ==
  /\ currentState = "waitingForSync" /\ syncMsgs = 0
  /\ setNq = <<>> /\ nOutputItemsToProduce = 0 /\ symbols = <<>>
  /\ syncd => "sync.reset" \in pending
  /\ "detector.reset" \in pending => curFrame = Now
  /\ NoSegments \/ (SegmentWaits /\ OnAir)
  /\ Leftover

(* The synchroniser is on the last frame and stays there.                  *)
Tracking ==
  /\ OnAir /\ NoSegments
  /\ syncd /\ curFrame = Now /\ "sync.reset" \notin pending

Announced ==
  /\ Tracking
  /\ currentState = "waitingForSync" /\ syncMsgs = 1
  /\ setNq = <<>> /\ nOutputItemsToProduce = 0 /\ symbols = <<>> /\ pos = 0
  /\ Leftover

(* The last k symbols before pos wait for the deinterleaver.               *)
SymbolsWait(k) ==
  /\ k <= pos /\ Len(symbols) = k
  /\ \A i \in 1..k : symbols[i] = <<Now, (pos - k) + i>>

(* m nibbles of earlier header blocks come first, none of which starts one.*)
OldNibbles(m) ==
  /\ m < HeaderRows
  /\ \A i \in 1..m : ~StartsBlock(nibbles[i])

HeaderBlockComes ==
  /\ OldNibbles(Len(nibbles))
  /\ SymbolsWait(pos)

HeaderBlockThere ==
  /\ pos = 8 /\ symbols = <<>>
  /\ \E m \in 0..Len(nibbles) :
       /\ Len(nibbles) = m + HeaderRows
       /\ OldNibbles(m)
       /\ \A i \in 1..HeaderRows : nibbles[m + i] = <<Now, 0, i>>

ReadsHeader ==
  /\ Tracking
  /\ currentState = "readingHeader" /\ syncMsgs = 0
  /\ WillReach(8)
  /\ SFcurrent = HeaderRows /\ ComingSF = HeaderRows /\ ComingCodeLength = 8
  /\ HeaderBlockComes \/ HeaderBlockThere

(* d blocks behind the header block are decoded.                           *)
BlocksDecoded(d) ==
  /\ SymbolsWait(pos - (8 + d * (hdr[Now].CR + 4)))
  /\ pos >= 8 + d * (hdr[Now].CR + 4)
  /\ Len(nibbles) = (SF - 7) + d * PayloadRows
  /\ \A i \in 1..Len(nibbles) : nibbles[i] = BodyNibble(Now, i)

ReadsPayload ==
  /\ Tracking
  /\ currentState = "sendingPayload" /\ syncMsgs = 0
  /\ hdrFrame = Now /\ RC!Accepted(hdr[Now])
  /\ payloadNibblesToRead = 2 * hdr[Now].len /\ payloadCRCPresent = hdr[Now].crc
  /\ BlocksOf(hdr[Now]) > 0
  /\ RC!PayloadNeed = (SF - 7) + BlocksOf(hdr[Now]) * PayloadRows
  /\ WillReach(SymbolsOf(Now))
  /\ ComingSF = PayloadRows /\ ComingCodeLength = hdr[Now].CR + 4
  /\ \E d \in 0..BlocksOf(hdr[Now]) : BlocksDecoded(d)

(* Of a frame that fits the header block all nibbles are there.            *)
ReadsShort ==
  /\ Tracking
  /\ currentState = "sendingPayload" /\ syncMsgs = 0
  /\ hdrFrame = Now /\ RC!Accepted(hdr[Now]) /\ BlocksOf(hdr[Now]) = 0
  /\ setNq = <<>> /\ nOutputItemsToProduce = 0 /\ symbols = <<>>
  /\ nibbles = BodyNibbles(Now) /\ RC!PayloadNeed <= Len(nibbles)

(* Padding of an earlier frame is waited for as well, and symbols are      *)
(* asked for that do not make a block.                                     *)
Starves ==
  /\ Tracking
  /\ currentState = "sendingPayload" /\ syncMsgs = 0
  /\ RC!Accepted(hdr[Now]) /\ BlocksOf(hdr[Now]) = 0
  /\ ShortFrame /\ extraNibblesToConsume > 0
  /\ Len(nibbles) < RC!PayloadNeed
  /\ pos >= SymbolsOf(Now) /\ \A i \in 1..Len(symbols) : symbols[i] = Noise
  /\ Len(symbols) + ToCome < ComingCodeLength

InOrder ==
  \A i \in 1..Len(delivered) :
    /\ delivered[i] # 0 /\ delivered[i] < nextFrame
    /\ i > 1 => delivered[i - 1] < delivered[i]

InPhase == Idle \/ Announced \/ ReadsHeader \/ ReadsPayload \/ ReadsShort \/ Starves

Windows == \A f \in 1..(nextFrame - 1) : avail[f] >= SymbolsOf(f)

OneAtATime == Undisturbed => InOrder /\ InPhase /\ Windows
-----------------------------------------------------------------------------
(* Sizes.                                                                  *)

(* The assumptions of the controller's module hold for the one in the loop.*)
LEMMA ControllerAssumptions ==
  /\ SF \in Nat /\ SF >= 7 /\ LowDataRate \in BOOLEAN
  /\ Headers \subseteq RC!HeaderRecord /\ Headers \subseteq RCP!HeaderRecord
BY SizesAssumption, HeadersAssumption DEF RC!HeaderRecord, RCP!HeaderRecord

LEMMA Sizes ==
  /\ SF \in Nat /\ SF >= 7 /\ NFrames \in Nat /\ NFrames > 0
  /\ HeaderRows \in Nat /\ HeaderRows = SF - 2 /\ HeaderRows >= 5 /\ HeaderRows \in Rows
  /\ PayloadRows \in Nat /\ PayloadRows >= 5 /\ PayloadRows <= SF /\ PayloadRows \in Rows
  /\ RC!SFHeader = HeaderRows /\ RC!SFPayload = PayloadRows
  /\ RC!HeaderBlockRest = SF - 7 /\ SF - 7 \in Nat
BY SizesAssumption, FramesAssumption
   DEF HeaderRows, PayloadRows, Rows, RC!SFHeader, RC!SFPayload, RC!HeaderBlockRest

(* The headers of the scenario are among those of RC.                      *)
LEMMA HeaderOf ==
  ASSUME NEW h, \E s \in Scenarios : h \in s.headers \cup s.unreadable
  PROVE  /\ h \in Headers
         /\ h.len \in 0..255 /\ h.crc \in BOOLEAN /\ h.CR \in 0..7
         /\ h.checksumOK \in BOOLEAN
<1>1. h \in Headers
  BY DEF Headers
<1>2. h \in RC!HeaderRecord
  BY <1>1, HeadersAssumption
<1> QED  BY <1>1, <1>2 DEF RC!HeaderRecord

LEMMA BlocksOfType ==
  ASSUME NEW h, \E s \in Scenarios : h \in s.headers \cup s.unreadable
  PROVE  BlocksOf(h) \in Nat
<1> DEFINE n == 2 * h.len + (IF h.crc THEN 4 ELSE 0)
           m == n - (SF - 7) + PayloadRows - 1
<1>1. n \in Nat
  BY HeaderOf
<1>2. CASE ~RC!Accepted(h) \/ n <= SF - 7
  BY <1>2 DEF BlocksOf
<1>3. CASE ~(~RC!Accepted(h) \/ n <= SF - 7)
  <2>1. m \in Nat
    BY <1>1, <1>3, Sizes
  <2>2. m \div PayloadRows \in Nat
    BY <2>1, Sizes, DivMod
  <2> QED  BY <1>3, <2>2 DEF BlocksOf
<1> QED  BY <1>2, <1>3
-----------------------------------------------------------------------------
(* The controller in the loop.                                             *)

(* The two instances of the controller are the same; the theorems about it *)
(* are cited through these equalities.                                     *)
LEMMA SameController ==
  /\ RCP!Init <=> RC!Init
  /\ [RCP!Next]_(RCP!vars) <=> [RC!Next]_(RC!vars)
  /\ RCP!TypeOK <=> RC!TypeOK
  /\ RCP!ChainConfigured <=> RC!ChainConfigured
  /\ RCP!RequestIsExact <=> RC!RequestIsExact
BY DEF RC!Init, RCP!Init, RC!vars, RCP!vars, RC!rcVars, RCP!rcVars, RC!NoMessages,
       RCP!NoMessages, RC!TypeOK, RCP!TypeOK, RC!MessageRecord, RCP!MessageRecord,
       RC!ChainConfigured, RCP!ChainConfigured, RC!SFHeader, RCP!SFHeader,
       RC!SFPayload, RCP!SFPayload, RC!RequestIsExact, RCP!RequestIsExact,
       RC!LongFrame, RCP!LongFrame, RC!CRCNibbles, RCP!CRCNibbles,
       RC!HeaderBlockRest, RCP!HeaderBlockRest, RC!PayloadNeed, RCP!PayloadNeed,
       RC!Next, RCP!Next, RC!StartRx, RCP!StartRx, RC!DropNibble, RCP!DropNibble,
       RC!RejectHeader, RCP!RejectHeader, RC!AcceptHeader, RCP!AcceptHeader,
       RC!SendPayload, RCP!SendPayload, RC!Arrive, RCP!Arrive, RC!Accepted, RCP!Accepted,
       RC!HeaderSymbols, RCP!HeaderSymbols, RC!ExtraNibbles, RCP!ExtraNibbles,
       RC!NibblesToRead, RCP!NibblesToRead, RC!Padding, RCP!Padding,
       RC!PayloadSymbols, RCP!PayloadSymbols

(* What the deinterleaver makes of a block has one nibble for each row.    *)
LEMMA DecodedType ==
  ASSUME LoopType, NEW block \in Seq(Symbol), Len(block) > 0
  PROVE  Decoded(block) \in Seq(Nibble) /\ Len(Decoded(block)) = dSF /\ dSF \in 1..SF
<1> DEFINE f == block[1][1]
           B == IF f = 0 THEN {} ELSE
                {b \in 0..BlocksOf(hdr[f]) : BlockSymbols(f, b) = block /\ BlockRows(b) = dSF}
<1>1. dSF \in 1..SF
  BY Sizes DEF LoopType, ChainType
<1>2. f \in 0..NFrames
  BY DEF Symbol
<1>3. CASE B = {}
  <2>1. Decoded(block) = [i \in 1..dSF |-> Garbage]
    BY <1>3 DEF Decoded
  <2>2. Garbage \in Nibble
    BY Sizes DEF Garbage, Nibble
  <2>3. [i \in 1..dSF |-> Garbage] \in [1..dSF -> Nibble]
    BY <2>2
  <2> QED  BY <1>1, <2>1, <2>3, FunctionIsSeq
<1>4. CASE B # {}
  <2>1. PICK b \in B : Decoded(block) = BlockNibbles(f, b)
    BY <1>4 DEF Decoded
  <2>2. b \in Nat /\ BlockRows(b) = dSF /\ f \in Frames
    <3>1. f \in Frames
      BY <1>2, <1>4, Sizes DEF Frames
    <3>2. hdr[f] \in scenario.headers /\ scenario \in Scenarios
      BY <3>1 DEF LoopType
    <3>3. BlocksOf(hdr[f]) \in Nat
      BY <3>2, BlocksOfType
    <3> QED  BY <3>1, <3>3, <2>1
  <2>3. Decoded(block) = [i \in 1..dSF |-> <<f, b, i>>]
    BY <2>1, <2>2 DEF BlockNibbles
  <2>4. [i \in 1..dSF |-> <<f, b, i>>] \in [1..dSF -> Nibble]
    BY <1>1, <1>2, <2>2 DEF Nibble
  <2> QED  BY <1>1, <2>3, <2>4, FunctionIsSeq
<1> QED  BY <1>1, <1>3, <1>4

(* A step of the deinterleaver is an arrival of nibbles.                   *)
LEMMA DeintWorkArrives ==
  ASSUME LoopType, DeintWork
  PROVE  /\ \E n \in 1..SF : RC!Arrive(n)
         /\ nibbles' \in Seq(Nibble)
<1> DEFINE block == SubSeq(symbols, 1, codeLength)
<1>1. block \in Seq(Symbol) /\ Len(block) > 0
  <2>1. symbols \in Seq(Symbol) /\ codeLength \in 0..Len(symbols) /\ codeLength > 0
    BY DEF LoopType, SymbolsType, ChainType, DeintWork
  <2> QED  BY <2>1, TakeFirst
<1>2. Decoded(block) \in Seq(Nibble) /\ Len(Decoded(block)) = dSF /\ dSF \in 1..SF
  BY <1>1, DecodedType
<1>3. nibbles \in Seq(Nibble) /\ nibbles' = nibbles \o Decoded(block)
  BY DEF LoopType, ChainType, DeintWork
<1>4. Len(nibbles') = Len(nibbles) + dSF /\ nibbles' \in Seq(Nibble)
  BY <1>2, <1>3, ConcatAt
<1>5. Len(nibbles') \in Nat /\ UNCHANGED ctlVars
  BY <1>4, <1>3 DEF DeintWork
<1> QED  BY <1>2, <1>4, <1>5 DEF RC!Arrive, RC!rcVars, ctlVars

(* What readHeader() may see is one of the headers of RC.                  *)
LEMMA HeaderSeen ==
  ASSUME LoopType, Len(nibbles) >= 5, NEW fh \in HeadersAtHead
  PROVE  fh[2] \in Headers /\ fh[1] \in 0..NFrames
<1> DEFINE f == Head(nibbles)[1]
<1>1. f \in 0..NFrames
  <2>1. nibbles \in Seq(Nibble) /\ nibbles # <<>>
    BY DEF LoopType, ChainType
  <2>2. Head(nibbles) \in Nibble
    BY <2>1
  <2> QED  BY <2>2 DEF Nibble
<1>2. CASE fh \in {<<f, hdr[f]>>} /\ f # 0
  <2>1. f \in Frames
    BY <1>1, <1>2, Sizes DEF Frames
  <2>2. hdr[f] \in scenario.headers /\ scenario \in Scenarios
    BY <2>1 DEF LoopType
  <2> QED  BY <1>1, <1>2, <2>2, HeaderOf
<1>3. CASE fh \in {0} \X scenario.unreadable
  <2>1. fh[1] = 0 /\ fh[2] \in scenario.unreadable /\ scenario \in Scenarios
    BY <1>3 DEF LoopType
  <2> QED  BY <2>1, HeaderOf, Sizes
<1> QED  BY <1>2, <1>3 DEF HeadersAtHead

(* Every step of the loop is a step of the controller or leaves it alone.  *)
LEMMA ControllerStep ==
  LoopType /\ [Next]_vars => [RC!Next]_(RC!vars)
<1> SUFFICES ASSUME LoopType, [Next]_vars PROVE [RC!Next]_(RC!vars)
  OBVIOUS
<1>1. ASSUME UNCHANGED <<ctlVars, nibbles>> PROVE UNCHANGED RC!vars
  BY <1>1 DEF ctlVars, RC!vars, RC!rcVars
<1>2. CASE Detector
  BY <1>1, <1>2 DEF Detector, Detect, DetectorReset, Timeout, PowerDrops
<1>3. CASE FFTMax \/ Correlation
  BY <1>1, <1>3 DEF FFTMax, Correlation, FFTMaxMessages, FFTMaxWork, CorrelationMessages,
                    CorrelationWork
<1>4. CASE CorrelationSync
  BY <1>1, <1>4 DEF CorrelationSync, SyncMessages, Search, ConsumePreamble, Produce
<1>5. CASE DeintMessages
  BY <1>1, <1>5 DEF DeintMessages
<1>6. CASE DeintWork
  BY <1>6, DeintWorkArrives DEF RC!Next
<1>7. CASE HandleSync
  BY <1>7 DEF HandleSync, RC!Next
<1>8. CASE DropNibble
  BY <1>8 DEF DropNibble, RC!Next
<1>9. CASE ReadHeader
  <2>1. PICK fh \in HeadersAtHead : RC!RejectHeader(fh[2]) \/ RC!AcceptHeader(fh[2])
    BY <1>9 DEF ReadHeader
  <2>2. Len(nibbles) >= 5
    BY <1>9, Sizes DEF ReadHeader, LoopType, RC!TypeOK
  <2>3. fh[2] \in Headers
    BY <2>2, HeaderSeen
  <2> QED  BY <2>1, <2>3 DEF RC!Next
<1>10. CASE SendPayload
  BY <1>10 DEF SendPayload, RC!Next
<1>11. CASE UNCHANGED vars
  BY <1>1, <1>11 DEF vars
<1> QED
  BY <1>2, <1>3, <1>4, <1>5, <1>6, <1>7, <1>8, <1>9, <1>10, <1>11
     DEF Next, Deinterleave, Controller

(* The controller's types in the loop.                                     *)
LEMMA ControllerType == LoopType /\ [Next]_vars => RC!TypeOK'
<1> SUFFICES ASSUME LoopType, [Next]_vars PROVE RC!TypeOK'
  OBVIOUS
<1>1. RCP!TypeOK /\ [RCP!Next]_(RCP!vars)
  BY ControllerStep, SameController DEF LoopType
<1>2. RCP!TypeOK'
  BY <1>1, RCP!TypeStep, ControllerAssumptions
<1> QED
  BY <1>2 DEF RC!TypeOK, RCP!TypeOK, RC!MessageRecord, RCP!MessageRecord
-----------------------------------------------------------------------------
(* Type correctness of the loop.                                           *)

LEMMA LoopTypeInit == Init => LoopType
<1> SUFFICES ASSUME Init PROVE LoopType
  OBVIOUS
<1>1. DetectorType
  BY Sizes DEF Init, DetectorType
<1>b. /\ fftEnabled \in BOOLEAN /\ corrEnabled \in BOOLEAN /\ syncd \in BOOLEAN
      /\ preambleConsumed \in BOOLEAN /\ payloadCRCPresent \in BOOLEAN /\ ~syncd
      /\ overrun \in BOOLEAN /\ misread \in BOOLEAN /\ cut \in BOOLEAN
  BY Zenon DEF Init
<1>2. SyncType
  BY <1>b, Sizes DEF Init, SyncType
<1>3. SymbolsType
  BY DEF Init, SymbolsType
<1>4. HistoryType
  BY <1>b, Sizes DEF Init, HistoryType
<1>5. ChainType
  BY Sizes DEF Init, ChainType
<1>6. RC!TypeOK
  <2>1. RC!NoMessages \in RC!MessageRecord
    BY DEF RC!NoMessages, RC!MessageRecord
  <2>2. Len(nibbles) \in Nat
    BY DEF Init
  <2> QED  BY <1>b, <2>1, <2>2, Sizes DEF Init, RC!TypeOK
<1>7. extraNibblesToConsume < PayloadRows
  BY Sizes DEF Init
<1> QED  BY <1>1, <1>2, <1>3, <1>4, <1>5, <1>6, <1>7 DEF LoopType, Init

(* The parts of the invariant speak of different variables.                *)
LEMMA TypeUnchanged ==
  /\ LoopType /\ UNCHANGED <<given, detVars>> => DetectorType'
  /\ LoopType /\ UNCHANGED <<gateVars, syncIn, csVars>> => SyncType'
  /\ LoopType /\ UNCHANGED <<given, symbols>> => SymbolsType'
  /\ LoopType /\ UNCHANGED histVars => HistoryType'
<1>1. UNCHANGED given => \A f : SymbolsOf(f)' = SymbolsOf(f)
  BY DEF given, SymbolsOf, BlocksOf, RC!Accepted, PayloadRows
<1> QED
  BY <1>1 DEF LoopType, detVars, DetectorType, gateVars, csVars, SyncType, given, SymbolsType,
     histVars, HistoryType

(* What the air is like does not change.                                   *)
LEMMA GivenUnchanged == [Next]_vars => UNCHANGED given
BY DEF Next, vars, Detector, Detect, DetectorReset, Timeout, PowerDrops, FFTMax, FFTMaxMessages,
       FFTMaxWork, Correlation, CorrelationMessages, CorrelationWork, CorrelationSync,
       SyncMessages, Search, ConsumePreamble, Produce, Deinterleave, DeintMessages, DeintWork,
       Controller, HandleSync, DropNibble, ReadHeader, SendPayload

LEMMA SymbolsOfType ==
  ASSUME LoopType, NEW f \in Frames
  PROVE  SymbolsOf(f) \in Nat /\ SymbolsOf(f) >= 8
<1>1. hdr[f] \in scenario.headers /\ scenario \in Scenarios
  BY DEF LoopType
<1>2. BlocksOf(hdr[f]) \in Nat /\ hdr[f].CR + 4 \in Nat
  BY <1>1, BlocksOfType, HeaderOf
<1> QED  BY <1>2 DEF SymbolsOf

LEMMA SymbolsOfSame == UNCHANGED given => \A f : SymbolsOf(f)' = SymbolsOf(f)
BY DEF given, SymbolsOf, BlocksOf, RC!Accepted, PayloadRows

LEMMA DetectedFrame ==
  ASSUME LoopType, Detect
  PROVE  nextFrame \in Frames /\ scenario.window \in Nat
<1>1. scenario.frames \in 1..NFrames /\ scenario.window \in Nat
  BY FramesAssumption DEF LoopType
<1> QED  BY <1>1, Sizes DEF Detect, LoopType, DetectorType, Frames

LEMMA DetectorTypeStep ==
  ASSUME LoopType, Detector
  PROVE  DetectorType'
<1>0. DetectorType
  BY DEF LoopType
<1>1. CASE Detect
  <2>1. scenario.window \in Nat
    BY <1>1, DetectedFrame
  <2>2. nextFrame \in Frames /\ nextFrame' = nextFrame + 1
    BY <1>1, DetectedFrame DEF Detect
  <2>3. avail' \in [Frames -> Nat]
    BY <1>0, <1>1, <2>1, <2>2 DEF Detect, DetectorType
  <2> QED  BY <1>1, <2>2, <2>3, Sizes DEF Detect, DetectorType, Frames
<1>2. CASE DetectorReset
  <2>1. avail' \in [Frames -> Nat]
    <3> DEFINE f == nextFrame - 1
               seen == IF curFrame = f THEN pos ELSE 0
    <3>1. CASE state = "started" /\ ~Left(f)
      <4>1. f \in Frames /\ seen \in Nat /\ avail[f] \in Nat
        BY <1>0, <3>1, Sizes DEF LoopType, DetectorType, SyncType, Frames
      <4>2. PICK n \in seen..avail[f] : avail' = [avail EXCEPT ![f] = n]
        BY <1>2, <3>1, Zenon DEF DetectorReset
      <4>3. n \in Nat
        BY <4>1, <4>2
      <4> QED  BY <1>0, <4>1, <4>2, <4>3 DEF DetectorType
    <3>2. CASE ~(state = "started" /\ ~Left(f))
      BY <1>0, <1>2, <3>2, Zenon DEF DetectorReset, DetectorType
    <3> QED  BY <3>1, <3>2
  <2>2. state' \in {state, "waiting"} /\ (state' = "waiting" => state # "detection")
        /\ UNCHANGED nextFrame
    BY <1>0, <1>2 DEF DetectorReset, DetectorType
  <2> QED  BY <1>0, <2>1, <2>2 DEF DetectorType
<1>3. CASE Timeout \/ PowerDrops
  BY <1>0, <1>3 DEF Timeout, PowerDrops, DetectorType
<1> QED  BY <1>1, <1>2, <1>3 DEF Detector

(* Segments go through the gates, the synchroniser takes them.             *)
LEMMA SyncTypeStep ==
  ASSUME LoopType, Detect \/ FFTMax \/ Correlation \/ CorrelationSync
  PROVE  SyncType'
<1>1. CASE Detect
  <2>1. [frame |-> nextFrame, lit |-> TRUE] \in Segment
    BY <1>1, DetectedFrame DEF Segment
  <2>2. fftIn' \in Seq(Segment)
    BY <1>1, <2>1, AppendAt DEF Detect, LoopType, SyncType
  <2> QED  BY <1>1, <2>2 DEF Detect, csVars, LoopType, SyncType
<1>2. CASE FFTMaxMessages
  BY <1>2 DEF FFTMaxMessages, GateMessages, csVars, LoopType, SyncType
<1>3. CASE CorrelationMessages
  BY <1>3 DEF CorrelationMessages, GateMessages, csVars, LoopType, SyncType
<1>4. CASE FFTMaxWork
  <2> DEFINE s == [Head(fftIn) EXCEPT !.lit = @ /\ fftEnabled]
  <2>1. Head(fftIn) \in Segment /\ Tail(fftIn) \in Seq(Segment)
    BY <1>4, TailOf DEF FFTMaxWork, LoopType, SyncType
  <2>2. s \in Segment
    BY <2>1 DEF Segment
  <2>3. fftIn' \in Seq(Segment) /\ corrIn' \in Seq(Segment)
    BY <1>4, <2>1, <2>2, AppendAt DEF FFTMaxWork, LoopType, SyncType
  <2> QED  BY <1>4, <2>3 DEF FFTMaxWork, csVars, LoopType, SyncType
<1>5. CASE CorrelationWork
  <2> DEFINE s == [Head(corrIn) EXCEPT !.lit = @ /\ corrEnabled]
  <2>1. Head(corrIn) \in Segment /\ Tail(corrIn) \in Seq(Segment)
    BY <1>5, TailOf DEF CorrelationWork, LoopType, SyncType
  <2>2. s \in Segment
    BY <2>1 DEF Segment
  <2>3. corrIn' \in Seq(Segment) /\ syncIn' \in Seq(Segment)
    BY <1>5, <2>1, <2>2, AppendAt DEF CorrelationWork, LoopType, SyncType
  <2> QED  BY <1>5, <2>3 DEF CorrelationWork, csVars, LoopType, SyncType
<1>6. CASE SyncMessages
  <2>1. setNq # <<>> => Last(setNq) \in Nat
    BY DEF Last, LoopType, ChainType
  <2> QED  BY <1>6, <2>1 DEF SyncMessages, gateVars, LoopType, SyncType
<1>7. CASE Search
  <2>1. Head(syncIn) \in Segment /\ Tail(syncIn) \in Seq(Segment)
    BY <1>7, TailOf DEF Search, LoopType, SyncType
  <2>2. Head(syncIn).frame \in Frames
    BY <2>1 DEF Segment
  <2>3. CASE Head(syncIn).lit
    <3>1. syncd' \in BOOLEAN /\ preambleConsumed' \in BOOLEAN
      BY <1>7, <2>3, Zenon DEF Search
    <3>2. curFrame' \in Frames /\ curFrame' \in 0..NFrames
      BY <1>7, <2>2, <2>3, Sizes DEF Search, Frames
    <3> QED  BY <1>7, <2>1, <3>1, <3>2 DEF Search, gateVars, LoopType, SyncType
  <2>4. CASE ~Head(syncIn).lit
    BY <1>7, <2>1, <2>4, Sizes DEF Search, gateVars, LoopType, SyncType
  <2> QED  BY <2>3, <2>4
<1>8. CASE ConsumePreamble
  BY <1>8 DEF ConsumePreamble, gateVars, LoopType, SyncType
<1>9. ASSUME NEW n \in 1..nOutputItemsToProduce, Produce(n) PROVE SyncType'
  <2>1. nOutputItemsToProduce' \in Nat /\ pos' \in Nat
    BY <1>9 DEF Produce, LoopType, SyncType
  <2> QED  BY <1>9, <2>1 DEF Produce, gateVars, LoopType, SyncType
<1> QED
  BY <1>1, <1>2, <1>3, <1>4, <1>5, <1>6, <1>7, <1>8, <1>9
     DEF FFTMax, Correlation, CorrelationSync

(* Items of a sequence of symbols, one by one.                             *)
GoodSymbol(s) == s = Noise \/ (s[1] \in Frames /\ s[2] \in 1..SymbolsOf(s[1]))

(* What the synchroniser produces is noise or symbols of its frame; the    *)
(* deinterleaver consumes from the front.                                  *)
LEMMA SymbolsTypeStep ==
  ASSUME LoopType, CorrelationSync \/ DeintWork
  PROVE  SymbolsType'
<1>u. UNCHANGED given
  BY DEF CorrelationSync, SyncMessages, Search, ConsumePreamble, Produce, DeintWork
<1>s. symbols \in Seq(Symbol) /\ \A i \in 1..Len(symbols) : GoodSymbol(symbols[i])
  BY DEF LoopType, SymbolsType, GoodSymbol
<1>g. SUFFICES symbols' \in Seq(Symbol) /\ \A i \in 1..Len(symbols') : GoodSymbol(symbols'[i])
  BY <1>u, SymbolsOfSame DEF SymbolsType, GoodSymbol
<1>1. CASE symbols' = symbols
  BY <1>1, <1>s
<1>2. ASSUME NEW n \in 1..nOutputItemsToProduce, Produce(n)
      PROVE  symbols' \in Seq(Symbol) /\ \A i \in 1..Len(symbols') : GoodSymbol(symbols'[i])
  <2> DEFINE new(k) == IF pos + k <= SymbolsOf(curFrame) THEN <<curFrame, pos + k>> ELSE Noise
             t == [k \in 1..n |-> new(k)]
  <2>1. n \in Nat /\ pos \in Nat /\ curFrame \in Frames
    BY <1>2 DEF Produce, LoopType, SyncType
  <2>2. SymbolsOf(curFrame) \in Nat
    BY <2>1, SymbolsOfType
  <2>3. ASSUME NEW k \in 1..n PROVE new(k) \in Symbol /\ GoodSymbol(new(k))
    <3>1. CASE pos + k <= SymbolsOf(curFrame)
      BY <2>1, <2>2, <3>1, Sizes DEF GoodSymbol, Symbol, Frames
    <3>2. CASE ~(pos + k <= SymbolsOf(curFrame))
      BY <3>2, Sizes DEF GoodSymbol, Symbol, Noise
    <3> QED  BY <3>1, <3>2
  <2>4. symbols' = symbols \o t
    BY <1>2 DEF Produce
  <2> HIDE DEF new
  <2>5. t \in [1..n -> Symbol]
    BY <2>3
  <2>6. t \in Seq(Symbol) /\ Len(t) = n /\ \A k \in 1..n : GoodSymbol(t[k])
    BY <2>1, <2>3, <2>5, FunctionIsSeq
  <2> HIDE DEF t
  <2>7. symbols' \in Seq(Symbol) /\ Len(symbols') = Len(symbols) + n
        /\ (\A i \in 1..Len(symbols) : symbols'[i] = symbols[i])
        /\ (\A k \in 1..n : symbols'[Len(symbols) + k] = t[k])
    <3>1. symbols \in Seq(Symbol) /\ t \in Seq(Symbol)
      BY <1>s, <2>6
    <3>2. /\ symbols \o t \in Seq(Symbol) /\ Len(symbols \o t) = Len(symbols) + Len(t)
          /\ \A i \in 1..Len(symbols) : (symbols \o t)[i] = symbols[i]
          /\ \A i \in 1..Len(t) : (symbols \o t)[Len(symbols) + i] = t[i]
      BY <3>1, ConcatAt
    <3> QED  BY <2>4, <2>6, <3>2
  <2>8. ASSUME NEW i \in 1..Len(symbols') PROVE GoodSymbol(symbols'[i])
    <3>1. CASE i <= Len(symbols)
      BY <1>s, <2>7, <3>1
    <3>2. CASE i > Len(symbols)
      <4>1. i - Len(symbols) \in 1..n /\ i = Len(symbols) + (i - Len(symbols))
        BY <1>s, <2>1, <2>7, <3>2
      <4> QED  BY <2>6, <2>7, <4>1
    <3> QED  BY <1>s, <2>7, <3>1, <3>2
  <2> QED  BY <2>7, <2>8
<1>3. CASE DeintWork
  <2>1. codeLength \in 0..Len(symbols)
        /\ symbols' = SubSeq(symbols, codeLength + 1, Len(symbols))
    BY <1>3, <1>s DEF DeintWork, LoopType, ChainType
  <2>2. symbols' \in Seq(Symbol) /\ Len(symbols') = Len(symbols) - codeLength
        /\ \A i \in 1..Len(symbols') : symbols'[i] = symbols[codeLength + i]
    BY <1>s, <2>1, DropFirst
  <2>3. \A i \in 1..Len(symbols') : codeLength + i \in 1..Len(symbols)
    BY <1>s, <2>1, <2>2
  <2> QED  BY <1>s, <2>2, <2>3
<1> QED
  BY <1>1, <1>2, <1>3 DEF CorrelationSync, SyncMessages, Search, ConsumePreamble

(* The messages the controller publishes are well-formed, and forwarding   *)
(* them keeps the queues so.                                               *)
LEMMA ForwardType ==
  ASSUME LoopType, RC!TypeOK', Forward(pending),
         out'.setSF \in Seq(Rows), out'.setCR \in Seq(0..7)
  PROVE  /\ setNq' \in Seq(Nat) /\ setSFq' \in Seq(Rows) /\ setCRq' \in Seq(0..7)
         /\ pending' \subseteq Ports
<1>1. out'.setN \in Seq(Nat)
  BY DEF RC!TypeOK, RC!MessageRecord
<1>2. setNq \in Seq(Nat) /\ setSFq \in Seq(Rows) /\ setCRq \in Seq(0..7) /\ pending \subseteq Ports
  BY DEF LoopType, ChainType
<1>3. setNq' \in Seq(Nat) /\ setSFq' \in Seq(Rows) /\ setCRq' \in Seq(0..7)
  BY <1>1, <1>2, ConcatAt DEF Forward
<1>4. pending' \subseteq Ports
  BY <1>2 DEF Forward, Ports
<1> QED  BY <1>3, <1>4

LEMMA StartRxOut ==
  ASSUME RC!StartRx
  PROVE  out'.setN = <<8>> /\ out'.setSF = <<HeaderRows>> /\ out'.setCR = <<4>> /\ ~out'.reset
BY Zenon DEF RC!StartRx, RC!NoMessages, RC!HeaderSymbols, RC!SFHeader, HeaderRows

LEMMA SendPayloadOut ==
  ASSUME RC!SendPayload
  PROVE  out'.setN = <<>> /\ out'.setSF = <<HeaderRows>> /\ out'.setCR = <<>> /\ out'.reset
BY Zenon DEF RC!SendPayload, RC!NoMessages, RC!SFHeader, HeaderRows

LEMMA RejectHeaderOut ==
  ASSUME NEW h, RC!RejectHeader(h)
  PROVE  out'.setN = <<>> /\ out'.setSF = <<HeaderRows>> /\ out'.setCR = <<h.CR>> /\ out'.reset
BY Zenon DEF RC!RejectHeader, RC!NoMessages, RC!SFHeader, HeaderRows

LEMMA AcceptHeaderOut ==
  ASSUME NEW h, RC!AcceptHeader(h)
  PROVE  /\ out'.setSF = <<PayloadRows>> /\ out'.setCR = <<h.CR>> /\ ~out'.reset
         /\ LET extra == RC!ExtraNibbles(h, extraNibblesToConsume)
            IN  out'.setN = IF RC!NibblesToRead(h) + extra > RC!HeaderBlockRest
                            THEN <<RC!PayloadSymbols(h, extra)>> ELSE <<>>
BY Zenon DEF RC!AcceptHeader, RC!NoMessages, RC!SFPayload, PayloadRows

LEMMA OneItem ==
  ASSUME NEW S
  PROVE  <<>> \in Seq(S) /\ \A x \in S : <<x>> \in Seq(S)
OBVIOUS

(* Messages and nibbles.                                                   *)
LEMMA ChainTypeStep ==
  ASSUME LoopType, [Next]_vars
  PROVE  ChainType'
<1>c. ChainType
  BY DEF LoopType
<1>r. RC!TypeOK'
  BY ControllerType
<1>1. CASE Detector
  BY <1>1, <1>c DEF Detector, Detect, DetectorReset, Timeout, PowerDrops, ChainType, deintVars,
                    msgVars, Ports
<1>2. CASE FFTMax \/ Correlation
  BY <1>2, <1>c DEF FFTMax, FFTMaxMessages, FFTMaxWork, Correlation, CorrelationMessages,
                    CorrelationWork, GateMessages, ChainType, deintVars, msgVars
<1>3. CASE CorrelationSync
  <2>1. CASE SyncMessages
    BY <2>1, <1>c DEF SyncMessages, ChainType, deintVars
  <2>2. CASE Search
    <3>1. /\ syncMsgs' = syncMsgs \/ syncMsgs' = syncMsgs + 1
          /\ pending' = pending \/ pending' = pending \cup {"corr.reset"}
          /\ UNCHANGED <<deintVars, nibbles, setNq, setSFq, setCRq>>
      BY <2>2, Zenon DEF Search
    <3>2. pending' \subseteq Ports
      BY <3>1, <1>c DEF ChainType, Ports
    <3>3. syncMsgs' \in Nat
      BY <3>1, <1>c DEF ChainType
    <3> QED  BY <3>1, <3>2, <3>3, <1>c DEF ChainType, deintVars
  <2>3. CASE ConsumePreamble \/ \E n \in 1..nOutputItemsToProduce : Produce(n)
    BY <2>3, <1>c DEF ConsumePreamble, Produce, ChainType, deintVars, msgVars
  <2> QED  BY <1>3, <2>1, <2>2, <2>3 DEF CorrelationSync
<1>4. CASE DeintMessages
  <2>1. setSFq # <<>> => Last(setSFq) \in Rows
    BY <1>c DEF ChainType, Last
  <2>2. setCRq # <<>> => Last(setCRq) \in 0..7
    BY <1>c DEF ChainType, Last
  <2> QED  BY <1>4, <1>c, <2>1, <2>2 DEF DeintMessages, ChainType, Rows
<1>5. CASE DeintWork
  BY <1>5, <1>c, DeintWorkArrives DEF DeintWork, ChainType, deintVars, msgVars
<1>6. CASE HandleSync
  <2>1. /\ setNq' \in Seq(Nat) /\ setSFq' \in Seq(Rows) /\ setCRq' \in Seq(0..7)
        /\ pending' \subseteq Ports
    <3>1. RC!StartRx /\ Forward(pending)
      BY <1>6 DEF HandleSync
    <3>2. out'.setSF \in Seq(Rows) /\ out'.setCR \in Seq(0..7)
      <4>1. <<HeaderRows>> \in Seq(Rows) /\ <<4>> \in Seq(0..7)
        BY Sizes, OneItem
      <4> QED  BY <3>1, <4>1, StartRxOut
    <3> QED  BY <1>r, <3>1, <3>2, ForwardType
  <2> QED  BY <1>6, <1>c, <2>1 DEF HandleSync, ChainType, deintVars
<1>7. CASE DropNibble
  <2>1. nibbles' \in Seq(Nibble)
    BY <1>7, <1>c, TailOf DEF DropNibble, ChainType
  <2> QED  BY <1>7, <1>c, <2>1 DEF DropNibble, ChainType, deintVars, msgVars
<1>8. CASE ReadHeader
  <2>1. Len(nibbles) >= 5
    BY <1>8, Sizes DEF ReadHeader, LoopType, RC!TypeOK
  <2>2. nibbles' \in Seq(Nibble)
    BY <1>8, <1>c, <2>1, DropFirst DEF ReadHeader, ChainType
  <2>3. PICK fh \in HeadersAtHead : RC!RejectHeader(fh[2]) \/ RC!AcceptHeader(fh[2])
    BY <1>8 DEF ReadHeader
  <2>4. fh[2] \in Headers /\ fh[2].CR \in 0..7
    BY <2>1, HeaderSeen, HeadersAssumption DEF RC!HeaderRecord
  <2>5. out'.setSF \in Seq(Rows) /\ out'.setCR \in Seq(0..7)
    BY <2>3, <2>4, RejectHeaderOut, AcceptHeaderOut, Sizes, OneItem
  <2>6. /\ setNq' \in Seq(Nat) /\ setSFq' \in Seq(Rows) /\ setCRq' \in Seq(0..7)
        /\ pending' \subseteq Ports
    BY <1>8, <1>r, <2>5, ForwardType DEF ReadHeader
  <2> QED  BY <1>8, <1>c, <2>2, <2>6 DEF ReadHeader, ChainType, deintVars
<1>9. CASE SendPayload
  <2>1. RC!PayloadNeed \in Nat
    BY DEF RC!PayloadNeed, RC!CRCNibbles, LoopType, RC!TypeOK
  <2>2. nibbles' \in Seq(Nibble)
    BY <1>9, <1>c, <2>1, DropFirst DEF SendPayload, ChainType
  <2>3. /\ setNq' \in Seq(Nat) /\ setSFq' \in Seq(Rows) /\ setCRq' \in Seq(0..7)
        /\ pending' \subseteq Ports
    <3>1. RC!SendPayload /\ Forward(pending)
      BY <1>9 DEF SendPayload
    <3>2. out'.setSF \in Seq(Rows) /\ out'.setCR \in Seq(0..7)
      BY <3>1, SendPayloadOut, Sizes, OneItem
    <3> QED  BY <1>r, <3>1, <3>2, ForwardType
  <2> QED  BY <1>9, <1>c, <2>2, <2>3 DEF SendPayload, ChainType, deintVars
<1>10. CASE UNCHANGED vars
  BY <1>10, <1>c DEF vars, ChainType, deintVars, msgVars
<1> QED
  BY <1>1, <1>2, <1>3, <1>4, <1>5, <1>6, <1>7, <1>8, <1>9, <1>10
     DEF Next, Deinterleave, Controller

LEMMA HistoryTypeStep ==
  ASSUME LoopType, Detect \/ HandleSync \/ ReadHeader \/ SendPayload
  PROVE  HistoryType'
<1>h. HistoryType
  BY DEF LoopType
<1>1. CASE Detect
  <2>1. cut' \in BOOLEAN
    BY <1>1, Zenon DEF Detect
  <2> QED  BY <1>1, <1>h, <2>1 DEF Detect, HistoryType
<1>2. CASE HandleSync
  <2>1. overrun' \in BOOLEAN
    BY <1>2, Zenon DEF HandleSync
  <2> QED  BY <1>2, <1>h, <2>1 DEF HandleSync, HistoryType
<1>3. CASE ReadHeader
  <2>1. Len(nibbles) >= 5
    BY <1>3, Sizes DEF ReadHeader, LoopType, RC!TypeOK
  <2>2. PICK fh \in HeadersAtHead :
          \/ UNCHANGED <<hdrFrame, misread>>
          \/ hdrFrame' = fh[1] /\ misread' = (misread \/ fh[1] = 0)
    BY <1>3, Zenon DEF ReadHeader
  <2>3. hdrFrame' \in 0..NFrames
    BY <1>h, <2>1, <2>2, HeaderSeen DEF HistoryType
  <2>4. misread' \in BOOLEAN
    BY <1>h, <2>2, Zenon DEF HistoryType
  <2> QED  BY <1>3, <1>h, <2>3, <2>4 DEF ReadHeader, HistoryType
<1>4. CASE SendPayload
  <2>1. PICK d \in {0, hdrFrame} : delivered' = Append(delivered, d)
    BY <1>4, Zenon DEF SendPayload
  <2>2. delivered' \in Seq(0..NFrames)
    BY <1>h, <2>1, AppendAt, Sizes DEF HistoryType
  <2> QED  BY <1>4, <1>h, <2>2 DEF SendPayload, HistoryType
<1> QED  BY <1>1, <1>2, <1>3, <1>4

(* Padding completes a block: there is less of it than the block has rows. *)
LEMMA PaddingIsSmall ==
  ASSUME LoopType, [Next]_vars
  PROVE  (extraNibblesToConsume < PayloadRows)'
<1>0. extraNibblesToConsume < PayloadRows /\ PayloadRows' = PayloadRows
  BY DEF LoopType, PayloadRows
<1>1. CASE ReadHeader
  <2>1. PICK fh \in HeadersAtHead : RC!RejectHeader(fh[2]) \/ RC!AcceptHeader(fh[2])
    BY <1>1 DEF ReadHeader
  <2>2. fh[2] \in Headers
    <3>1. Len(nibbles) >= 5
      BY <1>1, Sizes DEF ReadHeader, LoopType, RC!TypeOK
    <3> QED  BY <3>1, HeaderSeen
  <2>3. CASE RC!RejectHeader(fh[2])
    BY <1>0, <2>3 DEF RC!RejectHeader
  <2>4. CASE RC!AcceptHeader(fh[2])
    <3> DEFINE n == RC!NibblesToRead(fh[2])
    <3>1. extraNibblesToConsume' = RC!ExtraNibbles(fh[2], extraNibblesToConsume)
      BY <2>4 DEF RC!AcceptHeader
    <3>2. n \in Nat
      BY <2>2, HeadersAssumption DEF RC!HeaderRecord, RC!NibblesToRead, RC!CRCNibbles
    <3>3. CASE n > RC!HeaderBlockRest
      <4>1. n - RC!HeaderBlockRest \in Nat
        BY <3>2, <3>3, Sizes
      <4>2. extraNibblesToConsume'
              = (PayloadRows - ((n - RC!HeaderBlockRest) % PayloadRows)) % PayloadRows
        BY <3>1, <3>3, Sizes DEF RC!ExtraNibbles, RC!Padding
      <4> HIDE DEF n
      <4>3. extraNibblesToConsume' \in 0..(PayloadRows - 1)
        BY <4>1, <4>2, Sizes, MissingRange
      <4> QED  BY <1>0, <4>3, Sizes
    <3>4. CASE ~(n > RC!HeaderBlockRest)
      BY <1>0, <3>1, <3>4 DEF RC!ExtraNibbles
    <3> QED  BY <3>3, <3>4
  <2> QED  BY <2>1, <2>3, <2>4
<1>2. CASE ~ReadHeader
  <2>1. UNCHANGED extraNibblesToConsume
    BY <1>2 DEF Next, vars, Detector, Detect, DetectorReset, Timeout, PowerDrops, FFTMax,
       FFTMaxMessages, FFTMaxWork, Correlation, CorrelationMessages, CorrelationWork,
       CorrelationSync, SyncMessages, Search, ConsumePreamble, Produce, Deinterleave,
       DeintMessages, DeintWork, Controller, HandleSync, DropNibble, SendPayload, ctlVars,
       RC!StartRx, RC!DropNibble, RC!SendPayload
  <2> QED  BY <1>0, <2>1
<1> QED  BY <1>1, <1>2

LEMMA LoopTypeStep == LoopType /\ [Next]_vars => LoopType'
<1> SUFFICES ASSUME LoopType, [Next]_vars PROVE LoopType'
  OBVIOUS
<1>1. UNCHANGED given
  BY GivenUnchanged
<1>2. (scenario \in Scenarios)' /\ (hdr \in [Frames -> scenario.headers])'
  BY <1>1 DEF given, LoopType
<1>3. ChainType' /\ RC!TypeOK'
  BY ChainTypeStep, ControllerType
<1>4. DetectorType'
  <2>1. CASE Detector
    BY <2>1, DetectorTypeStep
  <2>2. CASE ~Detector
    <3>1. UNCHANGED detVars
      BY <2>2 DEF Next, vars, FFTMax, FFTMaxMessages, FFTMaxWork, Correlation,
         CorrelationMessages, CorrelationWork, CorrelationSync, SyncMessages, Search,
         ConsumePreamble, Produce, Deinterleave, DeintMessages, DeintWork, Controller,
         HandleSync, DropNibble, ReadHeader, SendPayload
    <3> QED  BY <1>1, <3>1, TypeUnchanged
  <2> QED  BY <2>1, <2>2
<1>5. SyncType'
  <2>1. CASE Detect \/ FFTMax \/ Correlation \/ CorrelationSync
    BY <2>1, SyncTypeStep
  <2>2. CASE ~(Detect \/ FFTMax \/ Correlation \/ CorrelationSync)
    <3>1. UNCHANGED <<gateVars, syncIn, csVars>>
      BY <2>2 DEF Next, vars, Detector, DetectorReset, Timeout, PowerDrops, Deinterleave,
         DeintMessages, DeintWork, Controller, HandleSync, DropNibble, ReadHeader, SendPayload
    <3> QED  BY <3>1, TypeUnchanged
  <2> QED  BY <2>1, <2>2
<1>6. SymbolsType'
  <2>1. CASE CorrelationSync \/ DeintWork
    BY <2>1, SymbolsTypeStep
  <2>2. CASE ~(CorrelationSync \/ DeintWork)
    <3>1. UNCHANGED symbols
      BY <2>2 DEF Next, vars, Detector, Detect, DetectorReset, Timeout, PowerDrops, FFTMax,
         FFTMaxMessages, FFTMaxWork, Correlation, CorrelationMessages, CorrelationWork,
         Deinterleave, DeintMessages, Controller, HandleSync, DropNibble, ReadHeader, SendPayload
    <3> QED  BY <1>1, <3>1, TypeUnchanged
  <2> QED  BY <2>1, <2>2
<1>7. HistoryType'
  <2>1. CASE Detect \/ HandleSync \/ ReadHeader \/ SendPayload
    BY <2>1, HistoryTypeStep
  <2>2. CASE ~(Detect \/ HandleSync \/ ReadHeader \/ SendPayload)
    <3>1. UNCHANGED histVars
      BY <2>2 DEF Next, vars, Detector, DetectorReset, Timeout, PowerDrops, FFTMax,
         FFTMaxMessages, FFTMaxWork, Correlation, CorrelationMessages, CorrelationWork,
         CorrelationSync, SyncMessages, Search, ConsumePreamble, Produce, Deinterleave,
         DeintMessages, DeintWork, Controller, DropNibble
    <3> QED  BY <3>1, TypeUnchanged
  <2> QED  BY <2>1, <2>2
<1>8. (extraNibblesToConsume < PayloadRows)'
  BY PaddingIsSmall
<1> QED  BY <1>2, <1>3, <1>4, <1>5, <1>6, <1>7, <1>8 DEF LoopType

(* Types are an invariant; the next theorems rest on it.                   *)
LEMMA LoopTypeCorrect == Spec => []LoopType
BY LoopTypeInit, LoopTypeStep, PTL DEF Spec

(* The wiring keeps to its types: queues hold messages and segments, no    *)
(* block computes a negative number of items, every symbol waiting is one  *)
(* of a frame on the air or noise.                                         *)
THEOREM LoopTyped == Spec => []TypeOK
<1>1. LoopType => TypeOK
  <2> SUFFICES ASSUME LoopType PROVE TypeOK
    OBVIOUS
  <2>1. \A q \in {fftIn, corrIn, syncIn} :
          \A i \in DOMAIN q : q[i] \in [frame : Frames, lit : BOOLEAN]
    BY ItemsOf DEF LoopType, SyncType, Segment
  <2>2. \A i \in DOMAIN symbols : symbols[i] # Noise =>
          symbols[i][1] \in Frames /\ symbols[i][2] \in 1..SymbolsOf(symbols[i][1])
    BY DEF LoopType, SymbolsType
  <2>3. {fftEnabled, corrEnabled, syncd, preambleConsumed} \subseteq BOOLEAN
    BY DEF LoopType, SyncType
  <2>4. \A i \in DOMAIN delivered : delivered[i] \in 0..NFrames
    BY ItemsOf DEF LoopType, HistoryType
  <2> QED
    BY <2>1, <2>2, <2>3, <2>4
       DEF LoopType, DetectorType, SyncType, ChainType, HistoryType, TypeOK
<1> QED  BY <1>1, LoopTypeCorrect, PTL

LEMMA ControllerInit == Init => RC!Init
<1> SUFFICES ASSUME Init PROVE RC!Init
  OBVIOUS
<1>1. payloadCRCPresent \in BOOLEAN
  BY Zenon DEF Init
<1>2. CR \in 0..7 /\ Len(nibbles) = 0
  BY DEF Init
<1> QED  BY <1>1, <1>2 DEF Init, RC!Init

(* The controller in the loop is the controller of ReceiverController: each*)
(* step of the loop is one of its steps or leaves it alone, the            *)
(* deinterleaver's block of nibbles being its environment's step.          *)
THEOREM LoopRefinesController == Spec => RefinesController
<1> QED  BY ControllerInit, LoopTypeCorrect, ControllerStep, PTL DEF Spec, RefinesController

(* What holds of the controller in every environment holds in the loop:    *)
(* the chain is configured for what the controller reads ...               *)
THEOREM LoopChainConfigured == Spec => []RC!ChainConfigured
<1>1. Init => RCP!Init
  BY ControllerInit, SameController
<1>2. LoopType /\ [Next]_vars => [RCP!Next]_(RCP!vars)
  BY ControllerStep, SameController
<1>3. RCP!Spec <=> RCP!Init /\ [][RCP!Next]_(RCP!vars)
  BY DEF RCP!Spec
<1>4. RCP!Spec => []RCP!ChainConfigured
  BY RCP!ChainCorrect, ControllerAssumptions
<1>5. RCP!ChainConfigured => RC!ChainConfigured
  BY SameController
<1> QED  BY <1>1, <1>2, <1>3, <1>4, <1>5, LoopTypeCorrect, PTL DEF Spec

(* ... and a request is exactly what the payload takes.                    *)
THEOREM LoopRequestIsExact == Spec => []RC!RequestIsExact
<1>1. Init => RCP!Init
  BY ControllerInit, SameController
<1>2. LoopType /\ [Next]_vars => [RCP!Next]_(RCP!vars)
  BY ControllerStep, SameController
<1>3. RCP!Spec <=> RCP!Init /\ [][RCP!Next]_(RCP!vars)
  BY DEF RCP!Spec
<1>4. RCP!Spec => []RCP!RequestIsExact
  BY RCP!RequestCorrect, ControllerAssumptions
<1>5. RCP!RequestIsExact => RC!RequestIsExact
  BY SameController
<1> QED  BY <1>1, <1>2, <1>3, <1>4, <1>5, LoopTypeCorrect, PTL DEF Spec
-----------------------------------------------------------------------------
(* One thing at a time.                                                    *)

(* When the synchroniser is not on the frame on the air the receiver idles.*)
LEMMA TrackingOrIdle ==
  /\ InPhase /\ ~Tracking => Idle
  /\ Tracking => OnAir /\ NoSegments /\ ~Idle
BY DEF InPhase, Announced, ReadsHeader, ReadsPayload, ReadsShort, Starves, Tracking, Idle

(* Segments of the frame on the air stay as they are.                      *)
LEMMA TrackingKept ==
  ASSUME Tracking, UNCHANGED <<given, nextFrame, fftIn, corrIn, syncIn, syncd, curFrame, delivered>>,
         "detector.reset" \notin pending', "sync.reset" \notin pending'
  PROVE  Tracking' /\ Now' = Now
BY DEF Tracking, OnAir, NoSegments, Now

LEMMA ShortKept ==
  ASSUME ReadsShort, Tracking',
         UNCHANGED <<given, nextFrame, ctlVars, syncMsgs, hdrFrame, setNq, nOutputItemsToProduce,
                     symbols, nibbles>>
  PROVE  ReadsShort'
<1>1. Now' = Now /\ BodyNibbles(Now)' = BodyNibbles(Now) /\ RC!PayloadNeed' = RC!PayloadNeed
      /\ BlocksOf(hdr[Now])' = BlocksOf(hdr[Now]) /\ hdr'[Now'] = hdr[Now]
  BY DEF Now, given, BodyNibbles, BodyNibble, BlocksOf, PayloadRows, RC!PayloadNeed, ctlVars
<1> QED  BY <1>1 DEF ReadsShort, ctlVars

LEMMA StarvesKept ==
  ASSUME Starves, Tracking', UNCHANGED <<given, nextFrame, ctlVars, syncMsgs, nibbles>>,
         pos \in Nat, pos' \in Nat, SymbolsOf(Now) \in Nat, pos' >= pos,
         \A i \in 1..Len(symbols') : symbols'[i] = Noise,
         Len(symbols') + ToCome' = Len(symbols) + ToCome, ComingCodeLength' = ComingCodeLength
  PROVE  Starves'
<1>1. Now' = Now /\ RC!PayloadNeed' = RC!PayloadNeed /\ SymbolsOf(Now)' = SymbolsOf(Now)
      /\ BlocksOf(hdr[Now])' = BlocksOf(hdr[Now]) /\ hdr'[Now'] = hdr[Now]
  BY DEF Now, given, SymbolsOf, BlocksOf, PayloadRows, RC!PayloadNeed, ctlVars
<1>2. ShortFrame' <=> ShortFrame
  BY DEF ShortFrame, ctlVars
<1>3. pos' >= SymbolsOf(Now)
  BY DEF Starves
<1> QED  BY <1>1, <1>2, <1>3 DEF Starves, ctlVars

(* What the phases do not speak of: the detector, gates, preambles,        *)
(* messages the deinterleaver has read.                                    *)
LEMMA PhaseKept ==
  ASSUME LoopType, InOrder, InPhase,
         UNCHANGED <<given, nextFrame, fftIn, corrIn, syncIn, syncd, nOutputItemsToProduce, curFrame,
                     pos, symbols, ctlVars, nibbles, syncMsgs, setNq, histVars>>,
         "detector.reset" \in pending' <=> "detector.reset" \in pending,
         "sync.reset" \in pending' <=> "sync.reset" \in pending,
         ComingSF' = ComingSF, ComingCodeLength' = ComingCodeLength
  PROVE  InOrder' /\ InPhase'
<1>1. InOrder'
  BY DEF InOrder, histVars
<1>2. Now' = Now /\ (Leftover' <=> Leftover)
  BY DEF Now, Leftover
<1>3. CASE Idle
  <2>1. OnAir => OnAir'
    BY DEF OnAir, Now, histVars
  <2>2. (NoSegments => NoSegments') /\ (SegmentWaits => SegmentWaits')
    BY <1>2 DEF NoSegments, SegmentWaits
  <2>3. Idle'
    BY <1>2, <1>3, <2>1, <2>2 DEF Idle, ctlVars
  <2> QED  BY <1>1, <2>3 DEF InPhase
<1>4. CASE ~Idle
  <2>1. Tracking
    BY <1>4, TrackingOrIdle
  <2>2. Tracking'
    BY <2>1, TrackingKept DEF Tracking, OnAir, histVars
  <2>3. CASE Announced
    <3>1. Announced'
      BY <1>2, <2>2, <2>3 DEF Announced, ctlVars
    <3> QED  BY <1>1, <3>1 DEF InPhase
  <2>4. \A n : WillReach(n) => WillReach(n)'
    BY DEF WillReach
  <2>5. CASE ReadsHeader
    <3>1. (HeaderBlockComes => HeaderBlockComes') /\ (HeaderBlockThere => HeaderBlockThere')
      BY <1>2 DEF HeaderBlockComes, HeaderBlockThere, OldNibbles, SymbolsWait
    <3>2. ReadsHeader'
      BY <2>2, <2>4, <2>5, <3>1 DEF ReadsHeader, ctlVars, HeaderRows
    <3> QED  BY <1>1, <3>2 DEF InPhase
  <2>6. CASE ReadsPayload
    <3>1. \A d : BlocksDecoded(d) => BlocksDecoded(d)'
      BY <1>2 DEF BlocksDecoded, SymbolsWait, given
    <3>2. RC!PayloadNeed' = RC!PayloadNeed
      BY DEF RC!PayloadNeed, ctlVars
    <3>3. SymbolsOf(Now)' = SymbolsOf(Now) /\ hdr'[Now'] = hdr[Now]
      BY <1>2 DEF SymbolsOf, given
    <3>4. ReadsPayload'
      BY <1>2, <2>2, <2>4, <2>6, <3>1, <3>2, <3>3
         DEF ReadsPayload, ctlVars, histVars, PayloadRows
    <3> QED  BY <1>1, <3>4 DEF InPhase
  <2>7. CASE ReadsShort
    BY <1>1, <2>2, <2>7, ShortKept DEF InPhase, histVars
  <2>8. CASE Starves
    <3>1. pos \in Nat /\ pos' \in Nat /\ pos' >= pos /\ SymbolsOf(Now) \in Nat
      BY <2>1, SymbolsOfType DEF LoopType, SyncType, Tracking, OnAir
    <3>2. Len(symbols') + ToCome' = Len(symbols) + ToCome
          /\ \A i \in 1..Len(symbols') : symbols'[i] = Noise
      BY <2>8 DEF ToCome, Starves
    <3>3. Starves'
      BY <2>2, <2>8, <3>1, <3>2, StarvesKept
    <3> QED  BY <1>1, <3>3 DEF InPhase
  <2> QED  BY <1>4, <2>3, <2>5, <2>6, <2>7, <2>8 DEF InPhase
<1> QED  BY <1>3, <1>4

(* A window that opens when the receiver is done opens on one that idles.  *)
LEMMA OneDetect ==
  ASSUME LoopType, InOrder, InPhase, Detect, ~cut'
  PROVE  InOrder' /\ InPhase'
<1>1. ~UnderWay
  BY DEF Detect
<1>2. Idle /\ NoSegments
  <2>1. ~Tracking
    BY <1>1 DEF UnderWay, Tracking
  <2> QED  BY <1>1, <2>1, TrackingOrIdle DEF UnderWay, NoSegments
<1>3. nextFrame \in Frames /\ nextFrame \in Nat /\ Now' = nextFrame /\ UNCHANGED given
  BY DetectedFrame, Sizes DEF Detect, Now, Frames
<1>4. OnAir'
  <2>1. "detector.reset" \notin pending'
    BY DEF Detect, Drained
  <2>2. \A i \in 1..Len(delivered) : delivered[i] < nextFrame
    BY DEF InOrder
  <2> QED  BY <1>3, <2>1, <2>2 DEF OnAir, Detect, Frames
<1>5. SegmentWaits'
  <2>1. fftIn' = <<[frame |-> nextFrame, lit |-> TRUE]>> /\ corrIn' = <<>> /\ syncIn' = <<>>
    BY <1>2 DEF Detect, NoSegments
  <2> QED  BY <1>3, <2>1 DEF SegmentWaits
<1>6. "sync.reset" \in pending'
  BY DEF Detect
<1>7. Idle'
  BY <1>2, <1>4, <1>5, <1>6 DEF Idle, OnAir, Detect, ctlVars, csVars, Leftover
<1>8. InOrder'
  <2>1. nextFrame' = nextFrame + 1 /\ UNCHANGED delivered /\ delivered \in Seq(Nat)
    BY Sizes DEF Detect, LoopType, HistoryType
  <2> QED  BY <1>3, <2>1 DEF InOrder
<1> QED  BY <1>7, <1>8 DEF InPhase

(* While the receiver is busy with the frame on the air it is not quiet,   *)
(* unless it starves.                                                      *)
LEMMA QuietOnly ==
  ASSUME LoopType, InPhase, Windows, Quiet
  PROVE  Idle \/ Starves
<1> SUFFICES ASSUME Tracking, ~Starves PROVE FALSE
  BY TrackingOrIdle
<1>t. pos \in Nat /\ codeLength \in Nat /\ nOutputItemsToProduce \in Nat
  BY DEF LoopType, SyncType, ChainType
<1>w. Now \in Frames /\ avail[Now] \in Nat /\ SymbolsOf(Now) \in Nat /\ SymbolsOf(Now) >= 8
      /\ avail[Now] >= SymbolsOf(Now)
  <2>1. Now \in Frames /\ nextFrame \in Nat
    BY Sizes DEF Tracking, OnAir, LoopType, DetectorType
  <2>2. Now \in 1..(nextFrame - 1)
    BY <2>1 DEF Now, Frames
  <2> QED  BY <2>1, <2>2, SymbolsOfType DEF Windows, LoopType, DetectorType
<1>1. /\ syncMsgs = 0 /\ setNq = <<>> /\ Len(symbols) < codeLength
      /\ ComingCodeLength = codeLength
      /\ nOutputItemsToProduce = 0 \/ pos >= avail[Now]
  <2>1. syncd /\ curFrame = Now
    BY DEF Tracking
  <2>2. preambleConsumed /\ (nOutputItemsToProduce = 0 \/ pos >= avail[Now])
    BY <1>w, <2>1 DEF Quiet, SyncStarved
  <2> QED  BY <2>2 DEF Quiet, ComingCodeLength
<1>2. CASE Announced
  BY <1>1, <1>2 DEF Announced
<1>3. CASE ReadsHeader
  <2>1. pos + nOutputItemsToProduce = 8
    BY <1>1, <1>3 DEF ReadsHeader, WillReach
  <2>2. pos = 8 /\ codeLength = 8
    BY <1>t, <1>w, <1>1, <1>3, <2>1 DEF ReadsHeader
  <2>3. CASE HeaderBlockComes
    BY <1>1, <2>2, <2>3 DEF HeaderBlockComes, SymbolsWait
  <2>4. CASE HeaderBlockThere
    <3>1. Len(nibbles) < HeaderRows
      BY <1>3 DEF Quiet, ControllerStarved, ReadsHeader
    <3> QED  BY <2>4, <3>1, Sizes DEF HeaderBlockThere
  <2> QED  BY <1>3, <2>3, <2>4 DEF ReadsHeader
<1>4. CASE ReadsPayload
  <2> DEFINE B == BlocksOf(hdr[Now])
             c == hdr[Now].CR + 4
  <2>1. B \in Nat /\ c \in Nat /\ c > 0
    <3>1. hdr[Now] \in scenario.headers /\ scenario \in Scenarios
      BY <1>w DEF LoopType
    <3> QED  BY <3>1, BlocksOfType, HeaderOf
  <2>0. pos + nOutputItemsToProduce = SymbolsOf(Now)
    BY <1>1, <1>4 DEF ReadsPayload, WillReach
  <2>2. pos = 8 + B * c /\ codeLength = c
    <3>1. pos = SymbolsOf(Now)
      BY <1>t, <1>w, <1>1, <2>0
    <3> QED  BY <1>1, <1>4, <3>1 DEF ReadsPayload, SymbolsOf
  <2>3. PICK d \in 0..B : BlocksDecoded(d)
    BY <1>4 DEF ReadsPayload
  <2>4. Len(nibbles) = (SF - 7) + d * PayloadRows /\ Len(symbols) = pos - (8 + d * c)
    BY <2>3 DEF BlocksDecoded, SymbolsWait
  <2>5. Len(nibbles) < (SF - 7) + B * PayloadRows
    BY <1>4 DEF Quiet, ControllerStarved, ReadsPayload
  <2>6. d # B
    BY <2>4, <2>5, Sizes
  <2>7. (d + 1) * c <= B * c
    BY <2>1, <2>6, TimesMonotone
  <2>8. d * c \in Nat /\ (d + 1) * c = d * c + c /\ B * c \in Nat
    BY <2>1, TimesNext
  <2>9. (8 + B * c) - (8 + d * c) >= c
    BY <2>1, <2>7, <2>8
  <2> HIDE DEF B, c
  <2> QED  BY <1>1, <2>1, <2>2, <2>4, <2>9
<1>5. CASE ReadsShort
  <2>1. Len(nibbles) < RC!PayloadNeed /\ RC!PayloadNeed <= Len(nibbles)
    BY <1>5 DEF Quiet, ControllerStarved, ReadsShort
  <2>2. RC!PayloadNeed \in Nat /\ Len(nibbles) \in Nat
    BY Sizes DEF RC!PayloadNeed, RC!CRCNibbles, LoopType, RC!TypeOK
  <2> QED  BY <2>1, <2>2
<1> QED  BY <1>2, <1>3, <1>4, <1>5, TrackingOrIdle DEF InPhase

(* The controller's reset finds no frame on the air.                       *)
LEMMA OneClose ==
  ASSUME LoopType, InOrder, InPhase, DetectorReset
  PROVE  InOrder' /\ InPhase'
<1>1. Idle /\ NoSegments
  <2>1. ~OnAir
    BY DEF DetectorReset, OnAir
  <2> QED  BY <2>1, TrackingOrIdle DEF Idle
<1>2. /\ UNCHANGED <<given, nextFrame, gateVars, syncIn, csVars, deintVars, symbols, ctlVars,
                     nibbles, syncMsgs, setNq, setSFq, setCRq, histVars>>
      /\ "sync.reset" \in pending => "sync.reset" \in pending'
      /\ "detector.reset" \notin pending'
  BY DEF DetectorReset
<1>3. Idle'
  BY <1>1, <1>2 DEF Idle, NoSegments, gateVars, csVars, ctlVars, Leftover
<1>4. InOrder'
  BY <1>2 DEF InOrder, histVars
<1> QED  BY <1>3, <1>4 DEF InPhase

(* The windows hold their frames: a new one is long enough or cuts its     *)
(* frame, and the controller's reset comes when its frame is left.         *)
LEMMA WindowsStep ==
  ASSUME LoopType, InPhase, Windows, [Next]_vars, ~cut'
  PROVE  Windows'
<1>1. UNCHANGED given /\ nextFrame \in Nat
  BY GivenUnchanged, Sizes DEF LoopType, DetectorType
<1>2. ASSUME UNCHANGED <<nextFrame, avail>> PROVE Windows'
  BY <1>1, <1>2, SymbolsOfSame DEF Windows
<1>3. CASE Detect
  <2>1. /\ avail' = [avail EXCEPT ![nextFrame] = scenario.window] /\ nextFrame' = nextFrame + 1
        /\ ~(scenario.window < SymbolsOf(nextFrame))
    BY <1>3 DEF Detect
  <2>2. nextFrame \in Frames /\ scenario.window \in Nat
    BY <1>3, DetectedFrame
  <2>3. avail \in [Frames -> Nat]
    BY DEF LoopType, DetectorType
  <2>4. ASSUME NEW f \in 1..nextFrame PROVE avail'[f] >= SymbolsOf(f)
    <3>1. CASE f = nextFrame
      BY <2>1, <2>2, <2>3, <3>1, SymbolsOfType
    <3>2. CASE f # nextFrame
      <4>1. f \in 1..(nextFrame - 1) /\ avail'[f] = avail[f]
        BY <1>1, <2>1, <2>3, <3>2 DEF Frames
      <4> QED  BY <4>1 DEF Windows
    <3> QED  BY <3>1, <3>2
  <2>5. nextFrame' - 1 = nextFrame
    BY <1>1, <2>1
  <2> QED  BY <1>1, <2>4, <2>5, SymbolsOfSame DEF Windows
<1>4. CASE DetectorReset
  <2>1. Idle /\ "detector.reset" \in pending
    <3>1. ~OnAir /\ "detector.reset" \in pending
      BY <1>4 DEF DetectorReset, OnAir
    <3> QED  BY <3>1, TrackingOrIdle
  <2>2. Left(nextFrame - 1)
    BY <2>1 DEF Idle, Left, Now
  <2>3. UNCHANGED <<nextFrame, avail>>
    BY <1>4, <2>2 DEF DetectorReset
  <2> QED  BY <1>2, <2>3
<1>5. CASE ~Detect /\ ~DetectorReset
  <2>1. UNCHANGED <<nextFrame, avail>>
    BY <1>5 DEF Next, vars, detVars, Detector, Timeout, PowerDrops, FFTMax,
       FFTMaxMessages, FFTMaxWork, Correlation, CorrelationMessages, CorrelationWork,
       CorrelationSync, SyncMessages, Search, ConsumePreamble, Produce, Deinterleave,
       DeintMessages, DeintWork, Controller, HandleSync, DropNibble, ReadHeader, SendPayload
  <2> QED  BY <1>2, <2>1
<1> QED  BY <1>3, <1>4, <1>5

(* The segment on the air goes through the gates.                          *)
LEMMA SegmentMoves ==
  ASSUME SegmentWaits, FFTMaxWork \/ CorrelationWork, Now' = Now
  PROVE  SegmentWaits'
<1>1. PICK lit \in BOOLEAN :
        LET s == <<[frame |-> Now, lit |-> lit]>>
        IN  \/ fftIn = s /\ corrIn = <<>> /\ syncIn = <<>>
            \/ fftIn = <<>> /\ corrIn = s /\ syncIn = <<>>
            \/ fftIn = <<>> /\ corrIn = <<>> /\ syncIn = s
  BY DEF SegmentWaits
<1> DEFINE on(b) == [frame |-> Now, lit |-> lit /\ b]
<1>2. CASE FFTMaxWork
  <2>1. fftIn = <<[frame |-> Now, lit |-> lit]>> /\ corrIn = <<>> /\ syncIn = <<>>
    BY <1>1, <1>2 DEF FFTMaxWork
  <2>2. [Head(fftIn) EXCEPT !.lit = @ /\ fftEnabled] = on(fftEnabled)
    BY <2>1
  <2>3. fftIn' = <<>> /\ corrIn' = <<on(fftEnabled)>> /\ syncIn' = <<>>
    BY <1>2, <2>1, <2>2 DEF FFTMaxWork
  <2> QED  BY <2>3 DEF SegmentWaits
<1>3. CASE CorrelationWork
  <2>1. fftIn = <<>> /\ corrIn = <<[frame |-> Now, lit |-> lit]>> /\ syncIn = <<>>
    BY <1>1, <1>3 DEF CorrelationWork
  <2>2. [Head(corrIn) EXCEPT !.lit = @ /\ corrEnabled] = on(corrEnabled)
    BY <2>1
  <2>3. fftIn' = <<>> /\ corrIn' = <<>> /\ syncIn' = <<on(corrEnabled)>>
    BY <1>3, <2>1, <2>2 DEF CorrelationWork
  <2> QED  BY <2>3 DEF SegmentWaits
<1> QED  BY <1>2, <1>3

LEMMA OneGateWork ==
  ASSUME LoopType, InOrder, InPhase, FFTMaxWork \/ CorrelationWork
  PROVE  InOrder' /\ InPhase'
<1>1. ~NoSegments
  BY DEF FFTMaxWork, CorrelationWork, NoSegments
<1>2. Idle /\ SegmentWaits /\ OnAir
  BY <1>1, TrackingOrIdle DEF Idle
<1>3. /\ UNCHANGED <<given, detVars, csVars, deintVars, symbols, ctlVars, nibbles, msgVars, histVars>>
  BY DEF FFTMaxWork, CorrelationWork
<1>4. OnAir' /\ Now' = Now
  BY <1>2, <1>3 DEF OnAir, Now, detVars, msgVars, histVars
<1>5. SegmentWaits'
  BY <1>2, <1>4, SegmentMoves
<1>6. Idle'
  BY <1>2, <1>3, <1>4, <1>5 DEF Idle, OnAir, csVars, ctlVars, msgVars, Leftover
<1>7. InOrder'
  BY <1>3 DEF InOrder, detVars, histVars
<1> QED  BY <1>6, <1>7 DEF InPhase

(* A reset finds the synchroniser off the frame on the air, a request is   *)
(* the one the phase expects.                                              *)
LEMMA OneSyncMessages ==
  ASSUME LoopType, InOrder, InPhase, SyncMessages
  PROVE  InOrder' /\ InPhase'
<1>1. UNCHANGED <<given, detVars, gateVars, syncIn, preambleConsumed, curFrame, pos, deintVars,
                  symbols, ctlVars, nibbles, syncMsgs, setSFq, setCRq, histVars>>
  BY DEF SyncMessages
<1>2. /\ setNq' = <<>>
      /\ nOutputItemsToProduce' = IF setNq = <<>> THEN nOutputItemsToProduce ELSE Last(setNq)
      /\ syncd' <=> syncd /\ "sync.reset" \notin pending
      /\ "sync.reset" \notin pending'
      /\ "detector.reset" \in pending' <=> "detector.reset" \in pending
      /\ "sync.reset" \notin pending => setNq # <<>>
  BY DEF SyncMessages, SyncDrained, Drained
<1>3. InOrder' /\ Now' = Now
  BY <1>1 DEF InOrder, Now, detVars, histVars
<1>4. CASE Idle
  <2>1. OnAir => OnAir'
    BY <1>1, <1>2 DEF OnAir, Now, detVars, histVars
  <2>2. (NoSegments => NoSegments') /\ (SegmentWaits => SegmentWaits') /\ (Leftover => Leftover')
    BY <1>1, <1>3 DEF NoSegments, SegmentWaits, Leftover, gateVars
  <2>3. ~syncd' /\ ("detector.reset" \in pending' => curFrame' = Now')
    BY <1>1, <1>2, <1>3, <1>4 DEF Idle
  <2>4. Idle'
    BY <1>1, <1>2, <1>4, <2>1, <2>2, <2>3 DEF Idle, ctlVars
  <2> QED  BY <1>3, <2>4 DEF InPhase
<1>5. CASE ~Idle
  <2>1. Tracking
    BY <1>5, TrackingOrIdle
  <2>2. Tracking'
    <3>1. syncd /\ "sync.reset" \notin pending /\ syncd'
      BY <1>2, <2>1 DEF Tracking
    <3>2. syncd' = syncd
      <4>1. syncd \in BOOLEAN /\ syncd' = (syncd /\ "sync.reset" \notin pending)
        BY DEF LoopType, SyncType, SyncMessages
      <4> QED  BY <3>1, <4>1
    <3> QED
      BY <1>1, <1>2, <2>1, <3>1, <3>2, TrackingKept DEF detVars, Tracking, OnAir, gateVars, histVars
  <2>3. setNq # <<>>
    BY <1>2, <2>1 DEF Tracking
  <2>4. \A n : WillReach(n) => WillReach(n)'
    BY <1>1, <1>2, <2>3 DEF WillReach, Last
  <2>5. CASE Announced
    BY <2>3, <2>5 DEF Announced
  <2>6. CASE ReadsHeader
    <3>1. (HeaderBlockComes => HeaderBlockComes') /\ (HeaderBlockThere => HeaderBlockThere')
      BY <1>1, <1>3 DEF HeaderBlockComes, HeaderBlockThere, OldNibbles, SymbolsWait
    <3>2. ReadsHeader'
      BY <1>1, <2>2, <2>4, <2>6, <3>1
         DEF ReadsHeader, ctlVars, deintVars, ComingSF, ComingCodeLength
    <3> QED  BY <1>3, <3>2 DEF InPhase
  <2>7. CASE ReadsPayload
    <3>1. \A d : BlocksDecoded(d) => BlocksDecoded(d)'
      BY <1>1, <1>3 DEF BlocksDecoded, SymbolsWait, given
    <3>2. RC!PayloadNeed' = RC!PayloadNeed
      BY <1>1 DEF RC!PayloadNeed, ctlVars
    <3>3. SymbolsOf(Now)' = SymbolsOf(Now) /\ hdr'[Now'] = hdr[Now]
      BY <1>1, <1>3 DEF SymbolsOf, given
    <3>4. ReadsPayload'
      BY <1>1, <1>3, <2>2, <2>4, <2>7, <3>1, <3>2, <3>3
         DEF ReadsPayload, ctlVars, histVars, deintVars, ComingSF, ComingCodeLength
    <3> QED  BY <1>3, <3>4 DEF InPhase
  <2>8. CASE ReadsShort
    BY <2>3, <2>8 DEF ReadsShort
  <2>9. CASE Starves
    <3>1. pos \in Nat /\ pos' \in Nat /\ pos' >= pos /\ SymbolsOf(Now) \in Nat
      BY <1>1, <2>1, SymbolsOfType DEF LoopType, SyncType, Tracking, OnAir
    <3>2. ToCome' = ToCome /\ ComingCodeLength' = ComingCodeLength
      BY <1>1, <1>2, <2>3 DEF ToCome, ComingCodeLength, deintVars
    <3>3. \A i \in 1..Len(symbols') : symbols'[i] = Noise
      BY <1>1, <2>9 DEF Starves
    <3>4. Starves'
      BY <1>1, <2>2, <2>9, <3>1, <3>2, <3>3, StarvesKept DEF detVars
    <3> QED  BY <1>3, <3>4 DEF InPhase
  <2> QED  BY <1>5, <2>5, <2>6, <2>7, <2>8, <2>9 DEF InPhase
<1> QED  BY <1>4, <1>5

(* The synchroniser finds the frame on the air, or its segment blanked.    *)
LEMMA OneSearch ==
  ASSUME LoopType, InOrder, InPhase, Search
  PROVE  InOrder' /\ InPhase'
<1>1. ~NoSegments /\ ~syncd /\ "sync.reset" \notin pending
  BY DEF Search, NoSegments, SyncDrained, Drained
<1>2. Idle /\ SegmentWaits /\ OnAir
  BY <1>1, TrackingOrIdle DEF Idle
<1>3. /\ UNCHANGED <<given, detVars, gateVars, nOutputItemsToProduce, deintVars, symbols, ctlVars,
                     nibbles, setNq, setSFq, setCRq, histVars>>
      /\ syncIn' = Tail(syncIn) /\ pos' = 0
  BY DEF Search
<1>4. PICK lit \in BOOLEAN :
        fftIn = <<>> /\ corrIn = <<>> /\ syncIn = <<[frame |-> Now, lit |-> lit]>>
  BY <1>2 DEF SegmentWaits, Search
<1>5. NoSegments' /\ Now' = Now /\ Leftover'
  BY <1>2, <1>3, <1>4 DEF NoSegments, Now, gateVars, detVars, Idle, Leftover
<1>6. InOrder'
  BY <1>3 DEF InOrder, detVars, histVars
<1>7. CASE Head(syncIn).lit
  <2>1. syncd' = TRUE /\ curFrame' = Head(syncIn).frame /\ syncMsgs' = syncMsgs + 1
        /\ pending' = pending \cup {"corr.reset"}
    BY <1>7, Zenon DEF Search
  <2>2. syncd' /\ curFrame' = Now
    BY <1>4, <2>1
  <2>3. "sync.reset" \notin pending' /\ ("detector.reset" \in pending' <=> "detector.reset" \in pending)
    BY <1>1, <2>1
  <2>4. OnAir'
    BY <1>2, <1>3, <1>5, <2>3 DEF OnAir, detVars, histVars
  <2>5. Announced'
    BY <1>2, <1>3, <1>5, <2>1, <2>2, <2>3, <2>4 DEF Announced, Tracking, Idle, ctlVars
  <2> QED  BY <1>6, <2>5 DEF InPhase
<1>8. CASE ~Head(syncIn).lit
  <2>1. UNCHANGED <<syncd, syncMsgs, pending>>
    BY <1>8, Zenon DEF Search
  <2>2. Idle'
    BY <1>1, <1>2, <1>3, <1>5, <2>1 DEF Idle, OnAir, ctlVars
  <2> QED  BY <1>6, <2>2 DEF InPhase
<1> QED  BY <1>7, <1>8

(* Steps the phases do not notice.                                         *)
LEMMA OneKept ==
  ASSUME LoopType, InOrder, InPhase,
         \/ Timeout \/ PowerDrops \/ FFTMaxMessages \/ CorrelationMessages
         \/ ConsumePreamble \/ DeintMessages \/ UNCHANGED vars
  PROVE  InOrder' /\ InPhase'
<1>1. UNCHANGED <<given, nextFrame, fftIn, corrIn, syncIn, syncd, nOutputItemsToProduce, curFrame,
                  pos, symbols, ctlVars, nibbles, syncMsgs, setNq, histVars>>
  BY DEF Timeout, PowerDrops, FFTMaxMessages, CorrelationMessages, ConsumePreamble, DeintMessages,
         vars, gateVars, csVars, msgVars, detVars
<1>2. /\ "detector.reset" \in pending' <=> "detector.reset" \in pending
      /\ "sync.reset" \in pending' <=> "sync.reset" \in pending
  BY DEF Timeout, PowerDrops, FFTMaxMessages, CorrelationMessages, GateMessages, ConsumePreamble,
         DeintMessages, vars, msgVars
<1>3. ComingSF' = ComingSF /\ ComingCodeLength' = ComingCodeLength
  BY DEF Timeout, PowerDrops, FFTMaxMessages, CorrelationMessages, ConsumePreamble, DeintMessages,
         vars, deintVars, msgVars, ComingSF, ComingCodeLength
<1> QED  BY <1>1, <1>2, <1>3, PhaseKept

(* The synchroniser adds symbols of the frame on the air, up to its last:  *)
(* noise it has to produce only when it starves.                           *)
NextSymbols(n) == [k \in 1..n |-> <<curFrame, pos + k>>]

LEMMA FrameSymbols ==
  ASSUME LoopType, NEW n \in Nat, Produce(n), Tracking, pos + n <= SymbolsOf(Now)
  PROVE  symbols' = symbols \o NextSymbols(n)
<1>1. pos \in Nat /\ curFrame = Now /\ SymbolsOf(Now) \in Nat
  BY SymbolsOfType DEF LoopType, SyncType, Tracking, OnAir
<1>2. \A k \in 1..n : pos + k <= SymbolsOf(curFrame)
  BY <1>1
<1>3. [k \in 1..n |-> IF pos + k <= SymbolsOf(curFrame) THEN <<curFrame, pos + k>> ELSE Noise]
        = NextSymbols(n)
  BY <1>2, Zenon DEF NextSymbols
<1> QED  BY <1>3 DEF Produce

LEMMA NoiseProduced ==
  ASSUME LoopType, NEW n \in 1..nOutputItemsToProduce, Produce(n), Starves
  PROVE  /\ Len(symbols') = Len(symbols) + n
         /\ \A i \in 1..Len(symbols') : symbols'[i] = Noise
<1> DEFINE t == [k \in 1..n |-> Noise]
<1>1. pos \in Nat /\ n \in Nat /\ curFrame = Now /\ SymbolsOf(Now) \in Nat
      /\ symbols \in Seq(Symbol)
  BY SymbolsOfType DEF LoopType, SyncType, SymbolsType, Starves, Tracking, OnAir
<1>2. \A k \in 1..n : ~(pos + k <= SymbolsOf(curFrame))
  BY <1>1 DEF Starves
<1>3. [k \in 1..n |-> IF pos + k <= SymbolsOf(curFrame) THEN <<curFrame, pos + k>> ELSE Noise] = t
  BY <1>2, Zenon
<1>4. symbols' = symbols \o t
  BY <1>3, Zenon DEF Produce
<1>5. t \in [1..n -> Symbol] /\ \A k \in 1..n : t[k] = Noise
  BY Sizes DEF Noise, Symbol
<1>6. t \in Seq(Symbol) /\ Len(t) = n
  BY <1>1, <1>5, FunctionIsSeq
<1> HIDE DEF t
<1>7. /\ Len(symbols \o t) = Len(symbols) + Len(t)
      /\ \A i \in 1..Len(symbols) : (symbols \o t)[i] = symbols[i]
      /\ \A i \in 1..Len(t) : (symbols \o t)[Len(symbols) + i] = t[i]
  <2>1. symbols \in Seq(Symbol) /\ t \in Seq(Symbol)
    BY <1>1, <1>6
  <2> QED  BY <2>1, ConcatAt
<1>8. ASSUME NEW i \in 1..Len(symbols') PROVE symbols'[i] = Noise
  <2>1. CASE i <= Len(symbols)
    BY <1>1, <1>4, <1>7, <2>1 DEF Starves
  <2>2. CASE i > Len(symbols)
    <3>1. i - Len(symbols) \in 1..n /\ i = Len(symbols) + (i - Len(symbols))
      BY <1>1, <1>4, <1>6, <1>7, <2>2
    <3> QED  BY <1>4, <1>5, <1>6, <1>7, <3>1
  <2> QED  BY <1>1, <2>1, <2>2
<1> QED  BY <1>4, <1>6, <1>7, <1>8

LEMMA NextSymbolsAre ==
  ASSUME LoopType, Tracking, NEW n \in Nat
  PROVE  /\ NextSymbols(n) \in Seq(Symbol) /\ Len(NextSymbols(n)) = n
         /\ \A i \in 1..n : NextSymbols(n)[i] = <<Now, pos + i>>
<1>1. pos \in Nat /\ curFrame = Now /\ Now \in 0..NFrames
  BY DEF LoopType, SyncType, Tracking
<1>2. NextSymbols(n) \in [1..n -> Symbol]
  BY <1>1 DEF Symbol, NextSymbols
<1> QED  BY <1>1, <1>2, FunctionIsSeq DEF NextSymbols

LEMMA SymbolsGrow ==
  ASSUME LoopType, Tracking, NEW k \in Nat, SymbolsWait(k), NEW n \in Nat
  PROVE  LET s == symbols \o NextSymbols(n)
         IN  Len(s) = k + n /\ \A i \in 1..(k + n) : s[i] = <<Now, (pos - k) + i>>
<1> DEFINE t == NextSymbols(n)
           s == symbols \o t
<1>0. t \in Seq(Symbol) /\ Len(t) = n /\ \A i \in 1..n : t[i] = <<Now, pos + i>>
  BY NextSymbolsAre
<1> HIDE DEF t
<1>1. pos \in Nat /\ k <= pos /\ Len(symbols) = k /\ symbols \in Seq(Symbol)
      /\ (\A i \in 1..k : symbols[i] = <<Now, (pos - k) + i>>)
  BY DEF LoopType, SyncType, SymbolsType, SymbolsWait
<1>2. Len(s) = k + n /\ (\A i \in 1..k : s[i] = symbols[i])
      /\ (\A i \in 1..n : s[k + i] = <<Now, pos + i>>)
  <2>0. t \in Seq(Symbol) /\ symbols \in Seq(Symbol)
    BY <1>0, <1>1
  <2>1. /\ Len(s) = Len(symbols) + Len(t)
        /\ \A i \in 1..Len(symbols) : s[i] = symbols[i]
        /\ \A i \in 1..Len(t) : s[Len(symbols) + i] = t[i]
    BY <2>0, ConcatAt
  <2> QED  BY <1>0, <1>1, <2>1
<1> HIDE DEF s
<1>3. ASSUME NEW i \in 1..(k + n) PROVE s[i] = <<Now, (pos - k) + i>>
  <2>1. CASE i <= k
    BY <1>1, <1>2, <2>1
  <2>2. CASE i > k
    <3>1. i - k \in 1..n /\ i = k + (i - k) /\ pos + (i - k) = (pos - k) + i
      BY <1>1, <2>2
    <3> QED  BY <1>2, <3>1
  <2> QED  BY <2>1, <2>2
<1> QED  BY <1>2, <1>3 DEF s, t

LEMMA OneProduce ==
  ASSUME LoopType, InOrder, InPhase, NEW n \in 1..nOutputItemsToProduce, Produce(n)
  PROVE  InOrder' /\ InPhase'
<1>1. n \in Nat /\ n > 0 /\ pos \in Nat /\ nOutputItemsToProduce \in Nat
      /\ nOutputItemsToProduce >= n /\ nOutputItemsToProduce # 0
  BY DEF LoopType, SyncType
<1>2. UNCHANGED <<given, detVars, gateVars, syncIn, syncd, preambleConsumed, curFrame,
                  deintVars, ctlVars, nibbles, msgVars, histVars>>
      /\ nOutputItemsToProduce' = nOutputItemsToProduce - n /\ pos' = pos + n
  BY DEF Produce
<1>3. ~Idle /\ ~Announced /\ Tracking
  BY <1>1, TrackingOrIdle DEF Idle, Announced
<1>4. InOrder' /\ Now' = Now
  BY <1>2 DEF InOrder, Now, detVars, histVars
<1>5. Tracking'
  BY <1>2, <1>3, TrackingKept DEF detVars, Tracking, OnAir, gateVars, msgVars, histVars
<1>6. CASE ReadsHeader
  <2>1. setNq = <<>> /\ pos + nOutputItemsToProduce = 8
    BY <1>1, <1>6 DEF ReadsHeader, WillReach
  <2>2. HeaderBlockComes
    BY <1>1, <1>6, <2>1 DEF ReadsHeader, HeaderBlockThere
  <2>3. pos' = pos + n /\ symbols' = symbols \o NextSymbols(n)
    <3>1. SymbolsOf(Now) >= 8 /\ SymbolsOf(Now) \in Nat
      BY <1>3, SymbolsOfType DEF Tracking, OnAir
    <3>2. pos + n <= SymbolsOf(Now)
      BY <1>1, <2>1, <3>1
    <3> QED  BY <1>1, <1>2, <1>3, <3>2, FrameSymbols
  <2>4. SymbolsWait(pos)'
    <3>1. Len(symbols') = pos + n /\ \A i \in 1..(pos + n) : symbols'[i] = <<Now, (pos - pos) + i>>
      BY <1>1, <1>3, <2>2, <2>3, SymbolsGrow DEF HeaderBlockComes
    <3>2. pos' \in Nat /\ pos' = pos + n /\ pos' - pos' = pos - pos
      BY <1>1, <2>3
    <3>3. Len(symbols') = pos' /\ \A i \in 1..pos' : symbols'[i] = <<Now', (pos' - pos') + i>>
      BY <1>4, <3>1, <3>2
    <3> QED  BY <3>2, <3>3 DEF SymbolsWait
  <2>5. HeaderBlockComes'
    BY <1>2, <2>2, <2>3, <2>4 DEF HeaderBlockComes, OldNibbles, SymbolsWait, HeaderRows
  <2>6. WillReach(8)'
    BY <1>1, <1>2, <2>1, <2>3 DEF WillReach, msgVars
  <2>7. ReadsHeader'
    BY <1>2, <1>5, <1>6, <2>5, <2>6
       DEF ReadsHeader, ctlVars, msgVars, deintVars, ComingSF, ComingCodeLength, HeaderRows
  <2> QED  BY <1>4, <2>7 DEF InPhase
<1>7. CASE ReadsPayload
  <2> DEFINE c == hdr[Now].CR + 4
  <2>1. setNq = <<>> /\ pos + nOutputItemsToProduce = SymbolsOf(Now)
    BY <1>1, <1>7 DEF ReadsPayload, WillReach
  <2>2. PICK d \in 0..BlocksOf(hdr[Now]) : BlocksDecoded(d)
    BY <1>7 DEF ReadsPayload
  <2>3. pos' = pos + n /\ symbols' = symbols \o NextSymbols(n)
    <3>1. pos + n <= SymbolsOf(Now)
      BY <1>1, <2>1
    <3> QED  BY <1>1, <1>2, <1>3, <3>1, FrameSymbols
  <2>4. c \in Nat /\ BlocksOf(hdr[Now]) \in Nat
    <3>1. hdr[Now] \in scenario.headers /\ scenario \in Scenarios
      BY <1>3 DEF Tracking, OnAir, LoopType
    <3> QED  BY <3>1, BlocksOfType, HeaderOf
  <2>5. d * c \in Nat /\ pos - (8 + d * c) \in Nat
    <3>1. pos >= 8 + d * c
      BY <2>2 DEF BlocksDecoded
    <3>2. d \in Nat
      BY <2>4
    <3> DEFINE x == d * c
    <3>3. x \in Nat
      BY <2>4, <3>2, TimesNext
    <3> HIDE DEF x, c
    <3>4. pos - (8 + x) \in Nat
      BY <1>1, <3>1, <3>3 DEF x
    <3> QED  BY <3>3, <3>4 DEF x
  <2>6. PICK k \in Nat : k = pos - (8 + d * c)
    BY <2>5
  <2>7. /\ Len(symbols') = k + n /\ \A i \in 1..(k + n) : symbols'[i] = <<Now, (pos - k) + i>>
        /\ k + n = pos' - (8 + d * c) /\ pos' >= 8 + d * c /\ k + n <= pos'
        /\ pos' - (k + n) = pos - k
    <3>1. SymbolsWait(k)
      BY <2>2, <2>6 DEF BlocksDecoded
    <3>2. Len(symbols') = k + n /\ \A i \in 1..(k + n) : symbols'[i] = <<Now, (pos - k) + i>>
      BY <1>1, <1>3, <2>3, <3>1, SymbolsGrow
    <3>3. pos' = pos + n
      BY <2>3
    <3> DEFINE x == d * c
    <3>4. x \in Nat /\ k = pos - (8 + x)
      BY <2>5, <2>6
    <3> HIDE DEF x
    <3>5. /\ k + n = pos' - (8 + x) /\ pos' >= 8 + x /\ k + n <= pos'
          /\ pos' - (k + n) = pos - k
      BY <1>1, <3>3, <3>4
    <3> QED  BY <3>2, <3>5 DEF x
  <2>8. hdr'[Now'] = hdr[Now]
    BY <1>2, <1>4 DEF given
  <2>9. BlocksDecoded(d)'
    <3>1. SymbolsWait(k + n)'
      BY <1>4, <2>7 DEF SymbolsWait
    <3>2. SymbolsWait(pos - (8 + d * c))'
      BY <2>7, <2>8, <3>1
    <3> QED  BY <1>2, <1>4, <2>2, <2>7, <2>8, <3>2 DEF BlocksDecoded
  <2>10. SymbolsOf(Now)' = SymbolsOf(Now)
    BY <1>4, <2>8 DEF SymbolsOf
  <2>11. WillReach(SymbolsOf(Now))'
    BY <1>1, <1>2, <2>1, <2>3, <2>10 DEF WillReach, msgVars
  <2>12. RC!PayloadNeed' = RC!PayloadNeed
    BY <1>2 DEF RC!PayloadNeed, ctlVars
  <2>13. ReadsPayload'
    BY <1>2, <1>4, <1>5, <1>7, <2>8, <2>9, <2>11, <2>12
       DEF ReadsPayload, ctlVars, histVars, msgVars, deintVars, ComingSF, ComingCodeLength
  <2> QED  BY <1>4, <2>13 DEF InPhase
<1>8. CASE ReadsShort
  BY <1>1, <1>8 DEF ReadsShort
<1>9. CASE Starves
  <2>1. pos' \in Nat /\ pos' >= pos /\ SymbolsOf(Now) \in Nat
    BY <1>1, <1>2, <1>3, SymbolsOfType DEF Tracking, OnAir
  <2>2. Len(symbols') = Len(symbols) + n /\ \A i \in 1..Len(symbols') : symbols'[i] = Noise
    BY <1>9, NoiseProduced
  <2>3. Len(symbols') + ToCome' = Len(symbols) + ToCome
    <3>1. setNq' = setNq /\ Len(symbols) \in Nat
      BY <1>2 DEF msgVars, LoopType, SymbolsType
    <3>2. CASE setNq = <<>>
      BY <1>1, <1>2, <2>2, <3>1, <3>2 DEF ToCome
    <3> QED  BY <3>2 DEF Produce, SyncDrained
  <2>4. Starves'
    BY <1>1, <1>2, <1>5, <1>9, <2>1, <2>2, <2>3, StarvesKept
       DEF detVars, msgVars, deintVars, ComingCodeLength
  <2> QED  BY <1>4, <2>4 DEF InPhase
<1> QED  BY <1>3, <1>6, <1>7, <1>8, <1>9 DEF InPhase

(* Where the symbols of a block start, and how many they are.              *)
BlockOffset(f, b) == IF b = 0 THEN 0 ELSE 8 + (b - 1) * (hdr[f].CR + 4)
BlockLength(f, b) == IF b = 0 THEN 8 ELSE hdr[f].CR + 4

LEMMA BlockSymbolsAre ==
  ASSUME LoopType, NEW f \in Frames, NEW b \in 0..BlocksOf(hdr[f])
  PROVE  /\ BlockOffset(f, b) \in Nat /\ BlockLength(f, b) \in Nat /\ BlockLength(f, b) > 0
         /\ BlockSymbols(f, b) \in Seq(Symbol) /\ Len(BlockSymbols(f, b)) = BlockLength(f, b)
         /\ \A k \in 1..BlockLength(f, b) :
              BlockSymbols(f, b)[k] = <<f, BlockOffset(f, b) + k>>
<1> DEFINE c == hdr[f].CR + 4
<1>1. c \in Nat /\ c > 0 /\ BlocksOf(hdr[f]) \in Nat /\ b \in Nat
  <2>1. hdr[f] \in scenario.headers /\ scenario \in Scenarios
    BY DEF LoopType
  <2> QED  BY <2>1, BlocksOfType, HeaderOf
<1>2. b # 0 => (b - 1) * c \in Nat
  BY <1>1
<1> HIDE DEF c
<1>3. BlockOffset(f, b) \in Nat /\ BlockLength(f, b) \in Nat /\ BlockLength(f, b) > 0
  BY <1>1, <1>2 DEF BlockOffset, BlockLength, c
<1>4. BlockSymbols(f, b) = [k \in 1..BlockLength(f, b) |-> <<f, BlockOffset(f, b) + k>>]
  <2>1. CASE b = 0
    BY <2>1 DEF BlockSymbols, BlockOffset, BlockLength
  <2>2. CASE b # 0
    BY <2>2, Zenon DEF BlockSymbols, BlockOffset, BlockLength
  <2> QED  BY <2>1, <2>2
<1>5. BlockSymbols(f, b) \in [1..BlockLength(f, b) -> Symbol]
  BY <1>3, <1>4, Sizes DEF Symbol, Frames
<1> QED  BY <1>3, <1>4, <1>5, FunctionIsSeq

(* Different blocks of a frame start at different symbols.                 *)
LEMMA BlockOffsetsDiffer ==
  ASSUME LoopType, NEW f \in Frames, NEW a \in 0..BlocksOf(hdr[f]),
         NEW b \in 0..BlocksOf(hdr[f]), BlockOffset(f, a) = BlockOffset(f, b)
  PROVE  a = b
<1> DEFINE c == hdr[f].CR + 4
<1>1. c \in Nat /\ c > 0 /\ BlocksOf(hdr[f]) \in Nat /\ a \in Nat /\ b \in Nat
  <2>1. hdr[f] \in scenario.headers /\ scenario \in Scenarios
    BY DEF LoopType
  <2> QED  BY <2>1, BlocksOfType, HeaderOf
<1> HIDE DEF c
<1>2. CASE a = 0 \/ b = 0
  <2>1. (a # 0 => BlockOffset(f, a) >= 8) /\ (b # 0 => BlockOffset(f, b) >= 8)
    <3>1. \A x \in Nat : x # 0 => (x - 1) * c \in Nat
      BY <1>1
    <3> QED  BY <1>1, <3>1 DEF BlockOffset, c
  <2> QED  BY <1>2, <2>1 DEF BlockOffset
<1>3. CASE a # 0 /\ b # 0
  <2>1. a - 1 \in Nat /\ b - 1 \in Nat /\ (a - 1) * c \in Nat /\ (b - 1) * c \in Nat
    BY <1>1, <1>3
  <2>2. (a - 1) * c = (b - 1) * c
    BY <1>3, <2>1 DEF BlockOffset, c
  <2>3. a - 1 = b - 1
    BY <1>1, <2>1, <2>2, TimesCancel
  <2> QED  BY <1>1, <2>3
<1> QED  BY <1>2, <1>3

(* Deinterleaved with the right SF and CR a block gives its own nibbles.   *)
LEMMA DecodedBlock ==
  ASSUME LoopType, NEW f \in Frames, NEW b \in 0..BlocksOf(hdr[f]), dSF = BlockRows(b),
         NEW block \in Seq(Symbol), Len(block) = BlockLength(f, b),
         \A k \in 1..Len(block) : block[k] = <<f, BlockOffset(f, b) + k>>
  PROVE  Decoded(block) = BlockNibbles(f, b)
<1>1. BlockSymbols(f, b) = block
  BY BlockSymbolsAre, SameSeq
<1>2. block[1][1] = f /\ f # 0 /\ block[1] = <<f, BlockOffset(f, b) + 1>>
  BY BlockSymbolsAre, Sizes DEF Frames
<1> DEFINE B == {a \in 0..BlocksOf(hdr[f]) : BlockSymbols(f, a) = block /\ BlockRows(a) = dSF}
<1>3. b \in B
  BY <1>1
<1>4. ASSUME NEW a \in B PROVE a = b
  <2>1. BlockLength(f, a) > 0 /\ BlockLength(f, a) \in Nat
        /\ BlockSymbols(f, a)[1] = <<f, BlockOffset(f, a) + 1>>
    BY BlockSymbolsAre
  <2>2. BlockOffset(f, a) = BlockOffset(f, b)
    BY <1>2, <2>1, BlockSymbolsAre
  <2> QED  BY <2>2, BlockOffsetsDiffer
<1>5. (CHOOSE a \in B : TRUE) = b
  BY <1>3, <1>4
<1>6. Decoded(block) = BlockNibbles(f, CHOOSE a \in B : TRUE)
  BY <1>2, <1>3 DEF Decoded
<1> QED  BY <1>5, <1>6

(* The deinterleaver works on the block the phase is about: the header     *)
(* block, or the next one behind it.                                       *)
LEMMA DeintTakes ==
  ASSUME LoopType, DeintWork, NEW f \in Frames, NEW b \in 0..BlocksOf(hdr[f]),
         dSF = BlockRows(b), codeLength = BlockLength(f, b),
         Now = f, SymbolsWait(Len(symbols)), pos - Len(symbols) = BlockOffset(f, b)
  PROVE  /\ Len(nibbles') = Len(nibbles) + BlockRows(b)
         /\ \A i \in 1..Len(nibbles) : nibbles'[i] = nibbles[i]
         /\ \A i \in 1..BlockRows(b) : nibbles'[Len(nibbles) + i] = <<f, b, i>>
         /\ Len(symbols') = Len(symbols) - codeLength
         /\ \A i \in 1..Len(symbols') :
              symbols'[i] = <<f, (pos - Len(symbols) + codeLength) + i>>
<1> DEFINE block == SubSeq(symbols, 1, codeLength)
<1>1. symbols \in Seq(Symbol) /\ nibbles \in Seq(Nibble) /\ codeLength \in 0..Len(symbols)
      /\ codeLength > 0 /\ pos \in Nat
  <2>1. symbols \in Seq(Symbol) /\ nibbles \in Seq(Nibble) /\ codeLength \in 4..11 /\ pos \in Nat
    BY DEF LoopType, SymbolsType, SyncType, ChainType
  <2>2. Len(symbols) >= codeLength
    BY DEF DeintWork
  <2> QED  BY <2>1, <2>2
<1>2. \A i \in 1..Len(symbols) : symbols[i] = <<f, BlockOffset(f, b) + i>>
  BY DEF SymbolsWait
<1>3. block \in Seq(Symbol) /\ Len(block) = codeLength
      /\ \A i \in 1..codeLength : block[i] = symbols[i]
  BY <1>1, TakeFirst
<1> HIDE DEF block
<1>4. \A i \in 1..codeLength : block[i] = <<f, BlockOffset(f, b) + i>>
  <2> TAKE i \in 1..codeLength
  <2>1. i \in 1..Len(symbols)
    BY <1>1
  <2> QED  BY <1>2, <1>3, <2>1
<1>5. Decoded(block) = BlockNibbles(f, b)
  BY <1>3, <1>4, DecodedBlock
<1>6. Decoded(block) \in Seq(Nibble) /\ Len(Decoded(block)) = dSF /\ dSF \in 1..SF
  BY <1>1, <1>3, DecodedType
<1>7. nibbles' = nibbles \o Decoded(block)
      /\ symbols' = SubSeq(symbols, codeLength + 1, Len(symbols))
  BY DEF DeintWork, block
<1>8. /\ Len(nibbles') = Len(nibbles) + dSF
      /\ \A i \in 1..Len(nibbles) : nibbles'[i] = nibbles[i]
      /\ \A i \in 1..dSF : nibbles'[Len(nibbles) + i] = Decoded(block)[i]
  <2> DEFINE d == Decoded(block)
  <2>1. d \in Seq(Nibble) /\ nibbles \in Seq(Nibble) /\ nibbles' = nibbles \o d
    BY <1>1, <1>6, <1>7
  <2>2. Len(d) = dSF
    BY <1>6
  <2> HIDE DEF d
  <2>3. /\ Len(nibbles') = Len(nibbles) + Len(d)
        /\ \A i \in 1..Len(nibbles) : nibbles'[i] = nibbles[i]
        /\ \A i \in 1..Len(d) : nibbles'[Len(nibbles) + i] = d[i]
    BY <2>1, ConcatAt
  <2> QED  BY <2>2, <2>3 DEF d
<1>9. \A i \in 1..BlockRows(b) : BlockNibbles(f, b)[i] = <<f, b, i>>
  BY DEF BlockNibbles
<1>10. Len(symbols') = Len(symbols) - codeLength
       /\ \A i \in 1..Len(symbols') : symbols'[i] = symbols[codeLength + i]
  BY <1>1, <1>7, DropFirst
<1>11. \A i \in 1..Len(symbols') : symbols'[i] = <<f, (BlockOffset(f, b) + codeLength) + i>>
  <2> TAKE i \in 1..Len(symbols')
  <2>1. codeLength + i \in 1..Len(symbols)
    BY <1>1, <1>10
  <2>2. BlockOffset(f, b) + (codeLength + i) = (BlockOffset(f, b) + codeLength) + i
    BY <1>1, BlockSymbolsAre
  <2> QED  BY <1>2, <1>10, <2>1, <2>2
<1>12. \A i \in 1..BlockRows(b) : nibbles'[Len(nibbles) + i] = <<f, b, i>>
  BY <1>5, <1>8, <1>9
<1> QED  BY <1>8, <1>10, <1>11, <1>12

(* The header block.                                                       *)
LEMMA DeintHeaderBlock ==
  ASSUME LoopType, InOrder, ReadsHeader, DeintWork
  PROVE  ReadsHeader'
<1>1. UNCHANGED <<given, detVars, gateVars, syncIn, csVars, deintVars, ctlVars, msgVars, histVars>>
      /\ setSFq = <<>> /\ setCRq = <<>> /\ Len(symbols) >= codeLength
  BY DEF DeintWork
<1>2. dSF = HeaderRows /\ codeLength = 8 /\ Tracking
  BY <1>1 DEF ReadsHeader, ComingSF, ComingCodeLength
<1>3. Now \in Frames /\ BlocksOf(hdr[Now]) \in Nat /\ pos \in Nat
      /\ nOutputItemsToProduce \in Nat /\ symbols \in Seq(Symbol) /\ nibbles \in Seq(Nibble)
  <2>1. hdr[Now] \in scenario.headers /\ scenario \in Scenarios /\ Now \in Frames
    BY <1>2 DEF Tracking, OnAir, LoopType
  <2> QED  BY <2>1, BlocksOfType DEF LoopType, SyncType, SymbolsType, ChainType
<1>4. HeaderBlockComes
  <2>1. symbols # <<>>
    BY <1>1, <1>2, <1>3
  <2> QED  BY <2>1 DEF ReadsHeader, HeaderBlockThere
<1>5. setNq = <<>> /\ pos + nOutputItemsToProduce = 8 /\ pos = 8 /\ Len(symbols) = 8
      /\ SymbolsWait(Len(symbols))
  BY <1>1, <1>2, <1>3, <1>4 DEF ReadsHeader, WillReach, HeaderBlockComes, SymbolsWait
<1>6. 0 \in 0..BlocksOf(hdr[Now]) /\ BlockRows(0) = HeaderRows /\ BlockLength(Now, 0) = 8
      /\ BlockOffset(Now, 0) = 0 /\ pos - Len(symbols) = 0
  BY <1>3, <1>5 DEF BlockRows, BlockLength, BlockOffset
<1>7. /\ Len(nibbles') = Len(nibbles) + HeaderRows
      /\ \A i \in 1..Len(nibbles) : nibbles'[i] = nibbles[i]
      /\ \A i \in 1..HeaderRows : nibbles'[Len(nibbles) + i] = <<Now, 0, i>>
      /\ Len(symbols') = 0
  BY <1>2, <1>3, <1>5, <1>6, DeintTakes
<1>8. symbols' = <<>>
  <2>1. symbols' \in Seq(Symbol)
    BY LoopTypeStep DEF LoopType, SymbolsType, Next, Deinterleave
  <2> QED  BY <1>7, <2>1
<1>9. Now' = Now
  BY <1>1 DEF Now, detVars
<1>10. HeaderBlockThere'
  <2>1. nibbles' \in Seq(Nibble) /\ Len(nibbles) \in 0..Len(nibbles')
    <3>1. nibbles' \in Seq(Nibble)
      BY DeintWorkArrives
    <3>2. Len(nibbles) \in Nat /\ Len(nibbles') = Len(nibbles) + HeaderRows
      BY <1>3, <1>7
    <3> QED  BY <3>1, <3>2, Sizes
  <2>2. \A i \in 1..Len(nibbles) : ~StartsBlock(nibbles'[i])
    BY <1>4, <1>7 DEF HeaderBlockComes, OldNibbles
  <2>3. Len(nibbles) < HeaderRows
    BY <1>4 DEF HeaderBlockComes, OldNibbles
  <2> QED
    BY <1>1, <1>5, <1>7, <1>8, <1>9, <2>1, <2>2, <2>3
       DEF HeaderBlockThere, OldNibbles, csVars, StartsBlock, HeaderRows
<1>11. Tracking'
  BY <1>1, <1>2, TrackingKept DEF detVars, Tracking, OnAir, csVars, gateVars, msgVars, histVars
<1>12. WillReach(8)'
  BY <1>1, <1>5 DEF WillReach, csVars, msgVars
<1> QED
  BY <1>1, <1>10, <1>11, <1>12
     DEF ReadsHeader, ctlVars, msgVars, deintVars, ComingSF, ComingCodeLength, HeaderRows

(* Nibble i of block d + 1 is number (SF - 7) + d * PayloadRows + i of the *)
(* body.                                                                   *)
LEMMA BodyNibbleOf ==
  ASSUME NEW f, NEW d \in Nat, NEW i \in 1..PayloadRows
  PROVE  BodyNibble(f, ((SF - 7) + d * PayloadRows) + i) = <<f, d + 1, i>>
<1> DEFINE x == d * PayloadRows
           n == ((SF - 7) + x) + i
           j == n - (SF - 7) - 1
<1>1. x \in Nat /\ i - 1 \in 0..(PayloadRows - 1)
  BY Sizes
<1> HIDE DEF x
<1>2. j = x + (i - 1) /\ ~(n <= SF - 7)
  BY <1>1, Sizes
<1> HIDE DEF n
<1>3. (x + (i - 1)) \div PayloadRows = d /\ (x + (i - 1)) % PayloadRows = i - 1
  BY <1>1, Sizes, QuotientOf, RemainderOf DEF x
<1>4. BodyNibble(f, n) = <<f, 1 + (j \div PayloadRows), 1 + (j % PayloadRows)>>
  BY <1>2 DEF BodyNibble
<1>5. BodyNibble(f, n) = <<f, 1 + d, 1 + (i - 1)>>
  BY <1>2, <1>3, <1>4
<1> QED  BY <1>5 DEF n, x

LEMMA FrameSizes ==
  ASSUME LoopType, NEW f \in Frames
  PROVE  BlocksOf(hdr[f]) \in Nat /\ hdr[f].CR + 4 \in Nat /\ hdr[f].CR + 4 > 0
<1>1. hdr[f] \in scenario.headers /\ scenario \in Scenarios
  BY DEF LoopType
<1> QED  BY <1>1, BlocksOfType, HeaderOf

(* When a block of c more symbols waits, block d + 1 of B is on the way.   *)
LEMMA NextBlock ==
  ASSUME NEW B \in Nat, NEW d \in 0..B, NEW c \in Nat, c > 0, NEW p \in Nat, NEW n \in Nat,
         p + n = 8 + B * c, NEW L \in Nat, L = p - (8 + d * c), L >= c
  PROVE  /\ d + 1 \in 0..B /\ p >= 8 + (d + 1) * c
         /\ L - c = p - (8 + (d + 1) * c) /\ L - c \in Nat
         /\ p - L = 8 + d * c /\ d * c \in Nat /\ (d + 1) * c \in Nat
<1> DEFINE x == d * c
           y == B * c
<1>1. d \in Nat /\ x \in Nat /\ (d + 1) * c = x + c /\ y \in Nat
  BY TimesNext
<1>2. p + n = 8 + y /\ L = p - (8 + x)
  OBVIOUS
<1> HIDE DEF x, y
<1>3. x + c <= y
  BY <1>1, <1>2
<1>4. d # B
  <2>1. ASSUME d = B PROVE FALSE
    <3>1. x = y
      BY <2>1 DEF x, y
    <3> QED  BY <1>1, <1>3, <3>1
  <2> QED  BY <2>1
<1>5. p >= 8 + (x + c) /\ L - c = p - (8 + (x + c)) /\ L - c \in Nat /\ p - L = 8 + x
  BY <1>1, <1>2
<1> QED  BY <1>1, <1>4, <1>5 DEF x

(* A block behind the header block.                                        *)
LEMMA DeintPayloadBlock ==
  ASSUME LoopType, InOrder, ReadsPayload, DeintWork
  PROVE  ReadsPayload'
<1> DEFINE B == BlocksOf(hdr[Now])
           c == hdr[Now].CR + 4
<1>1. UNCHANGED <<given, detVars, gateVars, syncIn, csVars, deintVars, ctlVars, msgVars, histVars>>
      /\ setSFq = <<>> /\ setCRq = <<>> /\ Len(symbols) >= codeLength
  BY DEF DeintWork
<1>2. dSF = PayloadRows /\ codeLength = c /\ Tracking
  BY <1>1 DEF ReadsPayload, ComingSF, ComingCodeLength
<1>3. Now \in Frames /\ B \in Nat /\ c \in Nat /\ c > 0
  BY <1>2, FrameSizes DEF Tracking, OnAir
<1>t. pos \in Nat /\ nOutputItemsToProduce \in Nat /\ symbols \in Seq(Symbol)
      /\ nibbles \in Seq(Nibble)
  BY DEF LoopType, SyncType, SymbolsType, ChainType
<1>4. PICK d \in 0..B : BlocksDecoded(d)
  BY DEF ReadsPayload
<1>5. d \in Nat /\ Len(symbols) = pos - (8 + d * c) /\ SymbolsWait(Len(symbols))
  <2>1. SymbolsWait(pos - (8 + d * c))
    BY <1>4 DEF BlocksDecoded
  <2>2. Len(symbols) = pos - (8 + d * c)
    BY <2>1 DEF SymbolsWait
  <2> QED  BY <1>3, <2>1, <2>2
<1>6. Len(symbols) \in Nat /\ Len(symbols) >= c /\ symbols # <<>>
  BY <1>1, <1>2, <1>3, <1>t
<1>7. setNq = <<>> /\ pos + nOutputItemsToProduce = 8 + B * c
  <2>1. WillReach(SymbolsOf(Now))
    BY DEF ReadsPayload
  <2> QED  BY <1>6, <2>1 DEF WillReach, SymbolsOf
<1>8. /\ d + 1 \in 0..B /\ pos >= 8 + (d + 1) * c
      /\ Len(symbols) - c = pos - (8 + (d + 1) * c) /\ Len(symbols) - c \in Nat
      /\ pos - Len(symbols) = 8 + d * c /\ d * c \in Nat /\ (d + 1) * c \in Nat
  <2> HIDE DEF B, c
  <2> QED  BY <1>3, <1>t, <1>5, <1>6, <1>7, NextBlock
<1>9. BlockRows(d + 1) = PayloadRows /\ BlockLength(Now, d + 1) = c
      /\ BlockOffset(Now, d + 1) = 8 + d * c
  <2>1. d + 1 # 0 /\ (d + 1) - 1 = d
    BY <1>5
  <2> QED  BY <2>1, Zenon DEF BlockRows, BlockLength, BlockOffset
<1>10. /\ Len(nibbles') = Len(nibbles) + PayloadRows
       /\ \A i \in 1..Len(nibbles) : nibbles'[i] = nibbles[i]
       /\ \A i \in 1..PayloadRows : nibbles'[Len(nibbles) + i] = <<Now, d + 1, i>>
       /\ Len(symbols') = Len(symbols) - c
       /\ \A i \in 1..Len(symbols') : symbols'[i] = <<Now, (pos - Len(symbols) + c) + i>>
  BY <1>2, <1>3, <1>5, <1>8, <1>9, DeintTakes
<1>11. Now' = Now /\ hdr'[Now'] = hdr[Now]
  BY <1>1 DEF Now, detVars, given
<1>12. Len(nibbles) = (SF - 7) + d * PayloadRows
       /\ \A i \in 1..Len(nibbles) : nibbles[i] = BodyNibble(Now, i)
  BY <1>4 DEF BlocksDecoded
<1>13. Len(nibbles') = (SF - 7) + (d + 1) * PayloadRows
  <2>1. d * PayloadRows \in Nat /\ (d + 1) * PayloadRows = d * PayloadRows + PayloadRows
    BY <1>5, Sizes, TimesNext
  <2> DEFINE x == d * PayloadRows
             y == (d + 1) * PayloadRows
  <2>2. Len(nibbles') = (SF - 7) + x + PayloadRows
    BY <1>10, <1>12
  <2>3. x \in Nat /\ y = x + PayloadRows /\ SF - 7 \in Nat /\ PayloadRows \in Nat
    BY <2>1, Sizes
  <2> HIDE DEF B, c, x, y
  <2>4. Len(nibbles') = (SF - 7) + y
    BY <2>2, <2>3
  <2> QED  BY <2>4 DEF y
<1>14. \A i \in 1..Len(nibbles') : nibbles'[i] = BodyNibble(Now, i)
  <2> TAKE i \in 1..Len(nibbles')
  <2>1. CASE i <= Len(nibbles)
    BY <1>10, <1>12, <1>t, <2>1
  <2>2. CASE i > Len(nibbles)
    <3>1. i - Len(nibbles) \in 1..PayloadRows /\ i = Len(nibbles) + (i - Len(nibbles))
      BY <1>10, <1>t, <2>2, Sizes
    <3>2. nibbles'[i] = <<Now, d + 1, i - Len(nibbles)>>
      BY <1>10, <3>1
    <3>3. BodyNibble(Now, Len(nibbles) + (i - Len(nibbles))) = <<Now, d + 1, i - Len(nibbles)>>
      BY <1>5, <1>12, <3>1, BodyNibbleOf
    <3> QED  BY <3>1, <3>2, <3>3
  <2> QED  BY <1>t, <2>1, <2>2
<1>15. PICK k \in Nat : k = pos - (8 + (d + 1) * c) /\ k = Len(symbols') /\ k = Len(symbols) - c
  BY <1>8, <1>10
<1>16. SymbolsWait(k)'
  <2>1. pos' = pos /\ k <= pos /\ pos - Len(symbols) + c = pos - k
    <3> HIDE DEF c
    <3> QED  BY <1>1, <1>3, <1>t, <1>6, <1>8, <1>15 DEF csVars
  <2> QED  BY <1>10, <1>11, <1>15, <2>1 DEF SymbolsWait
<1>17. pos >= 8 + (d + 1) * c
  BY <1>8
<1>18. BlocksDecoded(d + 1)'
  <2>1. pos' = pos /\ pos' - (8 + (d + 1) * (hdr'[Now'].CR + 4)) = k
    BY <1>1, <1>11, <1>15 DEF csVars
  <2>2. SymbolsWait(pos - (8 + (d + 1) * (hdr[Now].CR + 4)))'
    BY <1>16, <2>1
  <2> QED  BY <1>11, <1>13, <1>14, <1>17, <2>1, <2>2 DEF BlocksDecoded, PayloadRows
<1>19. Tracking'
  BY <1>1, <1>2, TrackingKept DEF detVars, Tracking, OnAir, csVars, gateVars, msgVars, histVars
<1>20. SymbolsOf(Now)' = SymbolsOf(Now)
  BY <1>11 DEF SymbolsOf
<1>21. WillReach(SymbolsOf(Now))'
  BY <1>1, <1>7, <1>20 DEF WillReach, csVars, msgVars, SymbolsOf
<1>22. RC!PayloadNeed' = RC!PayloadNeed
  BY <1>1 DEF RC!PayloadNeed, ctlVars
<1> QED
  BY <1>1, <1>8, <1>11, <1>18, <1>19, <1>21, <1>22
     DEF ReadsPayload, ctlVars, histVars, msgVars, deintVars, ComingSF, ComingCodeLength, PayloadRows

LEMMA OneDeintWork ==
  ASSUME LoopType, InOrder, InPhase, DeintWork
  PROVE  InOrder' /\ InPhase'
<1>1. InOrder'
  BY DEF DeintWork, InOrder, detVars, histVars
<1>2. symbols # <<>>
  BY DEF DeintWork, LoopType, ChainType
<1>3. ~Starves
  <2>1. codeLength = ComingCodeLength /\ Len(symbols) >= codeLength
    BY DEF DeintWork, ComingCodeLength
  <2>2. ToCome \in Nat /\ Len(symbols) \in Nat /\ codeLength \in Nat
    <3>1. setNq # <<>> => Last(setNq) \in Nat
      BY DEF Last, LoopType, ChainType
    <3> QED  BY <3>1 DEF ToCome, LoopType, SyncType, SymbolsType, ChainType
  <2> QED  BY <2>1, <2>2 DEF Starves
<1>4. ReadsHeader \/ ReadsPayload
  BY <1>2, <1>3 DEF InPhase, Idle, Announced, ReadsShort
<1> QED  BY <1>1, <1>4, DeintHeaderBlock, DeintPayloadBlock DEF InPhase

(* Last message in a queue, after one more is sent.                        *)
LEMMA LastSent ==
  ASSUME NEW S, NEW s \in Seq(S), NEW x \in S
  PROVE  s \o <<x>> # <<>> /\ Last(s \o <<x>>) = x
<1>1. <<x>> \in Seq(S) /\ Len(<<x>>) = 1 /\ <<x>>[1] = x
  OBVIOUS
<1>2. s \o <<x>> \in Seq(S) /\ Len(s \o <<x>>) = Len(s) + 1 /\ (s \o <<x>>)[Len(s) + 1] = x
  BY <1>1, ConcatAt
<1> QED  BY <1>2 DEF Last

(* What a message of the controller changes in the queues.                 *)
LEMMA NothingSent ==
  ASSUME LoopType, Forward(pending), out'.setN = <<>>
  PROVE  setNq' = setNq
BY DEF Forward, LoopType, ChainType

LEMMA OneSent ==
  ASSUME LoopType, Forward(pending), setNq = <<>>, NEW n \in Nat, out'.setN = <<n>>
  PROVE  Len(setNq') = 1 /\ setNq'[1] = n
BY DEF Forward

LEMMA ChainWillBe ==
  ASSUME LoopType, Forward(pending), NEW rows \in Rows, NEW cr \in 0..7,
         out'.setSF = <<rows>>, out'.setCR = <<cr>>
  PROVE  ComingSF' = rows /\ ComingCodeLength' = cr + 4
<1>1. setSFq \in Seq(Rows) /\ setCRq \in Seq(0..7)
  BY DEF LoopType, ChainType
<1>2. setSFq' = setSFq \o <<rows>> /\ setCRq' = setCRq \o <<cr>>
  BY DEF Forward
<1> QED  BY <1>1, <1>2, LastSent DEF ComingSF, ComingCodeLength

LEMMA ResetSent ==
  ASSUME Forward(pending), out'.reset
  PROVE  "sync.reset" \in pending'
BY DEF Forward

LEMMA NoReset ==
  ASSUME Forward(pending), ~out'.reset
  PROVE  pending' = pending
BY DEF Forward

(* The controller starts on the frame it was told of.                      *)
LEMMA OneHandleSync ==
  ASSUME LoopType, InOrder, InPhase, HandleSync, ~overrun'
  PROVE  InOrder' /\ InPhase'
<1>1. Announced
  BY DEF HandleSync, InPhase, Idle, ReadsHeader, ReadsPayload, ReadsShort, Starves
<1>2. /\ UNCHANGED <<given, detVars, gateVars, syncIn, csVars, deintVars, symbols, nibbles,
                     hdrFrame, delivered>>
      /\ syncMsgs' = syncMsgs - 1 /\ RC!StartRx /\ Forward(pending)
  BY DEF HandleSync
<1>3. InOrder' /\ Now' = Now
  BY <1>2 DEF InOrder, Now, detVars
<1>4. Len(nibbles) < HeaderRows
  <2>1. ~(Len(nibbles) >= RC!SFHeader)
    BY Zenon DEF HandleSync
  <2>2. Len(nibbles) \in Nat
    BY DEF LoopType, RC!TypeOK
  <2> QED  BY <2>1, <2>2, Sizes
<1>5. currentState' = "readingHeader" /\ SFcurrent' = HeaderRows
  BY <1>2, Sizes DEF RC!StartRx
<1>6. out'.setN = <<8>> /\ out'.setSF = <<HeaderRows>> /\ out'.setCR = <<4>> /\ ~out'.reset
  BY <1>2, StartRxOut
<1>7. pending' = pending
  BY <1>2, <1>6, NoReset
<1>8. Tracking'
  BY <1>1, <1>2, <1>7, TrackingKept DEF detVars, Announced, Tracking, OnAir, csVars, gateVars
<1>9. WillReach(8)'
  <2>1. Len(setNq') = 1 /\ setNq'[1] = 8
    BY <1>1, <1>2, <1>6, OneSent DEF Announced
  <2> QED  BY <1>1, <1>2, <2>1 DEF WillReach, Announced, csVars
<1>10. ComingSF' = HeaderRows /\ ComingCodeLength' = 8
  BY <1>2, <1>6, ChainWillBe, Sizes
<1>11. HeaderBlockComes'
  <2>1. \A i \in 1..Len(nibbles) : ~StartsBlock(nibbles[i])
    <3> TAKE i \in 1..Len(nibbles)
    <3>1. StartsBlock(nibbles[i]) => i + HeaderRows <= Len(nibbles) + 1
      BY <1>1 DEF Announced, Leftover
    <3>2. Len(nibbles) \in Nat
      BY DEF LoopType, RC!TypeOK
    <3> QED  BY <1>4, <3>1, <3>2, Sizes
  <2> QED
    BY <1>1, <1>2, <1>4, <2>1
       DEF HeaderBlockComes, OldNibbles, StartsBlock, SymbolsWait, Announced, csVars, HeaderRows
<1>12. syncMsgs' = 0
  BY <1>1, <1>2 DEF Announced
<1>13. ReadsHeader'
  BY <1>5, <1>8, <1>9, <1>10, <1>11, <1>12 DEF ReadsHeader, HeaderRows
<1> QED  BY <1>3, <1>13 DEF InPhase

(* Nibbles nobody asked for are dropped.                                   *)
LEMMA OneDropNibble ==
  ASSUME LoopType, InOrder, InPhase, DropNibble
  PROVE  InOrder' /\ InPhase'
<1>1. Idle
  BY DEF DropNibble, RC!DropNibble, InPhase, Announced, ReadsHeader, ReadsPayload, ReadsShort,
         Starves
<1>2. UNCHANGED <<given, detVars, gateVars, syncIn, csVars, deintVars, symbols, msgVars, histVars>>
      /\ currentState' = currentState
  BY DEF DropNibble, RC!DropNibble
<1>3. InOrder' /\ Now' = Now
  BY <1>2 DEF InOrder, Now, detVars, histVars
<1>4. Leftover'
  <2>1. nibbles \in Seq(Nibble) /\ nibbles # <<>> /\ nibbles' = Tail(nibbles)
    BY DEF LoopType, ChainType, DropNibble
  <2>2. Len(nibbles') = Len(nibbles) - 1 /\ Len(nibbles) > 0
        /\ \A i \in 1..(Len(nibbles) - 1) : nibbles'[i] = nibbles[i + 1]
    BY <2>1, TailOf
  <2>3. ASSUME NEW i \in 1..Len(nibbles'), StartsBlock(nibbles'[i])
        PROVE  i + HeaderRows <= Len(nibbles') + 1
    <3>1. i + 1 \in 1..Len(nibbles) /\ StartsBlock(nibbles[i + 1])
      BY <2>1, <2>2, <2>3
    <3>2. (i + 1) + HeaderRows <= Len(nibbles) + 1
      BY <1>1, <3>1 DEF Idle, Leftover
    <3> QED  BY <2>1, <2>2, <3>2, Sizes
  <2> QED  BY <2>3 DEF Leftover, StartsBlock, HeaderRows
<1>5. OnAir => OnAir'
  BY <1>2 DEF OnAir, Now, detVars, msgVars, histVars
<1>6. (NoSegments => NoSegments') /\ (SegmentWaits => SegmentWaits')
  BY <1>2, <1>3 DEF NoSegments, SegmentWaits, gateVars
<1>7. Idle'
  BY <1>1, <1>2, <1>3, <1>4, <1>5, <1>6 DEF Idle, csVars, msgVars
<1> QED  BY <1>3, <1>7 DEF InPhase

LEMMA HeaderNibbles ==
  ASSUME NEW f \in 0..NFrames
  PROVE  /\ BlockNibbles(f, 0) \in Seq(Nibble) /\ Len(BlockNibbles(f, 0)) = HeaderRows
         /\ \A i \in 1..HeaderRows : BlockNibbles(f, 0)[i] = <<f, 0, i>>
<1>1. BlockNibbles(f, 0) = [i \in 1..HeaderRows |-> <<f, 0, i>>]
  BY DEF BlockNibbles, BlockRows
<1>2. BlockNibbles(f, 0) \in [1..HeaderRows -> Nibble]
  BY <1>1, Sizes DEF Nibble
<1> QED  BY <1>1, <1>2, Sizes, FunctionIsSeq

(* The input spells the header of a frame if and only if the first five    *)
(* nibbles of its header block come first.                                 *)
LEMMA HeaderSpelt ==
  ASSUME LoopType, Len(nibbles) >= 5, NEW fh \in HeadersAtHead
  PROVE  LET f == nibbles[1][1]
         IN  IF f # 0 /\ \A i \in 1..5 : nibbles[i] = <<f, 0, i>>
             THEN fh = <<f, hdr[f]>> ELSE fh[1] = 0
<1> DEFINE f == nibbles[1][1]
           g == BlockNibbles(f, 0)
<1>1. nibbles \in Seq(Nibble) /\ nibbles # <<>> /\ Len(nibbles) \in Nat
  BY DEF LoopType, ChainType
<1>2. Head(nibbles) = nibbles[1] /\ nibbles[1] \in Nibble
  BY <1>1, TailOf
<1>3. f \in 0..NFrames
  BY <1>2 DEF Nibble
<1>4. g \in Seq(Nibble) /\ Len(g) >= 5 /\ \A i \in 1..5 : g[i] = <<f, 0, i>>
  <2>1. g \in Seq(Nibble) /\ Len(g) = HeaderRows /\ \A i \in 1..HeaderRows : g[i] = <<f, 0, i>>
    BY <1>3, HeaderNibbles
  <2> HIDE DEF f, g
  <2> QED  BY <2>1, Sizes
<1>5. SubSeq(nibbles, 1, 5) = SubSeq(g, 1, 5) <=> \A i \in 1..5 : nibbles[i] = g[i]
  <2> HIDE DEF g
  <2> QED  BY <1>1, <1>4, SameStart
<1>6. fh \in IF f # 0 /\ SubSeq(nibbles, 1, 5) = SubSeq(g, 1, 5)
            THEN {<<f, hdr[f]>>} ELSE {0} \X scenario.unreadable
  BY <1>2 DEF HeadersAtHead
<1> HIDE DEF g
<1> QED  BY <1>4, <1>5, <1>6

(* The controller reads the header of the frame on the air, unless nibbles *)
(* of earlier header blocks come first: these are garbage.                 *)
LEMMA HeaderMet ==
  ASSUME LoopType, ReadsHeader, NEW m \in Nat, OldNibbles(m),
         Len(nibbles) = m + HeaderRows, \A i \in 1..HeaderRows : nibbles[m + i] = <<Now, 0, i>>,
         NEW fh \in HeadersAtHead
  PROVE  IF m = 0 THEN fh[1] = Now /\ fh[2] = hdr[Now] ELSE fh[1] = 0
<1> DEFINE f == nibbles[1][1]
<1>1. IF f # 0 /\ \A i \in 1..5 : nibbles[i] = <<f, 0, i>>
      THEN fh = <<f, hdr[f]>> ELSE fh[1] = 0
  <2>1. Len(nibbles) >= 5
    BY Sizes
  <2> QED  BY <2>1, HeaderSpelt
<1>2. CASE m = 0
  <2>1. \A i \in 1..5 : nibbles[i] = <<Now, 0, i>>
    BY <1>2, Sizes
  <2>2. f = Now /\ Now # 0
    BY <2>1, Sizes, SMTT(30) DEF ReadsHeader, Tracking, OnAir, Frames
  <2>3. \A i \in 1..5 : nibbles[i] = <<f, 0, i>>
    BY <2>1, <2>2
  <2> HIDE DEF f
  <2>4. f # 0
    BY <2>2
  <2>5. fh = <<f, hdr[f]>>
    BY <1>1, <2>3, <2>4, Zenon
  <2> QED  BY <1>2, <2>2, <2>5
<1>3. CASE m # 0
  <2>1. ~StartsBlock(nibbles[1])
    BY <1>3 DEF OldNibbles
  <2>2. nibbles[1] # <<f, 0, 1>>
    BY <2>1 DEF StartsBlock
  <2>3. fh[1] = 0
    BY <1>1, <2>2
  <2> QED  BY <1>3, <2>3
<1> QED  BY <1>2, <1>3

LEMMA HeaderConsumed ==
  ASSUME LoopType, ReadHeader, Len(nibbles) >= 5
  PROVE  /\ Len(nibbles) \in Nat
         /\ Len(nibbles') = Len(nibbles) - 5
         /\ \A i \in 1..Len(nibbles') : nibbles'[i] = nibbles[5 + i]
<1> PICK k \in Nat : k = 5
  OBVIOUS
<1>1. nibbles \in Seq(Nibble) /\ k \in 0..Len(nibbles)
  BY DEF LoopType, ChainType
<1>2. nibbles' = SubSeq(nibbles, k + 1, Len(nibbles))
  BY DEF ReadHeader
<1>3. /\ Len(nibbles') = Len(nibbles) - k
      /\ \A i \in 1..Len(nibbles') : nibbles'[i] = nibbles[k + i]
  BY <1>1, <1>2, DropFirst
<1> QED  BY <1>1, <1>3

(* With the header block there, the synchroniser is done.                  *)
LEMMA AllProduced ==
  ASSUME LoopType, ReadsHeader, HeaderBlockThere
  PROVE  setNq = <<>> /\ nOutputItemsToProduce = 0 /\ symbols = <<>> /\ pos = 8
<1>1. pos = 8 /\ symbols = <<>> /\ WillReach(8)
  BY DEF HeaderBlockThere, ReadsHeader
<1>2. setNq \in Seq(Nat) /\ nOutputItemsToProduce \in Nat
  BY DEF LoopType, SyncType, ChainType
<1>3. ~(Len(setNq) = 1 /\ setNq[1] > 0 /\ pos + setNq[1] = 8)
  <2>1. Len(setNq) = 1 => setNq[1] \in Nat
    BY <1>2, ItemsOf
  <2> QED  BY <1>1, <2>1
<1> QED  BY <1>1, <1>2, <1>3 DEF WillReach

(* The five nibbles of the header are consumed, the others stay.           *)
LEMMA RestOfHeaderBlock ==
  ASSUME LoopType, ReadHeader, Len(nibbles) = HeaderRows,
         \A i \in 1..HeaderRows : nibbles[i] = <<Now, 0, i>>
  PROVE  Len(nibbles') = SF - 7 /\ \A i \in 1..Len(nibbles') : nibbles'[i] = BodyNibble(Now, i)
<1>1. Len(nibbles') = SF - 7 /\ \A i \in 1..Len(nibbles') : nibbles'[i] = nibbles[5 + i]
  BY Sizes, HeaderConsumed
<1>2. ASSUME NEW i \in 1..Len(nibbles') PROVE nibbles'[i] = BodyNibble(Now, i)
  <2>1. i <= SF - 7 /\ 5 + i \in 1..HeaderRows
    BY <1>1, Sizes
  <2>2. nibbles'[i] = <<Now, 0, 5 + i>>
    BY <1>1, <2>1
  <2> QED  BY <2>1, <2>2 DEF BodyNibble
<1> QED  BY <1>1, <1>2

(* A header that is not accepted, or no header at all: back to idling.     *)
LEMMA HeaderRejected ==
  ASSUME LoopType, ReadsHeader, HeaderBlockThere, ReadHeader, NEW h, RC!RejectHeader(h)
  PROVE  Idle'
<1>1. UNCHANGED <<given, detVars, gateVars, syncIn, csVars, deintVars, symbols, syncMsgs,
                  delivered, overrun>>
      /\ Forward(pending) /\ nibbles' = SubSeq(nibbles, 6, Len(nibbles))
  BY DEF ReadHeader
<1>2. currentState' = "waitingForSync"
  BY DEF RC!RejectHeader
<1>3. setNq' = setNq /\ "sync.reset" \in pending'
  BY <1>1, RejectHeaderOut, NothingSent, ResetSent
<1>4. setNq = <<>> /\ nOutputItemsToProduce = 0 /\ symbols = <<>>
  BY AllProduced
<1>5. NoSegments'
  BY <1>1 DEF NoSegments, gateVars, ReadsHeader, Tracking
<1>6. Leftover'
  <2>1. PICK m \in 0..Len(nibbles) :
          /\ Len(nibbles) = m + HeaderRows
          /\ OldNibbles(m)
          /\ \A i \in 1..HeaderRows : nibbles[m + i] = <<Now, 0, i>>
    BY DEF HeaderBlockThere
  <2>2. nibbles \in Seq(Nibble) /\ m \in Nat
    BY DEF LoopType, ChainType
  <2>3. Len(nibbles') = Len(nibbles) - 5 /\ \A i \in 1..Len(nibbles') : nibbles'[i] = nibbles[5 + i]
    <3>1. Len(nibbles) >= 5
      BY <2>1, <2>2, Sizes
    <3> QED  BY <3>1, HeaderConsumed
  <2>4. ASSUME NEW i \in 1..Len(nibbles'), StartsBlock(nibbles'[i])
        PROVE  i + HeaderRows <= Len(nibbles') + 1
    <3>1. 5 + i \in 1..Len(nibbles) /\ StartsBlock(nibbles[5 + i])
      BY <2>1, <2>2, <2>3, <2>4, Sizes
    <3>2. ~(5 + i \in 1..m)
      BY <2>1, <3>1 DEF OldNibbles
    <3>3. (5 + i) - m \in 1..HeaderRows /\ m + ((5 + i) - m) = 5 + i
      BY <2>1, <2>2, <3>1, <3>2, Sizes
    <3>4. nibbles[5 + i] = <<Now, 0, (5 + i) - m>>
      BY <2>1, <3>3
    <3>5. (5 + i) - m = 1
      BY <3>1, <3>4 DEF StartsBlock
    <3> QED  BY <2>1, <2>2, <2>3, <3>5, Sizes
  <2> QED  BY <2>4 DEF Leftover, StartsBlock, HeaderRows
<1>7. syncMsgs' = 0 /\ symbols' = <<>> /\ nOutputItemsToProduce' = 0 /\ curFrame' = Now'
  BY <1>1, <1>4 DEF ReadsHeader, Tracking, Now, detVars, csVars
<1> QED  BY <1>2, <1>3, <1>4, <1>5, <1>6, <1>7 DEF Idle

(* The controller asks for exactly the blocks the transmitter sends behind *)
(* the header block, and waits for exactly their nibbles.                  *)
LEMMA RequestForFrame ==
  ASSUME NEW h \in Headers, RC!Accepted(h), RC!NibblesToRead(h) > RC!HeaderBlockRest, NEW previous
  PROVE  LET e == RC!ExtraNibbles(h, previous)
         IN  /\ BlocksOf(h) \in Nat /\ BlocksOf(h) > 0 /\ e \in Nat
             /\ RC!NibblesToRead(h) + e = BlocksOf(h) * PayloadRows + (SF - 7)
             /\ RC!NibblesToRead(h) + e > RC!HeaderBlockRest
             /\ RC!PayloadSymbols(h, e) = BlocksOf(h) * (h.CR + 4)
             /\ h.CR + 4 \in Nat /\ h.CR + 4 > 0
             /\ h.len \in 0..255 /\ h.crc \in BOOLEAN
             /\ RC!NibblesToRead(h) = 2 * h.len + RC!CRCNibbles(h.crc)
             /\ RC!CRCNibbles(h.crc) \in {0, 4}
<1> DEFINE N == RC!NibblesToRead(h)
           e == RC!ExtraNibbles(h, previous)
           R == SF - 7
<1>1. /\ h.len \in 0..255 /\ h.crc \in BOOLEAN /\ h.CR \in 0..7
      /\ N = 2 * h.len + RC!CRCNibbles(h.crc) /\ RC!CRCNibbles(h.crc) \in {0, 4}
  BY HeadersAssumption DEF RC!HeaderRecord, RC!NibblesToRead, RC!CRCNibbles
<1>2. N \in Nat /\ N > R /\ R \in Nat /\ N - R \in Nat
  BY <1>1, Sizes
<1>3. e \in 0..(PayloadRows - 1)
  <2>1. e = (PayloadRows - ((N - R) % PayloadRows)) % PayloadRows
    BY <1>2, Sizes DEF RC!ExtraNibbles, RC!Padding
  <2> HIDE DEF N, e, R
  <2> QED  BY <1>2, <2>1, Sizes, MissingRange
<1>4. PICK q \in Nat :
        /\ N + e = q * PayloadRows + R
        /\ RC!PayloadSymbols(h, e) = q * (h.CR + 4)
        /\ N + e > R
  <2>1. \E q \in Nat :
          /\ RCP!NibblesToRead(h) + RCP!ExtraNibbles(h, previous)
               = q * RCP!SFPayload + RCP!HeaderBlockRest
          /\ RCP!PayloadSymbols(h, RCP!ExtraNibbles(h, previous)) = q * (h.CR + 4)
          /\ RCP!NibblesToRead(h) + RCP!ExtraNibbles(h, previous) > RCP!HeaderBlockRest
    <3>1. RCP!NibblesToRead(h) > RCP!HeaderBlockRest
      BY DEF RC!NibblesToRead, RCP!NibblesToRead, RC!HeaderBlockRest, RCP!HeaderBlockRest,
             RC!CRCNibbles, RCP!CRCNibbles
    <3> QED  BY <3>1, RCP!RequestInBlocks, ControllerAssumptions
  <2>2. /\ RCP!NibblesToRead(h) = N /\ RCP!ExtraNibbles(h, previous) = e
        /\ RCP!SFPayload = PayloadRows /\ RCP!HeaderBlockRest = R
        /\ RCP!PayloadSymbols(h, e) = RC!PayloadSymbols(h, e)
    BY DEF RC!NibblesToRead, RCP!NibblesToRead, RC!CRCNibbles, RCP!CRCNibbles,
           RC!ExtraNibbles, RCP!ExtraNibbles, RC!Padding, RCP!Padding, RC!SFPayload, RCP!SFPayload,
           RC!HeaderBlockRest, RCP!HeaderBlockRest, RC!PayloadSymbols, RCP!PayloadSymbols, PayloadRows
  <2> QED  BY <2>1, <2>2
<1>5. BlocksOf(h) = (N - R + PayloadRows - 1) \div PayloadRows
  <2>1. N = 2 * h.len + (IF h.crc THEN 4 ELSE 0)
    BY <1>1 DEF RC!CRCNibbles
  <2> HIDE DEF N
  <2> QED  BY <1>2, <2>1 DEF BlocksOf
<1> HIDE DEF N, e, R
<1>6. BlocksOf(h) = q
  <2> DEFINE x == q * PayloadRows
             r == PayloadRows - 1 - e
  <2>1. x \in Nat /\ r \in 0..(PayloadRows - 1)
    BY <1>3, Sizes
  <2>2. N + e = x + R
    BY <1>4
  <2> HIDE DEF x
  <2>3. N - R + PayloadRows - 1 = x + r
    BY <1>2, <1>3, <2>1, <2>2, Sizes
  <2>4. (x + r) \div PayloadRows = q
    BY <2>1, Sizes, QuotientOf DEF x
  <2> QED  BY <1>5, <2>3, <2>4
<1>7. q > 0
  <2>1. ASSUME q = 0 PROVE FALSE
    <3>1. N + e = R
      BY <1>2, <1>4, <2>1, Sizes
    <3> QED  BY <1>2, <1>4, <3>1
  <2> QED  BY <2>1
<1>8. e \in Nat /\ h.CR + 4 \in Nat /\ h.CR + 4 > 0
  BY <1>1, <1>3, Sizes
<1> QED  BY <1>1, <1>4, <1>6, <1>7, <1>8, Sizes DEF N, e, R

LEMMA LengthsAre == \A h \in Headers : h.len \in Nat
BY HeadersAssumption DEF RC!HeaderRecord

(* A header that is accepted: the payload behind it is the frame's.        *)
LEMMA HeaderAccepted ==
  ASSUME LoopType, ReadsHeader, HeaderBlockThere, ReadHeader,
         Len(nibbles) = HeaderRows, \A i \in 1..HeaderRows : nibbles[i] = <<Now, 0, i>>,
         NEW h, h = hdr[Now], RC!AcceptHeader(h), hdrFrame' = Now,
         RC!NibblesToRead(h) > RC!HeaderBlockRest
  PROVE  ReadsPayload'
<1> DEFINE e == RC!ExtraNibbles(h, extraNibblesToConsume)
           B == BlocksOf(h)
           c == h.CR + 4
<1>1. UNCHANGED <<given, detVars, gateVars, syncIn, csVars, deintVars, symbols, syncMsgs,
                  delivered, overrun>>
      /\ Forward(pending)
  BY DEF ReadHeader
<1>2. Now \in Frames /\ h \in Headers /\ h \in scenario.headers
  <2>1. Now \in Frames /\ hdr[Now] \in scenario.headers /\ scenario \in Scenarios
    BY DEF ReadsHeader, Tracking, OnAir, LoopType
  <2> QED  BY <2>1, HeaderOf
<1>3. RC!Accepted(h) /\ RC!NibblesToRead(h) > RC!HeaderBlockRest
  BY DEF RC!AcceptHeader
<1>4. /\ B \in Nat /\ B > 0 /\ e \in Nat
      /\ RC!NibblesToRead(h) + e = B * PayloadRows + (SF - 7)
      /\ RC!NibblesToRead(h) + e > RC!HeaderBlockRest
      /\ RC!PayloadSymbols(h, e) = B * c
      /\ c \in Nat /\ c > 0 /\ h.len \in 0..255 /\ h.crc \in BOOLEAN
      /\ RC!NibblesToRead(h) = 2 * h.len + RC!CRCNibbles(h.crc)
      /\ RC!CRCNibbles(h.crc) \in {0, 4}
  BY <1>2, <1>3, RequestForFrame
<1> HIDE DEF e, B, c
<1>5. /\ currentState' = "sendingPayload" /\ payloadNibblesToRead' = 2 * h.len
      /\ extraNibblesToConsume' = e /\ payloadCRCPresent' = h.crc
  BY DEF RC!AcceptHeader, e
<1>6. out'.setSF = <<PayloadRows>> /\ out'.setCR = <<h.CR>> /\ ~out'.reset
      /\ out'.setN = <<B * c>>
  <2>1. out'.setN = IF RC!NibblesToRead(h) + e > RC!HeaderBlockRest
                    THEN <<RC!PayloadSymbols(h, e)>> ELSE <<>>
    BY AcceptHeaderOut DEF e
  <2>2. out'.setN = <<RC!PayloadSymbols(h, e)>>
    BY <1>4, <2>1
  <2> QED  BY <1>4, <2>2, AcceptHeaderOut
<1>7. Now' = Now /\ hdr'[Now'] = h /\ pending' = pending
  BY <1>1, <1>6, NoReset DEF Now, given, detVars
<1>8. Tracking'
  BY <1>1, <1>7, TrackingKept DEF detVars, ReadsHeader, Tracking, OnAir, csVars, gateVars
<1>9. RC!PayloadNeed' = (SF - 7) + B * PayloadRows
  <2>1. RC!PayloadNeed' = 2 * h.len + e + RC!CRCNibbles(h.crc)
    BY <1>5 DEF RC!PayloadNeed, RC!CRCNibbles
  <2> DEFINE z == B * PayloadRows
             k == RC!CRCNibbles(h.crc)
  <2>2. z \in Nat /\ k \in Nat /\ h.len \in Nat /\ e \in Nat /\ SF - 7 \in Nat
    <3>1. z \in Nat
      BY <1>4, Sizes, TimesNext
    <3>2. k \in Nat
      BY <1>4
    <3>3. h.len \in 0..255 /\ e \in Nat
      BY <1>4
    <3>4. h.len \in Nat
      BY <1>2, LengthsAre
    <3>5. SF - 7 \in Nat
      BY Sizes
    <3> QED  BY <3>1, <3>2, <3>3, <3>4, <3>5
  <2>3. (2 * h.len + k) + e = z + (SF - 7) /\ RC!PayloadNeed' = 2 * h.len + e + k
    BY <1>4, <2>1
  <2> HIDE DEF z, k
  <2>4. RC!PayloadNeed' = (SF - 7) + z
    BY <2>2, <2>3
  <2> QED  BY <2>4 DEF z
<1>10. setNq = <<>> /\ nOutputItemsToProduce = 0 /\ symbols = <<>> /\ pos = 8
  BY AllProduced
<1>11. WillReach(SymbolsOf(Now))'
  <2> DEFINE n == B * c
  <2>1. SymbolsOf(Now)' = 8 + n
    BY <1>7 DEF SymbolsOf, B, c
  <2>2. n \in Nat /\ n > 0
    BY <1>4
  <2>3. Len(setNq') = 1 /\ setNq'[1] = n
    BY <1>1, <1>6, <1>10, <2>2, OneSent
  <2> HIDE DEF n
  <2> QED  BY <1>1, <1>10, <2>1, <2>2, <2>3 DEF WillReach, csVars
<1>12. ComingSF' = PayloadRows /\ ComingCodeLength' = c
  <2>1. h.CR \in 0..7
    BY <1>2, HeadersAssumption DEF RC!HeaderRecord
  <2> QED  BY <1>1, <1>6, <2>1, Sizes, ChainWillBe DEF c
<1>13. BlocksDecoded(0)'
  <2>1. 0 * c = 0 /\ 0 * PayloadRows = 0
    BY <1>4, Sizes
  <2>2. SymbolsWait(0)'
    BY <1>1, <1>10 DEF SymbolsWait, csVars
  <2>3. pos' - (8 + 0 * (hdr'[Now'].CR + 4)) = 0 /\ pos' >= 8 + 0 * (hdr'[Now'].CR + 4)
    BY <1>1, <1>7, <1>10, <2>1 DEF csVars, c
  <2>4. SymbolsWait(pos - (8 + 0 * (hdr[Now].CR + 4)))'
    BY <2>2, <2>3
  <2>5. Len(nibbles') = SF - 7
    BY RestOfHeaderBlock
  <2>6. \A i \in 1..Len(nibbles') : nibbles'[i] = BodyNibble(Now, i)
    BY RestOfHeaderBlock
  <2>7. Len(nibbles') = (SF - 7) + 0 * PayloadRows
    BY <2>1, <2>5, Sizes
  <2> QED  BY <1>7, <2>3, <2>4, <2>6, <2>7 DEF BlocksDecoded, PayloadRows
<1>14. 0 \in 0..B /\ syncMsgs' = 0
  BY <1>1, <1>4 DEF ReadsHeader
<1> QED
  BY <1>3, <1>4, <1>5, <1>7, <1>8, <1>9, <1>11, <1>12, <1>13, <1>14
     DEF ReadsPayload, B, c, PayloadRows

(* A frame that fits the header block asks for symbols only when padding   *)
(* of an earlier one is added to its size; these do not make a block.      *)
LEMMA RequestForShort ==
  ASSUME NEW h \in Headers, RC!Accepted(h), ~(RC!NibblesToRead(h) > RC!HeaderBlockRest),
         NEW e \in Nat, e < PayloadRows, e = RC!ExtraNibbles(h, e)
  PROVE  /\ BlocksOf(h) = 0 /\ RC!NibblesToRead(h) \in Nat
         /\ RC!NibblesToRead(h) = 2 * h.len + RC!CRCNibbles(h.crc)
         /\ RC!NibblesToRead(h) <= SF - 7 /\ h.CR + 4 \in Nat /\ h.CR + 4 > 0
         /\ h.len \in Nat /\ RC!CRCNibbles(h.crc) \in Nat
         /\ RC!NibblesToRead(h) + e > RC!HeaderBlockRest =>
              /\ RC!PayloadSymbols(h, e) \in Nat /\ RC!PayloadSymbols(h, e) < h.CR + 4
              /\ e > 0
<1> DEFINE N == RC!NibblesToRead(h)
           c == h.CR + 4
<1>1. /\ h.len \in Nat /\ h.crc \in BOOLEAN /\ h.CR \in 0..7
      /\ N = 2 * h.len + RC!CRCNibbles(h.crc) /\ RC!CRCNibbles(h.crc) \in Nat
  BY HeadersAssumption DEF RC!HeaderRecord, RC!NibblesToRead, RC!CRCNibbles
<1>2. N \in Nat /\ N <= SF - 7 /\ c \in Nat /\ c > 0
  BY <1>1, Sizes
<1>3. BlocksOf(h) = 0
  <2>1. 2 * h.len + (IF h.crc THEN 4 ELSE 0) <= SF - 7
    BY <1>1, <1>2 DEF RC!CRCNibbles
  <2> QED  BY <2>1 DEF BlocksOf
<1>4. ASSUME N + e > SF - 7
      PROVE  RC!PayloadSymbols(h, e) \in Nat /\ RC!PayloadSymbols(h, e) < c /\ e > 0
  <2> DEFINE x == e + N - (SF - 7)
             q == (x * c) \div PayloadRows
  <2>1. x \in Nat /\ x < PayloadRows /\ e > 0
    BY <1>2, <1>4, Sizes
  <2>2. RC!PayloadSymbols(h, e) = q
    BY Sizes DEF RC!PayloadSymbols
  <2> HIDE DEF x, N, c
  <2>3. x * c \in Nat /\ (x + 1) * c = x * c + c /\ (x + 1) * c <= PayloadRows * c
    BY <1>2, <2>1, Sizes, TimesNext, TimesMonotone
  <2>4. q \in Nat /\ x * c = q * PayloadRows + ((x * c) % PayloadRows)
        /\ (x * c) % PayloadRows \in 0..(PayloadRows - 1)
    BY <2>3, Sizes, DivMod
  <2>5. ASSUME q >= c PROVE FALSE
    <3>1. c * PayloadRows <= q * PayloadRows /\ c * PayloadRows = PayloadRows * c
      BY <1>2, <2>4, <2>5, Sizes, TimesMonotone
    <3>2. c * PayloadRows \in Nat /\ q * PayloadRows \in Nat
      BY <1>2, <2>4, Sizes
    <3> HIDE DEF q
    <3> QED  BY <1>2, <2>3, <2>4, <3>1, <3>2, Sizes
  <2> QED  BY <1>2, <2>1, <2>2, <2>4, <2>5
<1> QED  BY <1>1, <1>2, <1>3, <1>4, Sizes

(* Its header accepted, it is all there, unless padding is waited for.     *)
LEMMA ShortHeaderAccepted ==
  ASSUME LoopType, ReadsHeader, HeaderBlockThere, ReadHeader,
         Len(nibbles) = HeaderRows, \A i \in 1..HeaderRows : nibbles[i] = <<Now, 0, i>>,
         NEW h, h = hdr[Now], RC!AcceptHeader(h), hdrFrame' = Now,
         ~(RC!NibblesToRead(h) > RC!HeaderBlockRest), LoopType'
  PROVE  ReadsShort' \/ Starves'
<1> DEFINE e == extraNibblesToConsume
           N == RC!NibblesToRead(h)
           c == h.CR + 4
           n == RC!PayloadSymbols(h, e)
<1>1. UNCHANGED <<given, detVars, gateVars, syncIn, csVars, deintVars, symbols, syncMsgs,
                  delivered, overrun>>
      /\ Forward(pending)
  BY DEF ReadHeader
<1>2. Now \in Frames /\ h \in Headers
  <2>1. Now \in Frames /\ hdr[Now] \in scenario.headers /\ scenario \in Scenarios
    BY DEF ReadsHeader, Tracking, OnAir, LoopType
  <2> QED  BY <2>1, HeaderOf
<1>3. RC!Accepted(h) /\ e \in Nat /\ e < PayloadRows /\ e = RC!ExtraNibbles(h, e)
  BY Sizes DEF RC!AcceptHeader, LoopType, RC!TypeOK, RC!ExtraNibbles
<1>4. /\ BlocksOf(h) = 0 /\ N \in Nat /\ N = 2 * h.len + RC!CRCNibbles(h.crc)
      /\ N <= SF - 7 /\ c \in Nat /\ c > 0
      /\ h.len \in Nat /\ RC!CRCNibbles(h.crc) \in Nat
      /\ N + e > RC!HeaderBlockRest => n \in Nat /\ n < c /\ e > 0
  BY <1>2, <1>3, RequestForShort
<1>5. /\ currentState' = "sendingPayload" /\ payloadNibblesToRead' = 2 * h.len
      /\ extraNibblesToConsume' = e /\ payloadCRCPresent' = h.crc
  BY <1>3 DEF RC!AcceptHeader
<1>6. out'.setSF = <<PayloadRows>> /\ out'.setCR = <<h.CR>> /\ ~out'.reset
      /\ out'.setN = IF N + e > RC!HeaderBlockRest THEN <<n>> ELSE <<>>
  BY <1>3, AcceptHeaderOut
<1> HIDE DEF e, N, c, n
<1>7. Now' = Now /\ hdr'[Now'] = h /\ pending' = pending /\ BlocksOf(hdr[Now])' = 0
  BY <1>1, <1>4, <1>6, NoReset DEF Now, given, detVars, BlocksOf, PayloadRows
<1>8. Tracking'
  BY <1>1, <1>7, TrackingKept DEF detVars, ReadsHeader, Tracking, OnAir, csVars, gateVars
<1>9. RC!PayloadNeed' = N + e
  <2>1. RC!PayloadNeed' = 2 * h.len + e + RC!CRCNibbles(h.crc)
    BY <1>5 DEF RC!PayloadNeed, RC!CRCNibbles
  <2> QED  BY <1>3, <1>4, <2>1 DEF e
<1>10. setNq = <<>> /\ nOutputItemsToProduce = 0 /\ symbols = <<>> /\ pos = 8
  BY AllProduced
<1>11. Len(nibbles') = SF - 7 /\ \A i \in 1..Len(nibbles') : nibbles'[i] = BodyNibble(Now, i)
  BY RestOfHeaderBlock
<1>12. syncMsgs' = 0 /\ RC!Accepted(hdr'[Now'])
  BY <1>1, <1>3, <1>7 DEF ReadsHeader, RC!Accepted
<1>13. CASE ~(N + e > RC!HeaderBlockRest)
  <2>1. setNq' = <<>> /\ nOutputItemsToProduce' = 0 /\ symbols' = <<>>
    BY <1>1, <1>6, <1>10, <1>13, NothingSent DEF csVars
  <2>2. RC!PayloadNeed' <= Len(nibbles')
    BY <1>3, <1>4, <1>9, <1>11, <1>13, Sizes DEF e
  <2>3. nibbles' = BodyNibbles(Now)'
    <3>1. nibbles' = [i \in 1..Len(nibbles') |-> nibbles'[i]]
      BY DEF LoopType, ChainType
    <3>2. nibbles' = [i \in 1..Len(nibbles') |-> BodyNibble(Now, i)]
      BY <1>11, <3>1
    <3>3. BodyNibbles(Now)' = [i \in 1..(SF - 7) |-> BodyNibble(Now, i)]
      <4>1. (SF - 7) + 0 * PayloadRows = SF - 7
        BY Sizes
      <4>2. BlocksOf(hdr[Now]) = 0 /\ BodyNibbles(Now)' = BodyNibbles(Now)
        BY <1>1, <1>4, <1>7 DEF given, BodyNibbles, BodyNibble, BlocksOf, PayloadRows
      <4> QED  BY <4>1, <4>2 DEF BodyNibbles
    <3> QED  BY <1>11, <3>2, <3>3
  <2>4. ReadsShort'
    BY <1>5, <1>7, <1>8, <1>12, <2>1, <2>2, <2>3 DEF ReadsShort
  <2> QED  BY <2>4
<1>14. CASE N + e > RC!HeaderBlockRest
  <2>1. n \in Nat /\ n < c /\ e > 0 /\ Len(nibbles') < RC!PayloadNeed'
    BY <1>4, <1>9, <1>11, <1>14, Sizes
  <2>2. Len(setNq') = 1 /\ setNq'[1] = n
    BY <1>1, <1>6, <1>10, <1>14, <2>1, OneSent
  <2>3. ToCome' = n /\ Len(symbols') = 0
    BY <1>1, <1>10, <2>2 DEF ToCome, Last
  <2>4. ComingCodeLength' = c
    <3>1. h.CR \in 0..7
      BY <1>2, HeadersAssumption DEF RC!HeaderRecord
    <3> QED  BY <1>1, <1>6, <3>1, Sizes, ChainWillBe DEF c
  <2>5. Len(symbols') + ToCome' < ComingCodeLength'
    BY <1>4, <2>1, <2>3, <2>4
  <2>6. pos' >= SymbolsOf(Now)'
    <3>1. pos' = 8 /\ SymbolsOf(Now)' = 8 + 0 * c
      BY <1>1, <1>7, <1>10 DEF csVars, SymbolsOf, c
    <3> QED  BY <1>4, <3>1
  <2>7. ShortFrame' /\ extraNibblesToConsume' > 0
    <3>1. ShortFrame' <=> 2 * h.len + RC!CRCNibbles(h.crc) <= SF - 7
      BY <1>5, Sizes DEF ShortFrame, RC!HeaderBlockRest, RC!CRCNibbles
    <3> QED  BY <1>4, <1>5, <2>1, <3>1
  <2>8. \A i \in 1..Len(symbols') : symbols'[i] = Noise
    BY <2>3
  <2>9. Starves'
    BY <1>5, <1>7, <1>8, <1>12, <2>1, <2>5, <2>6, <2>7, <2>8 DEF Starves
  <2> QED  BY <2>9
<1> QED  BY <1>13, <1>14

LEMMA OneReadHeader ==
  ASSUME LoopType, LoopType', InOrder, InPhase, ReadHeader, ~misread'
  PROVE  InOrder' /\ InPhase'
<1>1. PICK fh \in HeadersAtHead :
        \/ RC!RejectHeader(fh[2])
        \/ /\ RC!AcceptHeader(fh[2]) /\ hdrFrame' = fh[1]
           /\ misread' = (misread \/ fh[1] = 0)
  BY DEF ReadHeader
<1>2. currentState = "readingHeader"
  BY <1>1 DEF RC!RejectHeader, RC!AcceptHeader
<1>3. ReadsHeader
  BY <1>2 DEF InPhase, Idle, Announced, ReadsPayload, ReadsShort, Starves
<1>4. HeaderBlockThere
  <2>1. Len(nibbles) >= HeaderRows
    BY <1>3 DEF ReadHeader, ReadsHeader
  <2>2. ~(Len(nibbles) < HeaderRows)
    BY <2>1, Sizes DEF LoopType, RC!TypeOK
  <2> QED  BY <1>3, <2>2 DEF ReadsHeader, HeaderBlockComes, OldNibbles
<1>5. InOrder'
  BY DEF ReadHeader, InOrder, detVars
<1>6. CASE RC!RejectHeader(fh[2])
  BY <1>3, <1>4, <1>5, <1>6, HeaderRejected DEF InPhase
<1>7. CASE RC!AcceptHeader(fh[2]) /\ hdrFrame' = fh[1] /\ misread' = (misread \/ fh[1] = 0)
  <2>1. PICK m \in 0..Len(nibbles) :
          /\ Len(nibbles) = m + HeaderRows
          /\ OldNibbles(m)
          /\ \A i \in 1..HeaderRows : nibbles[m + i] = <<Now, 0, i>>
    BY <1>4 DEF HeaderBlockThere
  <2>2. m \in Nat /\ fh[1] # 0
    <3>1. fh[1] # 0
      BY <1>7, Zenon
    <3> QED  BY <2>1, <3>1
  <2>3. m = 0 /\ fh[1] = Now /\ fh[2] = hdr[Now]
    BY <1>3, <2>1, <2>2, HeaderMet
  <2>4. Len(nibbles) = HeaderRows /\ \A i \in 1..HeaderRows : nibbles[i] = <<Now, 0, i>>
    BY <2>1, <2>3, Sizes
  <2>5. ReadsPayload' \/ ReadsShort' \/ Starves'
    BY <1>3, <1>4, <1>7, <2>3, <2>4, HeaderAccepted, ShortHeaderAccepted
  <2> QED  BY <1>5, <2>5 DEF InPhase
<1> QED  BY <1>1, <1>6, <1>7

(* The payload handed on is the frame's own, whole, and the last of it.    *)
LEMMA PayloadThere ==
  ASSUME LoopType, ReadsPayload, Len(nibbles) >= RC!PayloadNeed
  PROVE  /\ Len(nibbles) = RC!PayloadNeed
         /\ symbols = <<>> /\ setNq = <<>> /\ nOutputItemsToProduce = 0
         /\ nibbles = BodyNibbles(Now)
<1> DEFINE B == BlocksOf(hdr[Now])
           c == hdr[Now].CR + 4
<1>1. Now \in Frames /\ B \in Nat /\ c \in Nat /\ c > 0
  BY FrameSizes DEF ReadsPayload, Tracking, OnAir
<1>2. pos \in Nat /\ nOutputItemsToProduce \in Nat /\ symbols \in Seq(Symbol)
      /\ nibbles \in Seq(Nibble) /\ setNq \in Seq(Nat)
  BY DEF LoopType, SyncType, SymbolsType, ChainType
<1>3. PICK d \in 0..B : BlocksDecoded(d)
  BY DEF ReadsPayload
<1>4. RC!PayloadNeed = (SF - 7) + B * PayloadRows
  BY DEF ReadsPayload
<1>5. Len(nibbles) = (SF - 7) + d * PayloadRows
  BY <1>3 DEF BlocksDecoded
<1>6. d = B
  <2>1. ASSUME d # B PROVE FALSE
    <3>1. d \in Nat /\ (d + 1) * PayloadRows = d * PayloadRows + PayloadRows
          /\ d * PayloadRows \in Nat /\ B * PayloadRows \in Nat
      BY <1>1, Sizes, TimesNext
    <3>2. (d + 1) * PayloadRows <= B * PayloadRows
      BY <1>1, <2>1, Sizes, TimesMonotone
    <3> QED  BY <1>4, <1>5, <3>1, <3>2, Sizes
  <2> QED  BY <2>1
<1>7. B * c \in Nat /\ pos >= 8 + B * c /\ SymbolsWait(pos - (8 + B * c))
  <2>1. pos >= 8 + B * c /\ SymbolsWait(pos - (8 + B * c))
    BY <1>3, <1>6 DEF BlocksDecoded
  <2> QED  BY <1>1, <2>1, TimesNext
<1>8. setNq = <<>> /\ pos = 8 + B * c /\ nOutputItemsToProduce = 0
  <2> DEFINE y == B * c
  <2>1. WillReach(8 + y)
    BY DEF ReadsPayload, SymbolsOf
  <2>2. Len(setNq) = 1 => setNq[1] \in Nat
    BY <1>2, ItemsOf
  <2>3. y \in Nat /\ pos >= 8 + y
    BY <1>7
  <2> HIDE DEF y
  <2>4. setNq = <<>> /\ pos = 8 + y /\ nOutputItemsToProduce = 0
    BY <1>2, <2>1, <2>2, <2>3 DEF WillReach
  <2> QED  BY <2>4 DEF y
<1>9. symbols = <<>>
  <2>1. Len(symbols) = 0
    BY <1>1, <1>7, <1>8 DEF SymbolsWait
  <2> QED  BY <1>2, <2>1
<1>10. nibbles = BodyNibbles(Now)
  <2>1. nibbles = [i \in 1..Len(nibbles) |-> nibbles[i]]
    BY <1>2
  <2>2. \A i \in 1..Len(nibbles) : nibbles[i] = BodyNibble(Now, i)
    BY <1>3 DEF BlocksDecoded
  <2>3. [i \in 1..Len(nibbles) |-> nibbles[i]] = [i \in 1..Len(nibbles) |-> BodyNibble(Now, i)]
    BY <2>2
  <2> QED  BY <1>5, <1>6, <2>1, <2>3 DEF BodyNibbles
<1> QED  BY <1>4, <1>5, <1>6, <1>8, <1>9, <1>10

(* What is left of a short frame's header block starts no block.           *)
LEMMA ShortThere ==
  ASSUME LoopType, ReadsShort
  PROVE  \A i \in 1..Len(nibbles) : ~StartsBlock(nibbles[i])
<1>1. (SF - 7) + 0 * PayloadRows = SF - 7
  BY Sizes
<1>2. nibbles = [i \in 1..(SF - 7) |-> BodyNibble(Now, i)]
  BY <1>1 DEF ReadsShort, BodyNibbles
<1>3. Len(nibbles) = SF - 7
  BY <1>2, Sizes
<1>4. ASSUME NEW i \in 1..(SF - 7) PROVE ~StartsBlock(nibbles[i])
  <2>1. nibbles[i] = <<Now, 0, 5 + i>>
    BY <1>2 DEF BodyNibble
  <2> QED  BY <2>1, Sizes DEF StartsBlock
<1> QED  BY <1>3, <1>4

LEMMA OneSendPayload ==
  ASSUME LoopType, InOrder, InPhase, SendPayload
  PROVE  InOrder' /\ InPhase'
<1>0. Len(nibbles) \in Nat /\ RC!PayloadNeed \in Nat
  BY Sizes DEF RC!PayloadNeed, RC!CRCNibbles, LoopType, RC!TypeOK
<1>1. ReadsPayload \/ ReadsShort
  <2>1. ~Starves
    BY <1>0 DEF Starves, SendPayload
  <2> QED
    BY <2>1 DEF SendPayload, RC!SendPayload, InPhase, Idle, Announced, ReadsHeader
<1>2. UNCHANGED <<given, detVars, gateVars, syncIn, csVars, deintVars, symbols, syncMsgs,
                  hdrFrame, overrun>>
      /\ RC!SendPayload /\ Forward(pending) /\ Len(nibbles) >= RC!PayloadNeed
      /\ nibbles' = SubSeq(nibbles, RC!PayloadNeed + 1, Len(nibbles))
  BY DEF SendPayload
<1>3. /\ \A i \in (RC!PayloadNeed + 1)..Len(nibbles) : ~StartsBlock(nibbles[i])
      /\ symbols = <<>> /\ setNq = <<>> /\ nOutputItemsToProduce = 0
      /\ nibbles = BodyNibbles(Now)
  <2>1. CASE ReadsPayload
    BY <1>0, <1>2, <2>1, PayloadThere
  <2>2. CASE ReadsShort
    BY <1>0, <2>2, ShortThere DEF ReadsShort
  <2> QED  BY <1>1, <2>1, <2>2
<1>4. nibbles \in Seq(Nibble) /\ Now \in Frames /\ Now # 0 /\ Now \in Nat /\ hdrFrame = Now
      /\ NoSegments /\ \A i \in 1..Len(delivered) : delivered[i] < Now
  BY <1>1, Sizes DEF LoopType, ChainType, ReadsPayload, ReadsShort, Tracking, OnAir, Frames
<1>5. \A i \in 1..Len(nibbles') : ~StartsBlock(nibbles'[i])
  <2> PICK k \in Nat : k = RC!PayloadNeed
    BY <1>0
  <2>1. k \in 0..Len(nibbles)
    BY <1>0, <1>2
  <2>2. Len(nibbles') = Len(nibbles) - k
        /\ \A i \in 1..Len(nibbles') : nibbles'[i] = nibbles[k + i]
    BY <1>2, <1>4, <2>1, DropFirst
  <2> QED  BY <1>0, <1>3, <2>1, <2>2
<1> DEFINE used == payloadNibblesToRead + RC!CRCNibbles(payloadCRCPresent)
<1>6. delivered' = Append(delivered, Now)
  <2>1. used \in 0..Len(nibbles)
    <3>1. payloadNibblesToRead \in Nat /\ extraNibblesToConsume \in Nat
          /\ RC!CRCNibbles(payloadCRCPresent) \in Nat
      BY Sizes DEF LoopType, RC!TypeOK, RC!CRCNibbles
    <3> QED  BY <1>0, <1>2, <3>1 DEF RC!PayloadNeed
  <2>2. IsPrefix(SubSeq(nibbles, 1, used), nibbles)
    <3> DEFINE s == SubSeq(nibbles, 1, used)
    <3>1. s \in Seq(Nibble) /\ Len(s) = used /\ Len(s) <= Len(nibbles)
          /\ \A i \in 1..Len(s) : s[i] = nibbles[i]
      BY <1>4, <2>1, TakeFirst
    <3> HIDE DEF s, used
    <3>2. SubSeq(s, 1, Len(s)) = SubSeq(nibbles, 1, Len(s))
      BY <1>4, <3>1, SameStart
    <3> QED  BY <3>1, <3>2 DEF IsPrefix, s
  <2> QED  BY <1>3, <1>4, <2>2, Zenon DEF SendPayload
<1>7. InOrder'
  <2>1. delivered \in Seq(0..NFrames) /\ Now \in 0..NFrames /\ nextFrame \in Nat
        /\ Now = nextFrame - 1
    BY <1>4, Sizes DEF LoopType, HistoryType, DetectorType, Frames, Now
  <2>2. Len(delivered') = Len(delivered) + 1 /\ delivered'[Len(delivered) + 1] = Now
        /\ \A i \in 1..Len(delivered) : delivered'[i] = delivered[i]
    BY <1>6, <2>1, AppendAt
  <2>3. nextFrame' = nextFrame
    BY <1>2 DEF detVars
  <2>4. ASSUME NEW i \in 1..Len(delivered')
        PROVE  /\ delivered'[i] # 0 /\ delivered'[i] < nextFrame
               /\ i > 1 => delivered'[i - 1] < delivered'[i]
    <3>1. CASE i \in 1..Len(delivered)
      <4>1. i > 1 => i - 1 \in 1..Len(delivered)
        BY <3>1
      <4> QED  BY <2>2, <3>1, <4>1 DEF InOrder
    <3>2. CASE i = Len(delivered) + 1
      <4>1. i > 1 => i - 1 \in 1..Len(delivered)
        BY <2>1, <3>2
      <4> QED  BY <1>4, <2>1, <2>2, <3>2, <4>1
    <3> QED  BY <2>1, <2>2, <3>1, <3>2
  <2> QED  BY <2>3, <2>4 DEF InOrder
<1>8. setNq' = setNq /\ "sync.reset" \in pending'
  BY <1>2, SendPayloadOut, NothingSent, ResetSent
<1>9. currentState' = "waitingForSync" /\ syncMsgs' = 0 /\ curFrame' = Now'
  BY <1>1, <1>2
     DEF RC!SendPayload, ReadsPayload, ReadsShort, Tracking, Now, detVars, csVars
<1>10. NoSegments' /\ Leftover'
  <2>1. NoSegments'
    BY <1>2, <1>4 DEF NoSegments, gateVars
  <2> QED  BY <1>5, <2>1 DEF Leftover, StartsBlock
<1>11. Idle'
  BY <1>2, <1>3, <1>8, <1>9, <1>10 DEF Idle, csVars
<1> QED  BY <1>7, <1>11 DEF InPhase

LEMMA OneAtATimeInit == Init => OneAtATime
<1> SUFFICES ASSUME Init PROVE InOrder /\ InPhase /\ Windows
  BY DEF OneAtATime
<1>1. delivered = <<>> /\ nibbles = <<>> /\ symbols = <<>> /\ setNq = <<>>
      /\ NoSegments /\ currentState = "waitingForSync" /\ syncMsgs = 0
      /\ nOutputItemsToProduce = 0 /\ pending = {} /\ nextFrame = 1
  BY DEF Init, NoSegments
<1>2. ~syncd
  BY Zenon DEF Init
<1>3. InOrder /\ Windows
  BY <1>1 DEF InOrder, Windows
<1>4. Idle
  BY <1>1, <1>2 DEF Idle, Leftover
<1> QED  BY <1>3, <1>4 DEF InPhase

(* What has disturbed the receiver once stays recorded.                    *)
LEMMA DisturbedForEver ==
  ASSUME LoopType, LoopType', [Next]_vars, Undisturbed'
  PROVE  Undisturbed
<1>1. ~cut
  <2>1. CASE Detect
    BY <2>1 DEF Detect, Undisturbed
  <2>2. CASE ~Detect
    BY <2>2 DEF Next, vars, histVars, Detector, DetectorReset, Timeout, PowerDrops, FFTMax,
       FFTMaxMessages, FFTMaxWork, Correlation, CorrelationMessages, CorrelationWork,
       CorrelationSync, SyncMessages, Search, ConsumePreamble, Produce, Deinterleave,
       DeintMessages, DeintWork, Controller, HandleSync, DropNibble, ReadHeader, SendPayload,
       Undisturbed
  <2> QED  BY <2>1, <2>2
<1>2. ~overrun
  <2>1. CASE HandleSync
    BY <2>1, Zenon DEF HandleSync, Undisturbed
  <2>2. CASE ~HandleSync
    BY <2>2 DEF Next, vars, histVars, Detector, Detect, DetectorReset, Timeout, PowerDrops, FFTMax,
       FFTMaxMessages, FFTMaxWork, Correlation, CorrelationMessages, CorrelationWork,
       CorrelationSync, SyncMessages, Search, ConsumePreamble, Produce, Deinterleave,
       DeintMessages, DeintWork, Controller, DropNibble, ReadHeader, SendPayload,
       Undisturbed
  <2> QED  BY <2>1, <2>2
<1>3. ~misread
  <2>1. CASE ReadHeader
    <3>1. misread' = misread \/ \E fh \in HeadersAtHead : misread' = (misread \/ fh[1] = 0)
      BY <2>1, Zenon DEF ReadHeader
    <3> QED  BY <3>1, Zenon DEF Undisturbed
  <2>2. CASE ~ReadHeader
    BY <2>2 DEF Next, vars, histVars, Detector, Detect, DetectorReset, Timeout, PowerDrops, FFTMax,
       FFTMaxMessages, FFTMaxWork, Correlation, CorrelationMessages, CorrelationWork,
       CorrelationSync, SyncMessages, Search, ConsumePreamble, Produce, Deinterleave,
       DeintMessages, DeintWork, Controller, HandleSync, DropNibble, SendPayload,
       Undisturbed
  <2> QED  BY <2>1, <2>2
<1> QED  BY <1>1, <1>2, <1>3 DEF Undisturbed

LEMMA OneAtATimeStep ==
  ASSUME LoopType, LoopType', OneAtATime, [Next]_vars
  PROVE  OneAtATime'
<1> SUFFICES ASSUME Undisturbed' PROVE InOrder' /\ InPhase' /\ Windows'
  BY DEF OneAtATime
<1>1. ~cut' /\ ~overrun' /\ ~misread'
  BY DEF Undisturbed
<1>2. InOrder /\ InPhase /\ Windows
  BY DisturbedForEver DEF OneAtATime
<1>3. Windows'
  BY <1>1, <1>2, WindowsStep
<1>4. CASE Detector
  BY <1>1, <1>2, <1>3, <1>4, OneDetect, OneClose, OneKept DEF Detector
<1>5. CASE FFTMax \/ Correlation
  BY <1>2, <1>3, <1>5, OneKept, OneGateWork DEF FFTMax, Correlation
<1>6. CASE CorrelationSync
  BY <1>2, <1>3, <1>6, OneSyncMessages, OneSearch, OneKept, OneProduce DEF CorrelationSync
<1>7. CASE Deinterleave
  BY <1>2, <1>3, <1>7, OneKept, OneDeintWork DEF Deinterleave
<1>8. CASE Controller
  BY <1>1, <1>2, <1>3, <1>8, OneHandleSync, OneDropNibble, OneReadHeader, OneSendPayload
     DEF Controller
<1>9. CASE UNCHANGED vars
  BY <1>2, <1>3, <1>9, OneKept
<1> QED  BY <1>4, <1>5, <1>6, <1>7, <1>8, <1>9 DEF Next

LEMMA OneAtATimeCorrect == Spec => [](LoopType /\ OneAtATime)
<1>1. Init => LoopType /\ OneAtATime
  BY LoopTypeInit, OneAtATimeInit
<1>2. LoopType /\ OneAtATime /\ [Next]_vars => (LoopType /\ OneAtATime)'
  BY LoopTypeStep, OneAtATimeStep
<1> QED  BY <1>1, <1>2, PTL DEF Spec

(* The symbols waiting at the deinterleaver are the frame's latest ones,   *)
(* from the start of a block on, or noise.                                 *)
LEMMA SymbolsAligned ==
  ASSUME LoopType, InPhase, NEW i \in 1..Len(symbols), symbols[i] # Noise, symbols[i][2] = 1
  PROVE  i = 1
<1>1. symbols # <<>> /\ pos \in Nat /\ symbols \in Seq(Symbol)
  BY DEF LoopType, SyncType, SymbolsType
<1>2. CASE Idle \/ Announced \/ ReadsShort
  BY <1>1, <1>2 DEF Idle, Announced, ReadsShort
<1>3. CASE ReadsHeader
  <2>1. SymbolsWait(pos)
    BY <1>1, <1>3 DEF ReadsHeader, HeaderBlockComes, HeaderBlockThere
  <2>2. symbols[i] = <<Now, (pos - pos) + i>>
    BY <2>1 DEF SymbolsWait
  <2> QED  BY <1>1, <2>2
<1>4. CASE ReadsPayload
  <2>1. Now \in Frames /\ hdr[Now].CR + 4 \in Nat
    BY <1>4, FrameSizes DEF ReadsPayload, Tracking, OnAir
  <2>2. PICK d \in 0..BlocksOf(hdr[Now]) : BlocksDecoded(d)
    BY <1>4 DEF ReadsPayload
  <2> DEFINE done == 8 + d * (hdr[Now].CR + 4)
  <2>3. done \in Nat /\ done >= 8
    <3>1. d \in Nat
      OBVIOUS
    <3>2. d * (hdr[Now].CR + 4) \in Nat
      BY <2>1, <3>1, TimesNext
    <3> QED  BY <3>2
  <2>4. SymbolsWait(pos - done) /\ pos >= done
    BY <2>2 DEF BlocksDecoded
  <2> HIDE DEF done
  <2>5. symbols[i] = <<Now, (pos - (pos - done)) + i>>
    BY <2>4 DEF SymbolsWait
  <2> QED  BY <1>1, <2>3, <2>5
<1>5. CASE Starves
  BY <1>5 DEF Starves
<1> QED  BY <1>2, <1>3, <1>4, <1>5 DEF InPhase

(* A frame that goes on behind its header block does not starve.           *)
LEMMA LongNotStarved ==
  ASSUME LoopType, LongFrames, Starves
  PROVE  FALSE
<1> DEFINE h == hdr[Now]
<1>1. Now \in Frames /\ h \in scenario.headers /\ h \in Headers
  <2>1. Now \in Frames
    BY DEF Starves, Tracking, OnAir
  <2>2. h \in scenario.headers /\ scenario \in Scenarios
    BY <2>1 DEF LoopType
  <2> QED  BY <2>1, <2>2, HeaderOf
<1>2. RC!Accepted(h) /\ BlocksOf(h) = 0
  BY DEF Starves
<1> HIDE DEF h
<1>3. RC!NibblesToRead(h) > RC!HeaderBlockRest
  BY <1>1, <1>2 DEF LongFrames, RC!NibblesToRead
<1>4. BlocksOf(h) > 0
  BY <1>1, <1>2, <1>3, RequestForFrame
<1> QED  BY <1>2, <1>4
-----------------------------------------------------------------------------
(* What holds as long as nothing the code does not provide for happens.    *)

(* Every payload handed on is one frame's, whole, and in the order of the  *)
(* air ...                                                                 *)
THEOREM FramesIntact == Spec => []FrameIntegrity
<1>1. LoopType /\ OneAtATime => FrameIntegrity
  <2> SUFFICES ASSUME LoopType, OneAtATime, Undisturbed, NEW i \in DOMAIN delivered
               PROVE  delivered[i] # 0 /\ (i > 1 => delivered[i - 1] < delivered[i])
    BY DEF FrameIntegrity
  <2>1. i \in 1..Len(delivered)
    BY DEF LoopType, HistoryType
  <2> QED  BY <2>1 DEF OneAtATime, InOrder
<1> QED  BY <1>1, OneAtATimeCorrect, PTL

(* ... no symbol of one frame is left over in front of another's ...       *)
THEOREM SymbolsNotLeftOver == Spec => []BlocksAligned
<1>1. LoopType /\ OneAtATime => BlocksAligned
  <2> SUFFICES ASSUME LoopType, OneAtATime, Undisturbed,
                      NEW i \in DOMAIN symbols, symbols[i] # Noise, symbols[i][2] = 1
               PROVE  i % codeLength = 1
    BY DEF BlocksAligned
  <2>1. i \in 1..Len(symbols) /\ codeLength \in 4..11
    BY DEF LoopType, SymbolsType, ChainType
  <2>2. i = 1
    BY <2>1, SymbolsAligned DEF OneAtATime
  <2> QED  BY <2>1, <2>2
<1> QED  BY <1>1, OneAtATimeCorrect, PTL

(* ... the controller's reset never closes the window on a frame that      *)
(* still needs it ...                                                      *)
THEOREM WindowsOutlastFrames == Spec => []WindowsKept
<1>1. OneAtATime => WindowsKept
  BY DEF OneAtATime, Windows, WindowsKept
<1> QED  BY <1>1, OneAtATimeCorrect, PTL

(* ... the receiver comes to rest in the middle of a frame only when       *)
(* padding of an earlier frame is added to one that fits the header block, *)
THEOREM StarvesOnlyByPadding == Spec => []StarvationExplained
<1>1. LoopType /\ OneAtATime => StarvationExplained
  <2> SUFFICES ASSUME LoopType, OneAtATime, Undisturbed, Quiet, currentState # "waitingForSync"
               PROVE  currentState = "sendingPayload" /\ ShortFrame /\ extraNibblesToConsume > 0
    BY DEF StarvationExplained
  <2>1. Starves
    BY QuietOnly DEF OneAtATime, Idle
  <2> QED  BY <2>1 DEF Starves
<1> QED  BY <1>1, OneAtATimeCorrect, PTL

(* and so never when all frames go on behind it ...                        *)
NoStarvation == LongFrames /\ Undisturbed /\ Quiet => currentState = "waitingForSync"

THEOREM NeverStarves == Spec => []NoStarvation
<1>1. LoopType /\ OneAtATime => NoStarvation
  <2> SUFFICES ASSUME LoopType, OneAtATime, LongFrames, Undisturbed, Quiet
               PROVE  currentState = "waitingForSync"
    BY DEF NoStarvation
  <2>1. Idle
    BY QuietOnly, LongNotStarved DEF OneAtATime
  <2> QED  BY <2>1 DEF Idle
<1> QED  BY <1>1, OneAtATimeCorrect, PTL

(* ... and after announcing a frame the synchroniser waits for the         *)
(* controller: NoSymbolsBeforeStart is broken only after a frame was cut,  *)
(* a sync overran or garbage was read.                                     *)
SyncWaitsForController ==
  [][Undisturbed /\ syncMsgs > 0 /\ syncMsgs' = syncMsgs
       => Len(symbols') <= Len(symbols)]_vars

THEOREM NoEarlySymbols == Spec => SyncWaitsForController
<1> DEFINE A == Undisturbed /\ syncMsgs > 0 /\ syncMsgs' = syncMsgs
                  => Len(symbols') <= Len(symbols)
<1>1. LoopType /\ OneAtATime /\ [Next]_vars => [A]_vars
  <2> SUFFICES ASSUME LoopType, OneAtATime, Next, Undisturbed, syncMsgs > 0
               PROVE  Len(symbols') <= Len(symbols)
    OBVIOUS
  <2>1. Announced
    BY DEF OneAtATime, InPhase, Idle, ReadsHeader, ReadsPayload, ReadsShort, Starves
  <2>2. symbols = <<>> /\ nOutputItemsToProduce = 0 /\ codeLength \in 4..11
    BY <2>1 DEF Announced, LoopType, ChainType
  <2>3. Len(symbols) = 0 /\ ~DeintWork /\ ~(\E n \in 1..nOutputItemsToProduce : Produce(n))
    BY <2>2 DEF DeintWork
  <2>4. UNCHANGED symbols
    BY <2>3 DEF Next, Detector, Detect, DetectorReset, Timeout, PowerDrops, FFTMax,
         FFTMaxMessages, FFTMaxWork, Correlation, CorrelationMessages, CorrelationWork,
         CorrelationSync, SyncMessages, Search, ConsumePreamble, Deinterleave,
         DeintMessages, Controller, HandleSync, DropNibble, ReadHeader, SendPayload
  <2> QED  BY <2>3, <2>4
<1> QED  BY <1>1, OneAtATimeCorrect, PTL DEF Spec, SyncWaitsForController
-----------------------------------------------------------------------------
(* Frames that find the receiver quiet, in windows that outlast them, are  *)
(* never disturbed: no old nibbles are about when the next one comes.      *)
Clean ==
  /\ ~NoSegments \/ syncMsgs > 0 => nibbles = <<>>
  /\ currentState = "readingHeader" => Len(nibbles) \in {0, HeaderRows}

SpacedInv == Spaced => Undisturbed /\ Clean

(* Steps that leave the nibbles and the controller alone and bring nothing *)
(* new to it.                                                              *)
LEMMA CleanKept ==
  ASSUME Undisturbed, Clean, NoSegments => NoSegments',
         UNCHANGED <<syncMsgs, nibbles, currentState, overrun, misread, cut>>
  PROVE  Undisturbed' /\ Clean'
BY DEF Undisturbed, Clean, HeaderRows

LEMMA DetectClean ==
  ASSUME LoopType, Spaced, Undisturbed, InPhase, Windows, Detect
  PROVE  Undisturbed' /\ Clean'
<1>1. Quiet
  BY DEF Detect, Spaced
<1>2. Idle
  BY <1>1, QuietOnly, LongNotStarved DEF Spaced
<1>3. ~UnderWay /\ nibbles = <<>>
  BY <1>1, <1>2 DEF Quiet, UnderWay, Idle, ControllerStarved
<1>4. ~(scenario.window < SymbolsOf(nextFrame))
  <2>1. nextFrame \in Frames /\ scenario.window \in Nat
    BY DetectedFrame DEF Detect
  <2>2. SymbolsOf(nextFrame) \in Nat
    BY <2>1, SymbolsOfType
  <2> QED  BY <2>1, <2>2 DEF Spaced
<1>5. ~cut' /\ UNCHANGED <<overrun, misread, nibbles, currentState>>
  BY <1>3, <1>4 DEF Detect, Undisturbed, ctlVars
<1> QED  BY <1>2, <1>3, <1>5 DEF Undisturbed, Clean, Idle

LEMMA SearchClean ==
  ASSUME Undisturbed, Clean, Search
  PROVE  Undisturbed' /\ Clean'
<1>1. nibbles = <<>> /\ UNCHANGED <<nibbles, currentState, overrun, misread, cut>>
  BY DEF Search, Clean, NoSegments, ctlVars, histVars
<1> QED  BY <1>1 DEF Undisturbed, Clean, HeaderRows

LEMMA DeintWorkClean ==
  ASSUME LoopType, Undisturbed, Clean, InPhase, DeintWork
  PROVE  Undisturbed' /\ Clean'
<1>1. UNCHANGED <<gateVars, syncIn, syncMsgs, currentState, overrun, misread, cut>>
  BY DEF DeintWork, ctlVars, msgVars, histVars
<1>2. Len(symbols) >= codeLength /\ codeLength \in 4..11 /\ symbols \in Seq(Symbol)
      /\ symbols # <<>> /\ nibbles \in Seq(Nibble)
  BY DEF DeintWork, LoopType, SymbolsType, ChainType
<1>3. NoSegments /\ syncMsgs = 0
  BY <1>2 DEF InPhase, Idle, Announced, ReadsHeader, ReadsPayload, ReadsShort, Starves, Tracking
<1>4. ASSUME currentState = "readingHeader" PROVE Len(nibbles') = HeaderRows
  <2>1. ReadsHeader
    BY <1>4 DEF InPhase, Idle, Announced, ReadsPayload, ReadsShort, Starves
  <2>2. Len(nibbles) = 0 /\ dSF = HeaderRows
    <3>1. Len(nibbles) < HeaderRows
      BY <1>2, <2>1 DEF ReadsHeader, HeaderBlockComes, HeaderBlockThere, OldNibbles
    <3> QED  BY <1>4, <2>1, <3>1, Sizes DEF Clean, ReadsHeader, ComingSF, DeintWork
  <2> DEFINE block == SubSeq(symbols, 1, codeLength)
  <2>3. block \in Seq(Symbol) /\ Len(block) > 0
    <3>1. codeLength \in 0..Len(symbols)
      BY <1>2
    <3> QED  BY <1>2, <3>1, TakeFirst
  <2>4. Decoded(block) \in Seq(Nibble) /\ Len(Decoded(block)) = HeaderRows
    BY <2>2, <2>3, DecodedType
  <2>5. nibbles' = nibbles \o Decoded(block)
    BY DEF DeintWork
  <2> HIDE DEF block
  <2> QED  BY <1>2, <2>2, <2>4, <2>5, Sizes
<1> QED  BY <1>1, <1>3, <1>4 DEF Undisturbed, Clean, NoSegments, gateVars, HeaderRows

LEMMA HandleSyncClean ==
  ASSUME Undisturbed, Clean, HandleSync
  PROVE  Undisturbed' /\ Clean'
<1>1. nibbles = <<>> /\ UNCHANGED <<nibbles, misread, cut>>
  BY DEF HandleSync, Clean
<1>2. ~(Len(nibbles) >= RC!SFHeader)
  BY <1>1, Sizes
<1>3. ~overrun'
  BY <1>2, Zenon DEF HandleSync, Undisturbed
<1> QED  BY <1>1, <1>3 DEF Undisturbed, Clean

LEMMA ReadHeaderClean ==
  ASSUME LoopType, Undisturbed, Clean, InPhase, ReadHeader
  PROVE  Undisturbed' /\ Clean'
<1>1. PICK fh \in HeadersAtHead :
        \/ RC!RejectHeader(fh[2]) /\ UNCHANGED misread
        \/ /\ RC!AcceptHeader(fh[2])
           /\ misread' = (misread \/ fh[1] = 0)
  BY DEF ReadHeader
<1>2. currentState = "readingHeader" /\ currentState' # "readingHeader"
  BY <1>1 DEF RC!RejectHeader, RC!AcceptHeader
<1>3. ReadsHeader
  BY <1>2 DEF InPhase, Idle, Announced, ReadsPayload, ReadsShort, Starves
<1>4. UNCHANGED <<gateVars, syncIn, syncMsgs, overrun, cut>> /\ NoSegments /\ syncMsgs = 0
  BY <1>3 DEF ReadHeader, ReadsHeader, Tracking
<1>5. Len(nibbles) >= HeaderRows /\ Len(nibbles) = HeaderRows
  BY <1>2, <1>3, Sizes DEF ReadHeader, ReadsHeader, Clean
<1>6. PICK m \in 0..Len(nibbles) :
        /\ Len(nibbles) = m + HeaderRows
        /\ OldNibbles(m)
        /\ \A i \in 1..HeaderRows : nibbles[m + i] = <<Now, 0, i>>
  <2>1. ~HeaderBlockComes
    BY <1>5, Sizes DEF HeaderBlockComes, OldNibbles
  <2> QED  BY <1>3, <2>1 DEF ReadsHeader, HeaderBlockThere
<1>7. m \in Nat /\ m = 0
  BY <1>5, <1>6, Sizes
<1>8. fh[1] = Now /\ Now # 0
  <2>1. fh[1] = Now
    BY <1>3, <1>6, <1>7, HeaderMet
  <2> QED  BY <1>3, <2>1, Sizes DEF ReadsHeader, Tracking, OnAir, Frames
<1>9. ~misread'
  <2>1. fh[1] # 0
    BY <1>8
  <2> QED  BY <1>1, <2>1, Zenon DEF Undisturbed
<1> QED  BY <1>2, <1>4, <1>9 DEF Undisturbed, Clean, NoSegments, gateVars

LEMMA ControllerWorkClean ==
  ASSUME Undisturbed, Clean, InPhase, DropNibble \/ SendPayload
  PROVE  Undisturbed' /\ Clean'
<1>1. UNCHANGED <<gateVars, syncIn, syncMsgs, overrun, misread, cut>>
      /\ currentState' = "waitingForSync"
  BY DEF DropNibble, SendPayload, RC!DropNibble, RC!SendPayload, msgVars, histVars
<1>2. NoSegments /\ syncMsgs = 0
  <2>1. CASE DropNibble
    <3>1. syncMsgs = 0 /\ nibbles # <<>>
      BY <2>1 DEF DropNibble
    <3> QED  BY <3>1 DEF Clean
  <2>2. CASE SendPayload
    BY <2>2 DEF SendPayload, RC!SendPayload, InPhase, Idle, Announced, ReadsHeader, ReadsPayload,
           ReadsShort, Starves, Tracking
  <2> QED  BY <2>1, <2>2
<1> QED  BY <1>1, <1>2 DEF Undisturbed, Clean, NoSegments, gateVars

LEMMA SpacedStep ==
  ASSUME LoopType, OneAtATime, SpacedInv, [Next]_vars
  PROVE  SpacedInv'
<1>1. Spaced' => Spaced
  <2>1. \A f : SymbolsOf(f)' = SymbolsOf(f)
    BY GivenUnchanged, SymbolsOfSame
  <2> QED
    BY <2>1, GivenUnchanged
       DEF Spaced, LongFrames, given, RC!Accepted, RC!CRCNibbles, RC!HeaderBlockRest
<1> SUFFICES ASSUME Spaced PROVE Undisturbed' /\ Clean'
  BY <1>1 DEF SpacedInv
<1>2. Undisturbed /\ Clean /\ InPhase /\ Windows
  BY DEF SpacedInv, OneAtATime
<1>3. CASE Detect
  BY <1>2, <1>3, DetectClean
<1>4. CASE Search \/ DeintWork
  BY <1>2, <1>4, SearchClean, DeintWorkClean
<1>5. CASE Controller
  BY <1>2, <1>5, HandleSyncClean, ReadHeaderClean, ControllerWorkClean DEF Controller
<1>6. CASE FFTMaxWork \/ CorrelationWork
  <2>1. ~NoSegments
    BY <1>6 DEF FFTMaxWork, CorrelationWork, NoSegments
  <2>2. UNCHANGED <<syncMsgs, nibbles, currentState, overrun, misread, cut>>
    BY <1>6 DEF FFTMaxWork, CorrelationWork, ctlVars, msgVars, histVars
  <2> QED  BY <1>2, <2>1, <2>2, CleanKept
<1>7. CASE ~Detect /\ ~Search /\ ~DeintWork /\ ~Controller /\ ~FFTMaxWork /\ ~CorrelationWork
  <2>1. UNCHANGED <<fftIn, corrIn, syncIn, syncMsgs, nibbles, currentState, overrun, misread, cut>>
    BY <1>7 DEF Next, vars, gateVars, ctlVars, msgVars, histVars, Detector, DetectorReset, Timeout,
       PowerDrops, FFTMax, FFTMaxMessages, Correlation, CorrelationMessages, CorrelationSync,
       SyncMessages, ConsumePreamble, Produce, Deinterleave, DeintMessages
  <2> QED  BY <1>2, <2>1, CleanKept DEF NoSegments
<1> QED  BY <1>3, <1>4, <1>5, <1>6, <1>7

THEOREM SpacedUndisturbed == Spec => []PauseSuffices
<1>1. Init => SpacedInv
  BY DEF Init, SpacedInv, Undisturbed, Clean, NoSegments
<1>2. LoopType /\ OneAtATime /\ SpacedInv /\ [Next]_vars => SpacedInv'
  BY SpacedStep
<1>3. SpacedInv => PauseSuffices
  BY DEF SpacedInv, PauseSuffices
<1> QED  BY <1>1, <1>2, <1>3, OneAtATimeCorrect, PTL DEF Spec
=============================================================================
