---------------------- MODULE ReceiverControllerProofs ----------------------
(***************************************************************************)
(* Proofs about the receiver controller, for every spreading factor, data  *)
(* rate mode, set of headers and order of messages and nibbles.            *)
(***************************************************************************)
EXTENDS FrameFormat, Basics

-----------------------------------------------------------------------------
(* Sizes of blocks, headers and requests.                                  *)

(* The sizes derived from SF are natural numbers.                          *)
LEMMA SizesType ==
  /\ SFHeader \in Nat /\ SFHeader \in {SF, SF - 2}
  /\ SFPayload \in Nat /\ SFPayload > 0 /\ SFPayload <= SF
  /\ SFPayload \in {SF, SF - 2}
  /\ HeaderBlockRest \in Nat
BY SFAssumption, DataRateAssumption DEF SFHeader, SFPayload, HeaderBlockRest

(* What a header holds, as far as sizes go.                                *)
LEMMA HeaderType ==
  ASSUME NEW h \in Headers
  PROVE  /\ h.len \in 0..255 /\ h.crc \in BOOLEAN /\ h.CR \in 0..7
         /\ CRCNibbles(h.crc) \in {0, 4}
         /\ NibblesToRead(h) \in Nat
         /\ NibblesToRead(h) = 2 * h.len + CRCNibbles(h.crc)
<1>1. h \in HeaderRecord
  BY HeadersAssumption
<1>2. h.len \in 0..255 /\ h.crc \in BOOLEAN /\ h.CR \in 0..7
  BY <1>1 DEF HeaderRecord
<1>3. CRCNibbles(h.crc) \in {0, 4}
  BY DEF CRCNibbles
<1> QED  BY <1>2, <1>3 DEF NibblesToRead

(* The padding is shorter than SF, be it computed or left over.            *)
LEMMA ExtraType ==
  ASSUME NEW h \in Headers, NEW previous \in 0..(SF - 1)
  PROVE  ExtraNibbles(h, previous) \in 0..(SF - 1)
<1>1. CASE NibblesToRead(h) > HeaderBlockRest
  <2> DEFINE n == NibblesToRead(h) - HeaderBlockRest
  <2>1. n \in Nat
    BY <1>1, SizesType, HeaderType
  <2>2. Padding(n, SFPayload) \in 0..(SFPayload - 1)
    BY <2>1, SizesType, MissingRange DEF Padding
  <2>3. ExtraNibbles(h, previous) = Padding(n, SFPayload)
    BY <1>1 DEF ExtraNibbles
  <2> QED  BY <2>2, <2>3, SizesType, SFAssumption
<1>2. CASE ~(NibblesToRead(h) > HeaderBlockRest)
  BY <1>2 DEF ExtraNibbles
<1> QED  BY <1>1, <1>2

(* A request that is published is a number of symbols.                     *)
LEMMA SymbolsType ==
  ASSUME NEW h \in Headers, NEW extra \in Nat,
         NibblesToRead(h) + extra > HeaderBlockRest
  PROVE  PayloadSymbols(h, extra) \in Nat
<1> DEFINE n == (extra + NibblesToRead(h) - HeaderBlockRest) * (h.CR + 4)
<1>1. extra + NibblesToRead(h) - HeaderBlockRest \in Nat
  BY HeaderType, SizesType
<1>2. h.CR + 4 \in Nat
  BY HeaderType
<1>3. n \in Nat
  BY <1>1, <1>2
<1>4. n \div SFPayload \in Nat
  BY <1>3, SizesType, DivMod
<1> QED  BY <1>4 DEF PayloadSymbols

(* The request for a frame that does not fit the header block: q blocks of *)
(* CR + 4 symbols, for q blocks of SFPayload nibbles.                      *)
LEMMA RequestInBlocks ==
  ASSUME NEW h \in Headers, NEW previous,
         NibblesToRead(h) > HeaderBlockRest
  PROVE  \E q \in Nat :
           /\ NibblesToRead(h) + ExtraNibbles(h, previous) = q * SFPayload + HeaderBlockRest
           /\ PayloadSymbols(h, ExtraNibbles(h, previous)) = q * (h.CR + 4)
           /\ NibblesToRead(h) + ExtraNibbles(h, previous) > HeaderBlockRest
<1> DEFINE N == NibblesToRead(h)
           n == N - HeaderBlockRest
           e == ExtraNibbles(h, previous)
           c == h.CR + 4
<1>1. N \in Nat /\ n \in Nat /\ n > 0 /\ c \in Nat
  BY HeaderType, SizesType
<1>2. e = Padding(n, SFPayload)
  BY DEF ExtraNibbles
<1>3. e \in Nat
  <2>1. Padding(n, SFPayload) \in 0..(SFPayload - 1)
    BY <1>1, SizesType, MissingRange DEF Padding
  <2> QED  BY <1>2, <2>1, SizesType
<1>4. PICK q \in Nat : n + e = q * SFPayload
  <2>1. \E q \in Nat : n + Padding(n, SFPayload) = q * SFPayload
    BY <1>1, SizesType, MissingCompletes DEF Padding
  <2> QED  BY <1>2, <2>1
<1>5. e + N - HeaderBlockRest = q * SFPayload
  BY <1>1, <1>3, <1>4, SizesType
<1>6. (q * SFPayload) * c = (q * c) * SFPayload /\ q * c \in Nat
  BY <1>1, SizesType
<1>7. ((q * c) * SFPayload) \div SFPayload = q * c
  BY <1>6, SizesType, DivCancels
<1>8. PayloadSymbols(h, e) = q * c
  BY <1>5, <1>6, <1>7 DEF PayloadSymbols
<1>9. N + e = q * SFPayload + HeaderBlockRest /\ N + e > HeaderBlockRest
  BY <1>1, <1>3, <1>4, SizesType
<1> HIDE DEF e
<1> QED  BY <1>8, <1>9 DEF e
-----------------------------------------------------------------------------
(* Type correctness.                                                       *)

(* A record of messages is one of MessageRecord, field by field.           *)
LEMMA OutType ==
  ASSUME NEW sf \in Seq(Nat), NEW cr \in Seq(Nat), NEW n \in Seq(Nat),
         NEW f \in BOOLEAN, NEW c \in BOOLEAN, NEW r \in BOOLEAN
  PROVE  [setSF |-> sf, setCR |-> cr, setN |-> n, frame |-> f, crc |-> c, reset |-> r]
           \in MessageRecord
BY DEF MessageRecord

(* Queues of no and of one message.                                        *)
LEMMA OneMessage ==
  /\ <<>> \in Seq(Nat)
  /\ \A x \in Nat : <<x>> \in Seq(Nat)
OBVIOUS

(* Publishing nothing is a record of messages.                             *)
LEMMA NoMessagesType == NoMessages \in MessageRecord
BY DEF NoMessages, MessageRecord

(* The constructor establishes the types.                                  *)
LEMMA TypeInit == Init => TypeOK
BY SFAssumption, NoMessagesType DEF Init, TypeOK

(* A work call never consumes nibbles it was not promised, no message is   *)
(* malformed and no size leaves its range.                                 *)
LEMMA TypeStep == TypeOK /\ [Next]_vars => TypeOK'
<1> SUFFICES ASSUME TypeOK, [Next]_vars PROVE TypeOK'
  OBVIOUS
<1> USE SFAssumption
<1>1. CASE StartRx
  <2>1. out' = [setSF |-> <<SFHeader>>, setCR |-> <<4>>, setN |-> <<8>>,
                frame |-> FALSE, crc |-> FALSE, reset |-> FALSE]
    BY <1>1 DEF StartRx, NoMessages, HeaderSymbols
  <2>2. out' \in MessageRecord
    <3>1. <<SFHeader>> \in Seq(Nat) /\ <<4>> \in Seq(Nat) /\ <<8>> \in Seq(Nat)
      BY SizesType, OneMessage
    <3> QED  BY <2>1, <3>1, OutType
  <2> QED  BY <1>1, <2>2, SizesType DEF StartRx, TypeOK, HeaderSymbols
<1>2. CASE DropNibble
  BY <1>2, NoMessagesType DEF DropNibble, TypeOK
<1>3. ASSUME NEW h \in Headers, RejectHeader(h) PROVE TypeOK'
  <2>1. out' = [setSF |-> <<SFHeader>>, setCR |-> <<h.CR>>, setN |-> <<>>,
                frame |-> FALSE, crc |-> FALSE, reset |-> TRUE]
    BY <1>3 DEF RejectHeader, NoMessages
  <2>2. out' \in MessageRecord
    <3>1. <<SFHeader>> \in Seq(Nat) /\ <<h.CR>> \in Seq(Nat) /\ <<>> \in Seq(Nat)
      BY SizesType, HeaderType, OneMessage
    <3> QED  BY <2>1, <3>1, OutType
  <2>3. nibblesIn' \in Nat
    BY <1>3 DEF RejectHeader, TypeOK
  <2> QED  BY <1>3, <2>2, <2>3, SizesType, HeaderType DEF RejectHeader, TypeOK
<1>4. ASSUME NEW h \in Headers, AcceptHeader(h) PROVE TypeOK'
  <2> DEFINE extra == ExtraNibbles(h, extraNibblesToConsume)
             asks == NibblesToRead(h) + extra > HeaderBlockRest
             n == PayloadSymbols(h, extra)
  <2>1. extra \in 0..(SF - 1)
    BY ExtraType DEF TypeOK
  <2>2. asks => n \in Nat
    BY <2>1, SymbolsType
  <2>3. requested' \in Nat
    BY <1>4, <2>2 DEF AcceptHeader, TypeOK
  <2>4. out' \in MessageRecord
    <3>1. (IF asks THEN <<n>> ELSE <<>>) \in Seq(Nat)
      BY <2>2
    <3>2. <<h.CR>> \in Seq(Nat) /\ <<SFPayload>> \in Seq(Nat)
      BY HeaderType, SizesType, OneMessage
    <3>3. out' = [setSF |-> <<SFPayload>>, setCR |-> <<h.CR>>,
                  setN |-> IF asks THEN <<n>> ELSE <<>>,
                  frame |-> TRUE, crc |-> FALSE, reset |-> FALSE]
      BY <1>4 DEF AcceptHeader, NoMessages
    <3> QED  BY <3>1, <3>2, <3>3, OutType
  <2>5. extraNibblesToConsume' \in 0..(SF - 1)
    BY <1>4, <2>1 DEF AcceptHeader
  <2>6. nibblesIn' \in Nat
    BY <1>4 DEF AcceptHeader, TypeOK
  <2> QED
    BY <1>4, <2>3, <2>4, <2>5, <2>6, SizesType, HeaderType DEF AcceptHeader, TypeOK
<1>5. CASE SendPayload
  <2>1. PayloadNeed \in Nat
    BY DEF PayloadNeed, CRCNibbles, TypeOK
  <2>2. nibblesIn' \in Nat
    BY <1>5, <2>1 DEF SendPayload, TypeOK
  <2>3. out' \in MessageRecord
    <3>1. out' = [setSF |-> <<SFHeader>>, setCR |-> <<>>, setN |-> <<>>,
                  frame |-> FALSE, crc |-> payloadCRCPresent, reset |-> TRUE]
      BY <1>5 DEF SendPayload, NoMessages
    <3>2. <<SFHeader>> \in Seq(Nat) /\ <<>> \in Seq(Nat) /\ payloadCRCPresent \in BOOLEAN
      BY SizesType, OneMessage DEF TypeOK
    <3> QED  BY <3>1, <3>2, OutType
  <2> QED  BY <1>5, <2>2, <2>3, SizesType DEF SendPayload, TypeOK
<1>6. ASSUME NEW n \in 1..SF, Arrive(n) PROVE TypeOK'
  BY <1>6 DEF Arrive, TypeOK, rcVars
<1>7. CASE UNCHANGED vars
  BY <1>7 DEF TypeOK, vars, rcVars
<1> QED  BY <1>1, <1>2, <1>3, <1>4, <1>5, <1>6, <1>7 DEF Next

(* No work call consumes nibbles that are not there, and every size,       *)
(* state and message keeps to its type.                                    *)
THEOREM TypeCorrect == Spec => []TypeOK
BY TypeInit, TypeStep, PTL DEF Spec
-----------------------------------------------------------------------------
(* The chain is configured for what the controller reads.                  *)

THEOREM ChainCorrect == Spec => []ChainConfigured
<1>1. Init => ChainConfigured
  BY DEF Init, ChainConfigured
<1>2. TypeOK /\ ChainConfigured /\ [Next]_vars => ChainConfigured'
  <2> SUFFICES ASSUME TypeOK, ChainConfigured, [Next]_vars PROVE ChainConfigured'
    OBVIOUS
  <2>1. CASE StartRx
    BY <2>1 DEF StartRx, ChainConfigured
  <2>2. CASE DropNibble
    BY <2>2 DEF DropNibble, ChainConfigured
  <2>3. ASSUME NEW h \in Headers, RejectHeader(h) PROVE ChainConfigured'
    BY <2>3 DEF RejectHeader, ChainConfigured
  <2>4. ASSUME NEW h \in Headers, AcceptHeader(h) PROVE ChainConfigured'
    BY <2>4, HeaderType DEF AcceptHeader, Accepted, ChainConfigured
  <2>5. CASE SendPayload
    BY <2>5 DEF SendPayload, ChainConfigured
  <2>6. ASSUME NEW n \in 1..SF, Arrive(n) PROVE ChainConfigured'
    BY <2>6 DEF Arrive, ChainConfigured, rcVars
  <2>7. CASE UNCHANGED vars
    BY <2>7 DEF ChainConfigured, vars, rcVars
  <2> QED  BY <2>1, <2>2, <2>3, <2>4, <2>5, <2>6, <2>7 DEF Next
<1> QED  BY <1>1, <1>2, TypeCorrect, PTL DEF Spec
-----------------------------------------------------------------------------
(* A frame that does not fit the header block asks for exactly the symbols *)
(* its nibbles and padding take, in whole code blocks.                     *)

LEMMA RequestStep ==
  TypeOK /\ RequestIsExact /\ [Next]_vars => RequestIsExact'
<1> SUFFICES ASSUME TypeOK, RequestIsExact, [Next]_vars PROVE RequestIsExact'
  OBVIOUS
<1>1. CASE StartRx
  BY <1>1 DEF StartRx, RequestIsExact
<1>2. CASE DropNibble
  BY <1>2 DEF DropNibble, RequestIsExact
<1>3. ASSUME NEW h \in Headers, RejectHeader(h) PROVE RequestIsExact'
  BY <1>3 DEF RejectHeader, RequestIsExact
<1>4. ASSUME NEW h \in Headers, AcceptHeader(h) PROVE RequestIsExact'
  <2> DEFINE e == ExtraNibbles(h, extraNibblesToConsume)
             c == h.CR + 4
  <2> SUFFICES ASSUME LongFrame' PROVE
        /\ requested' % c = 0
        /\ (requested' \div c) * SFPayload + HeaderBlockRest = PayloadNeed'
    BY <1>4 DEF AcceptHeader, RequestIsExact
  <2>1. NibblesToRead(h) > HeaderBlockRest
    BY <1>4 DEF LongFrame, AcceptHeader, NibblesToRead
  <2>2. PICK q \in Nat :
          /\ NibblesToRead(h) + e = q * SFPayload + HeaderBlockRest
          /\ PayloadSymbols(h, e) = q * c
          /\ NibblesToRead(h) + e > HeaderBlockRest
    BY <2>1, RequestInBlocks
  <2>3. requested' = q * c
    BY <1>4, <2>2 DEF AcceptHeader
  <2>4. c \in Nat /\ c > 0
    BY HeaderType
  <2>5. requested' % c = 0 /\ requested' \div c = q
    BY <2>3, <2>4, DivCancels
  <2>6. PayloadNeed' = 2 * h.len + e + CRCNibbles(h.crc)
    BY <1>4 DEF AcceptHeader, PayloadNeed
  <2>7. e \in 0..(SF - 1)
    BY ExtraType DEF TypeOK
  <2>8. PayloadNeed' = NibblesToRead(h) + e
    BY <2>6, <2>7, HeaderType, SFAssumption
  <2> QED  BY <2>2, <2>5, <2>8
<1>5. CASE SendPayload
  BY <1>5 DEF SendPayload, RequestIsExact
<1>6. ASSUME NEW n \in 1..SF, Arrive(n) PROVE RequestIsExact'
  BY <1>6 DEF Arrive, RequestIsExact, LongFrame, PayloadNeed, rcVars
<1>7. CASE UNCHANGED vars
  BY <1>7 DEF RequestIsExact, LongFrame, PayloadNeed, vars, rcVars
<1> QED  BY <1>1, <1>2, <1>3, <1>4, <1>5, <1>6, <1>7 DEF Next

THEOREM RequestCorrect == Spec => []RequestIsExact
<1>1. Init => RequestIsExact
  BY DEF Init, RequestIsExact
<1> QED  BY <1>1, RequestStep, TypeCorrect, PTL DEF Spec
-----------------------------------------------------------------------------
(* Transmitter and receiver agree on the size of a frame.                 *)

(* For a header h of a frame that continues behind the header block, the   *)
(* nibbles the receiver reads are those the transmitter wrote.             *)
LEMMA SameTotal ==
  ASSUME NEW h \in Headers, NEW previous, NibblesToRead(h) > HeaderBlockRest
  PROVE  NibblesToRead(h) + ExtraNibbles(h, previous)
           = NNibblesTotal(SentWith(h.CR, h.crc), h.len)
<1> DEFINE p == SentWith(h.CR, h.crc)
<1>1. p.SF = SF /\ p.crc = h.crc /\ p.ldr = LowDataRate
  BY DEF SentWith
<1> HIDE DEF p
<1>2. HeaderRoom(p) = HeaderBlockRest /\ PayloadRows(p) = SFPayload
  BY <1>1 DEF HeaderRoom, HeaderBlockRest, PayloadRows, SFPayload
<1>3. NNibbles(p, h.len) = NibblesToRead(h)
  <2>1. h.len \in Nat
    BY HeaderType
  <2>2. CASE h.crc
    BY <1>1, <2>1, <2>2 DEF NNibbles, NibblesToRead, CRCNibbles, CRCSize
  <2>3. CASE ~h.crc
    BY <1>1, <2>1, <2>3 DEF NNibbles, NibblesToRead, CRCNibbles, CRCSize
  <2> QED  BY <2>2, <2>3
<1>4. NExtraNibbles(p, h.len) = ExtraNibbles(h, previous)
  BY <1>2, <1>3 DEF NExtraNibbles, ExtraNibbles, Padding
<1> QED  BY <1>3, <1>4 DEF NNibblesTotal, p

(* The symbols the receiver asks its synchroniser for are the symbols the  *)
(* transmitter modulates behind the header block: q code blocks of CR + 4  *)
(* symbols, of PayloadRows nibbles each, for the same q on both sides.     *)
THEOREM SymbolsAgree ==
  ASSUME NEW h \in Headers, NEW previous \in Nat, NibblesToRead(h) > HeaderBlockRest
  PROVE  LET p == SentWith(h.CR, h.crc)
         IN  \E q \in Nat :
               /\ NNibblesTotal(p, h.len) = HeaderRoom(p) + q * PayloadRows(p)
               /\ PayloadSymbols(h, ExtraNibbles(h, previous)) = q * (p.CR + 4)
<1> DEFINE p == SentWith(h.CR, h.crc)
<1>1. PICK q \in Nat :
        /\ NibblesToRead(h) + ExtraNibbles(h, previous) = q * SFPayload + HeaderBlockRest
        /\ PayloadSymbols(h, ExtraNibbles(h, previous)) = q * (h.CR + 4)
  BY RequestInBlocks
<1>2. HeaderRoom(p) = HeaderBlockRest /\ PayloadRows(p) = SFPayload /\ p.CR = h.CR
  BY DEF SentWith, HeaderRoom, HeaderBlockRest, PayloadRows, SFPayload
<1>3. NNibblesTotal(p, h.len) = q * SFPayload + HeaderBlockRest
  BY <1>1, SameTotal
<1>4. q * SFPayload + HeaderBlockRest = HeaderBlockRest + q * SFPayload
  BY SizesType
<1> QED  BY <1>1, <1>2, <1>3, <1>4

(* In every run of the receiver, the size of a long frame is the one it    *)
(* was written with.                                                       *)
THEOREM ReadsWhatIsSentAlways == Spec => []ReadsWhatIsSent
<1>1. Init => ReadsWhatIsSent
  BY DEF Init, ReadsWhatIsSent
<1>2. TypeOK /\ ReadsWhatIsSent /\ [Next]_vars => ReadsWhatIsSent'
  <2> SUFFICES ASSUME TypeOK, ReadsWhatIsSent, [Next]_vars PROVE ReadsWhatIsSent'
    OBVIOUS
  <2>1. CASE StartRx
    BY <2>1 DEF StartRx, ReadsWhatIsSent
  <2>2. CASE DropNibble
    BY <2>2 DEF DropNibble, ReadsWhatIsSent
  <2>3. ASSUME NEW h \in Headers, RejectHeader(h) PROVE ReadsWhatIsSent'
    BY <2>3 DEF RejectHeader, ReadsWhatIsSent
  <2>4. ASSUME NEW h \in Headers, AcceptHeader(h) PROVE ReadsWhatIsSent'
    <3> DEFINE e == ExtraNibbles(h, extraNibblesToConsume)
    <3> SUFFICES ASSUME LongFrame'
                 PROVE  PayloadNeed' = NNibblesTotal(SentWith(CR', payloadCRCPresent'),
                                                     payloadNibblesToRead' \div 2)
      BY DEF ReadsWhatIsSent, SentWith
    <3>1. NibblesToRead(h) > HeaderBlockRest
      BY <2>4 DEF LongFrame, AcceptHeader, NibblesToRead
    <3>2. NibblesToRead(h) + e = NNibblesTotal(SentWith(h.CR, h.crc), h.len)
      BY <3>1, SameTotal
    <3>3. PayloadNeed' = 2 * h.len + e + CRCNibbles(h.crc)
      BY <2>4 DEF AcceptHeader, PayloadNeed
    <3>4. e \in 0..(SF - 1)
      BY ExtraType DEF TypeOK
    <3>5. PayloadNeed' = NibblesToRead(h) + e
      BY <3>3, <3>4, HeaderType, SFAssumption
    <3>6. payloadNibblesToRead' \div 2 = h.len
      <4>1. payloadNibblesToRead' = h.len * 2
        BY <2>4, HeaderType DEF AcceptHeader
      <4> QED  BY <4>1, HeaderType, DivCancels
    <3>7. CR' = h.CR /\ payloadCRCPresent' = h.crc
      BY <2>4 DEF AcceptHeader
    <3> QED  BY <3>2, <3>5, <3>6, <3>7
  <2>5. CASE SendPayload
    BY <2>5 DEF SendPayload, ReadsWhatIsSent
  <2>6. ASSUME NEW n \in 1..SF, Arrive(n) PROVE ReadsWhatIsSent'
    BY <2>6 DEF Arrive, ReadsWhatIsSent, LongFrame, PayloadNeed, rcVars
  <2>7. CASE UNCHANGED vars
    BY <2>7 DEF ReadsWhatIsSent, LongFrame, PayloadNeed, vars, rcVars
  <2> QED  BY <2>1, <2>2, <2>3, <2>4, <2>5, <2>6, <2>7 DEF Next
<1> QED  BY <1>1, <1>2, TypeCorrect, PTL DEF Spec
=============================================================================
