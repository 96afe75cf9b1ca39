--------------------- MODULE TransmitterControllerProofs ---------------------
(***************************************************************************)
(* Proofs about the transmitter controller, for every set of parameters,   *)
(* sizes and CRC values and every order of tags, messages and nibbles.     *)
(***************************************************************************)
EXTENDS TransmitterController, Basics

-----------------------------------------------------------------------------
(* Sizes.                                                                  *)

(* The sizes derived from frame parameters are natural numbers.            *)
LEMMA ParameterSizes ==
  ASSUME NEW p \in Params
  PROVE  /\ p \in Parameters
         /\ p.SF \in Nat /\ p.crc \in BOOLEAN
         /\ HeaderRoom(p) \in Nat
         /\ PayloadRows(p) \in Nat /\ PayloadRows(p) > 0
<1>1. p \in Parameters
  BY ParamsAssumption
<1>2. p.SF \in Nat /\ p.SF >= 7 /\ p.crc \in BOOLEAN /\ p.ldr \in BOOLEAN
  BY <1>1 DEF Parameters
<1> QED  BY <1>1, <1>2 DEF HeaderRoom, PayloadRows

(* The nibbles of payload, CRC and padding are natural numbers, the total  *)
(* fills the header block and, beyond it, whole code blocks.               *)
LEMMA FrameSizes ==
  ASSUME NEW p \in Params, NEW n \in Nat
  PROVE  /\ NNibbles(p, n) \in Nat /\ 2 * n <= NNibbles(p, n)
         /\ NNibblesTotal(p, n) \in Nat
         /\ NNibblesTotal(p, n) >= HeaderRoom(p)
         /\ (NNibblesTotal(p, n) - HeaderRoom(p)) % PayloadRows(p) = 0
         /\ NNibbles(p, n) <= HeaderRoom(p) => NNibblesTotal(p, n) = HeaderRoom(p)
<1> DEFINE N == NNibbles(p, n)
           R == HeaderRoom(p)
           S == PayloadRows(p)
           e == NExtraNibbles(p, n)
<1>1. R \in Nat /\ S \in Nat /\ S > 0
  BY ParameterSizes
<1>2. N \in Nat /\ 2 * n <= N
  BY ParameterSizes DEF NNibbles, CRCSize
<1>3. NNibblesTotal(p, n) = N + e
  BY DEF NNibblesTotal
<1>4. CASE N > R
  <2>1. N - R \in Nat
    BY <1>1, <1>2, <1>4
  <2>2. e = (S - ((N - R) % S)) % S
    BY <1>4 DEF NExtraNibbles
  <2>3. e \in 0..(S - 1)
    BY <1>1, <2>1, <2>2, MissingRange
  <2>4. PICK q \in Nat : (N - R) + e = q * S
    BY <1>1, <2>1, <2>2, MissingCompletes
  <2> HIDE DEF N, R, S, e
  <2>5. N + e \in Nat /\ N + e >= R /\ (N + e) - R = q * S
    BY <1>1, <1>2, <1>4, <2>3, <2>4
  <2>6. ((N + e) - R) % S = 0
    BY <1>1, <2>5, DivCancels
  <2> QED  BY <1>1, <1>2, <1>3, <1>4, <2>5, <2>6 DEF N, R, S, e
<1>5. CASE ~(N > R)
  <2>1. e = R - N
    BY <1>5 DEF NExtraNibbles
  <2> HIDE DEF N, R, S, e
  <2>2. N + e = R
    BY <1>1, <1>2, <1>5, <2>1
  <2>3. R - R = 0 * S /\ (0 * S) % S = 0
    BY <1>1, DivCancels
  <2> QED  BY <1>1, <1>2, <1>3, <2>2, <2>3 DEF N, R, S, e
<1> QED  BY <1>4, <1>5

(* The header announces the size modulo 256.                               *)
LEMMA Announced ==
  ASSUME NEW p, NEW n \in Nat
  PROVE  /\ HeaderOf(p, n).len \in 0..255
         /\ (2 * n) % (2 * 256) = 2 * HeaderOf(p, n).len
         /\ n <= 255 => HeaderOf(p, n).len = n
<1> DEFINE a == n \div 16
           b == n % 16
           c == a \div 16
           d == a % 16
           m == HeaderOf(p, n).len
<1>1. a \in Nat /\ b \in 0..15 /\ n = a * 16 + b
  BY DivMod
<1>2. c \in Nat /\ d \in 0..15 /\ a = c * 16 + d
  BY <1>1, DivMod
<1>3. m = 16 * d + b
  BY DEF HeaderOf
<1> HIDE DEF a, b, c, d, m
<1>4. m \in 0..255 /\ n = 256 * c + m
  BY <1>1, <1>2, <1>3
<1>5. 2 * n = c * 512 + 2 * m /\ 2 * m \in 0..511
  BY <1>2, <1>4
<1>6. (2 * n) % 512 = 2 * m
  BY <1>2, <1>5, RemainderOf
<1>7. n <= 255 => m = n
  BY <1>2, <1>4
<1> QED  BY <1>4, <1>6, <1>7 DEF m

(* A tag's size is a byte once it is validated.                            *)
LEMMA ValidSizeType ==
  ASSUME NEW s \in Sizes
  PROVE  ValidSize(s) \in 0..255
BY SizesAssumption DEF ValidSize

(* The parameters and the size a header call works with.                   *)
LEMMA TagValues ==
  ASSUME TypeOK, NEW s \in Optional(Sizes), NEW t \in Optional(Params)
  PROVE  /\ (IF t = <<>> THEN params ELSE t[1]) \in Params
         /\ (IF s = <<>> THEN payloadSize ELSE ValidSize(s[1])) \in Nat
         /\ s # <<>> => (IF s = <<>> THEN payloadSize ELSE ValidSize(s[1])) <= 255
<1>1. t = <<>> \/ \E x \in Params : t = <<x>>
  BY DEF Optional
<1>2. s = <<>> \/ \E x \in Sizes : s = <<x>>
  BY DEF Optional
<1>3. (IF t = <<>> THEN params ELSE t[1]) \in Params
  BY <1>1 DEF TypeOK
<1>4. s # <<>> => ValidSize(s[1]) \in 0..255
  BY <1>2, ValidSizeType
<1>5. payloadSize \in Nat
  BY DEF TypeOK
<1>6. CASE s = <<>>
  BY <1>3, <1>5, <1>6
<1>7. CASE s # <<>>
  <2>1. ValidSize(s[1]) \in 0..255
    BY <1>4, <1>7, Zenon
  <2>2. (IF s = <<>> THEN payloadSize ELSE ValidSize(s[1])) = ValidSize(s[1])
    BY <1>7, Zenon
  <2>3. ASSUME NEW m \in 0..255 PROVE m \in Nat /\ m <= 255
    OBVIOUS
  <2> QED  BY <1>3, <2>1, <2>2, <2>3, Zenon
<1> QED  BY <1>6, <1>7
-----------------------------------------------------------------------------
(* Type correctness.                                                       *)

(* The constructor establishes the types.                                  *)
LEMMA TypeInit == Init => TypeOK
<1> SUFFICES ASSUME Init PROVE TypeOK
  OBVIOUS
<1>1. payloadSize \in Nat
  BY SizesAssumption DEF Init
<1>2. frame \in FrameRecord
  BY ParamsAssumption DEF Init, FrameRecord, Optional
<1> QED  BY <1>1, <1>2 DEF Init, TypeOK

(* Every handler and every call keeps the types, and the precomputed sizes *)
(* and header those of the current parameters.                             *)
LEMMA TypeStep == TypeOK /\ [Next]_vars => TypeOK'
<1> SUFFICES ASSUME TypeOK, [Next]_vars PROVE TypeOK'
  OBVIOUS
<1>1. ASSUME NEW n \in MessageSizes, SetPayloadSize(n) PROVE TypeOK'
  BY <1>1, SizesAssumption DEF SetPayloadSize, CalculateConstants, TypeOK, FrameRecord
<1>2. ASSUME NEW c \in Crcs, SetCrc(c) PROVE TypeOK'
  BY <1>2 DEF SetCrc, TypeOK
<1>3. ASSUME NEW s \in Optional(Sizes), NEW t \in Optional(Params), SendHeader(s, t)
      PROVE  TypeOK'
  <2> DEFINE p == IF t = <<>> THEN params ELSE t[1]
             n == IF s = <<>> THEN payloadSize ELSE ValidSize(s[1])
             fits == NNibbles(p, n) <= HeaderRoom(p)
             used == IF fits THEN 2 * n ELSE HeaderRoom(p)
  <2>1. p \in Params /\ n \in Nat /\ (s # <<>> => n <= 255)
    BY TagValues
  <2>2. /\ params' = p /\ payloadSize' = n /\ crc' = crc
        /\ nNibbles' = NNibbles(p, n) /\ nNibblesTotal' = NNibblesTotal(p, n)
        /\ headerNibbles' = HeaderOf(p, n)
        /\ currentState' \in {"sendingHeader", "sendingPayload"}
        /\ Consume(used)
        /\ frame' = [p |-> p, len |-> HeaderOf(p, n).len, payload |-> used,
                     written |-> IF fits THEN NNibblesTotal(p, n) ELSE used,
                     crcs |-> IF fits /\ p.crc THEN <<crc>> ELSE <<>>,
                     done |-> fits, tagged |-> s # <<>>, resized |-> FALSE]
    BY <1>3 DEF SendHeader, CalculateConstants
  <2> HIDE DEF p, n
  <2>3. used \in Nat /\ p \in Parameters
    BY <2>1, ParameterSizes
  <2>4. (IF fits THEN NNibblesTotal(p, n) ELSE used) \in Nat
    BY <2>1, <2>3, FrameSizes
  <2>5. frame' \in FrameRecord
    <3>1. (IF fits /\ p.crc THEN <<crc>> ELSE <<>>) \in Optional(Crcs)
      BY DEF TypeOK, Optional
    <3>2. fits \in BOOLEAN /\ HeaderOf(p, n).len \in 0..255
      BY <2>1, Announced
    <3> HIDE DEF fits, used
    <3> QED  BY <2>2, <2>3, <2>4, <3>1, <3>2 DEF FrameRecord
  <2>6. nibblesIn' \in Nat /\ fault' \in {"none", "underrun"}
    <3> HIDE DEF used
    <3> QED  BY <2>2, <2>3 DEF Consume, TypeOK
  <2> QED  BY <2>1, <2>2, <2>5, <2>6 DEF TypeOK
<1>4. CASE SendPayload
  <2>1. HeaderRoom(params) \in Nat
    BY ParameterSizes DEF TypeOK
  <2>2. 2 * payloadSize - HeaderRoom(params) \in Nat
    BY <1>4, <2>1 DEF SendPayload, PayloadWraps, TypeOK
  <2>3. nNibblesTotal - HeaderRoom(params) \in Nat
    BY <2>1, FrameSizes DEF TypeOK
  <2>4. frame' \in FrameRecord
    <3>1. frame.payload + (2 * payloadSize - HeaderRoom(params)) \in Nat
      BY <2>2 DEF TypeOK, FrameRecord
    <3>2. frame.written + nNibblesTotal - HeaderRoom(params) \in Nat
      BY <2>1, <2>3, FrameSizes DEF TypeOK, FrameRecord
    <3>3. (IF params.crc THEN <<crc>> ELSE <<>>) \in Optional(Crcs)
      BY DEF TypeOK, Optional
    <3> QED  BY <1>4, <3>1, <3>2, <3>3 DEF SendPayload, FrameRecord, TypeOK
  <2>5. nibblesIn' \in Nat
    BY <1>4, <2>2 DEF SendPayload, TypeOK
  <2> QED  BY <1>4, <2>4, <2>5 DEF SendPayload, TypeOK
<1>5. CASE SendPayloadWrapped
  BY <1>5 DEF SendPayloadWrapped, TypeOK
<1>6. ASSUME NEW n \in Occupancies, Arrive(n) PROVE TypeOK'
  BY <1>6, OccupanciesAssumption DEF Arrive, tcVars, TypeOK
<1>7. CASE UNCHANGED vars
  BY <1>7 DEF vars, tcVars, TypeOK
<1> QED  BY <1>1, <1>2, <1>3, <1>4, <1>5, <1>6, <1>7 DEF Next

(* Types, and the agreement of the precomputed sizes and header with the   *)
(* current parameters and payload size.                                    *)
THEOREM TypeCorrect == Spec => []TypeOK
BY TypeInit, TypeStep, PTL DEF Spec
-----------------------------------------------------------------------------
(* Memory safety.                                                          *)

(* What a step that faults looks like.                                     *)
Explanation ==
  \/ ~FillsHeader(params, payloadSize)
  \/ ~FillsHeader(params', payloadSize')
  \/ params'.SF # params.SF

(* A call that begins with and works with a payload that fills the header  *)
(* block consumes what forecast() has asked for; no other step can fault.  *)
LEMMA FaultStep ==
  TypeOK /\ Next /\ fault' # "none" => Explanation
<1> SUFFICES ASSUME TypeOK, Next, ~Explanation PROVE fault' = "none"
  BY DEF TypeOK
<1>1. ASSUME NEW n \in MessageSizes, SetPayloadSize(n) PROVE fault' = "none"
  BY <1>1 DEF SetPayloadSize
<1>2. ASSUME NEW c \in Crcs, SetCrc(c) PROVE fault' = "none"
  BY <1>2 DEF SetCrc
<1>3. ASSUME NEW s \in Optional(Sizes), NEW t \in Optional(Params), SendHeader(s, t)
      PROVE  fault' = "none"
  <2> DEFINE p == IF t = <<>> THEN params ELSE t[1]
             n == IF s = <<>> THEN payloadSize ELSE ValidSize(s[1])
             fits == NNibbles(p, n) <= HeaderRoom(p)
             used == IF fits THEN 2 * n ELSE HeaderRoom(p)
  <2>1. p \in Params /\ n \in Nat /\ params \in Params /\ payloadSize \in Nat
    BY TagValues DEF TypeOK
  <2>2. /\ params' = p /\ payloadSize' = n /\ Consume(used)
        /\ nibblesIn >= HeaderForecast(params, payloadSize)
    BY <1>3 DEF SendHeader
  <2> HIDE DEF p, n
  <2>3. HeaderRoom(p) = HeaderRoom(params) /\ HeaderRoom(p) \in Nat
    BY <2>1, <2>2, ParameterSizes DEF Explanation, HeaderRoom
  <2>4. used = HeaderRoom(p)
    <3>1. n \in Nat
      BY <2>1
    <3>2. NNibbles(p, n) \in Nat /\ 2 * n <= NNibbles(p, n)
      BY <2>1, <3>1, FrameSizes
    <3>3. 2 * n >= HeaderRoom(p)
      BY <2>2 DEF Explanation, FillsHeader
    <3> QED  BY <2>3, <3>1, <3>2, <3>3
  <2>5. HeaderForecast(params, payloadSize) = HeaderRoom(params)
    <3>1. 2 * payloadSize >= HeaderRoom(params) /\ HeaderRoom(params) \in Nat
      BY <2>1, ParameterSizes DEF Explanation, FillsHeader
    <3>2. 2 * payloadSize + (IF params.crc THEN CRCSize ELSE 0) >= HeaderRoom(params)
      BY <2>1, <3>1 DEF CRCSize
    <3> QED  BY <2>1, <3>1, <3>2 DEF HeaderForecast, CRCSize
  <2>6. nibblesIn >= used
    BY <2>2, <2>3, <2>4, <2>5
  <2> HIDE DEF used
  <2> QED  BY <2>2, <2>3, <2>4, <2>6 DEF Consume, TypeOK
<1>4. CASE SendPayload
  BY <1>4 DEF SendPayload
<1>5. CASE SendPayloadWrapped
  <2>1. 2 * payloadSize < HeaderRoom(params)
    BY <1>5 DEF SendPayloadWrapped, PayloadWraps
  <2>2. 2 * payloadSize >= HeaderRoom(params)
    BY DEF Explanation, FillsHeader
  <2>3. HeaderRoom(params) \in Nat /\ payloadSize \in Nat
    BY ParameterSizes DEF TypeOK
  <2> QED  BY <2>1, <2>2, <2>3
<1>6. ASSUME NEW n \in Occupancies, Arrive(n) PROVE fault' = "none"
  BY <1>6 DEF Arrive, tcVars
<1> QED  BY <1>1, <1>2, <1>3, <1>4, <1>5, <1>6 DEF Next

(* In any environment a fault has one of the three causes.                 *)
THEOREM FaultsExplained == Spec => FaultExplained
<1>1. TypeOK /\ [Next]_vars => [fault' # "none" => Explanation]_vars
  BY FaultStep
<1> QED  BY <1>1, TypeCorrect, PTL DEF Spec, FaultExplained, Explanation

(* The payload fills the header block under any parameters.                *)
RoomFilled == \A p \in Params : FillsHeader(p, payloadSize)

(* With safe sizes none of the causes ever arises.                         *)
LEMMA SafeStep ==
  SafeSizes /\ TypeOK /\ TypeOK' /\ RoomFilled /\ NoFault /\ [Next]_vars
    => RoomFilled' /\ NoFault'
<1> SUFFICES ASSUME SafeSizes, TypeOK, TypeOK', RoomFilled, NoFault, [Next]_vars
             PROVE  RoomFilled' /\ NoFault'
  OBVIOUS
<1>1. RoomFilled'
  <2>1. ASSUME NEW n \in MessageSizes, SetPayloadSize(n) PROVE RoomFilled'
    <3>1. payloadSize' = n
      BY <2>1 DEF SetPayloadSize
    <3> QED  BY <3>1 DEF SafeSizes, RoomFilled
  <2>2. ASSUME NEW s \in Optional(Sizes), NEW t \in Optional(Params), SendHeader(s, t)
        PROVE  RoomFilled'
    <3>1. s = <<>> \/ \E x \in Sizes : s = <<x>>
      BY DEF Optional
    <3>2. payloadSize' = IF s = <<>> THEN payloadSize ELSE ValidSize(s[1])
      BY <2>2 DEF SendHeader
    <3> QED  BY <3>1, <3>2 DEF SafeSizes, RoomFilled
  <2>3. ASSUME UNCHANGED payloadSize PROVE RoomFilled'
    BY <2>3 DEF RoomFilled
  <2> QED  BY <2>1, <2>2, <2>3
           DEF Next, SetCrc, SendPayload, SendPayloadWrapped, Arrive, vars, tcVars
<1>2. params \in Params /\ params' \in Params
  BY DEF TypeOK
<1>3. ~Explanation
  BY <1>1, <1>2 DEF Explanation, RoomFilled, SafeSizes
<1>4. ASSUME Next PROVE NoFault'
  BY <1>3, <1>4, FaultStep DEF NoFault
<1>5. ASSUME UNCHANGED vars PROVE NoFault'
  BY <1>5 DEF vars, tcVars, NoFault
<1> QED  BY <1>1, <1>4, <1>5

(* If every payload fills the header block and SF never changes, no call   *)
(* reads nibbles that are not there and no memcpy length wraps around, for *)
(* any sequence of tags, messages and arrivals.                            *)
THEOREM NeverFaults == ASSUME SafeSizes PROVE Spec => []NoFault
<1>1. Init => RoomFilled /\ NoFault
  <2> SUFFICES ASSUME Init PROVE RoomFilled /\ NoFault
    OBVIOUS
  <2>1. payloadSize \in Sizes
    BY DEF Init
  <2>2. RoomFilled
    BY <2>1 DEF RoomFilled, SafeSizes
  <2> QED  BY <2>2 DEF Init, NoFault
<1>2. TypeOK /\ TypeOK' /\ RoomFilled /\ NoFault /\ [Next]_vars => RoomFilled' /\ NoFault'
  BY SafeStep
<1> QED  BY <1>1, <1>2, TypeCorrect, PTL DEF Spec
-----------------------------------------------------------------------------
(* Whole frames.                                                           *)

(* Between the two calls of a frame that no message disturbs, the          *)
(* parameters and the size are those the header was written with, and the  *)
(* header block is full.                                                   *)
InFrame ==
  currentState = "sendingPayload" /\ ~frame.resized =>
    /\ frame.p = params /\ frame.len = HeaderOf(params, payloadSize).len
    /\ frame.tagged => payloadSize <= 255
    /\ frame.payload = HeaderRoom(params) /\ frame.written = HeaderRoom(params)
    /\ ~frame.done

(* No step breaks a frame that no message has disturbed.                   *)
LEMMA WholeStep ==
  TypeOK /\ InFrame /\ WholeFrame /\ [Next]_vars => InFrame' /\ WholeFrame'
<1> SUFFICES ASSUME TypeOK, InFrame, WholeFrame, [Next]_vars
             PROVE  InFrame' /\ WholeFrame'
  OBVIOUS
<1>1. ASSUME NEW n \in MessageSizes, SetPayloadSize(n) PROVE InFrame' /\ WholeFrame'
  BY <1>1 DEF SetPayloadSize, TypeOK, FrameRecord, InFrame, WholeFrame
<1>2. ASSUME NEW c \in Crcs, SetCrc(c) PROVE InFrame' /\ WholeFrame'
  BY <1>2 DEF SetCrc, InFrame, WholeFrame
<1>3. ASSUME NEW s \in Optional(Sizes), NEW t \in Optional(Params), SendHeader(s, t)
      PROVE  InFrame' /\ WholeFrame'
  <2> DEFINE p == IF t = <<>> THEN params ELSE t[1]
             n == IF s = <<>> THEN payloadSize ELSE ValidSize(s[1])
             fits == NNibbles(p, n) <= HeaderRoom(p)
             used == IF fits THEN 2 * n ELSE HeaderRoom(p)
  <2>1. p \in Params /\ n \in Nat /\ (s # <<>> => n <= 255)
    BY TagValues
  <2>2. /\ params' = p /\ payloadSize' = n
        /\ currentState' = IF fits THEN "sendingHeader" ELSE "sendingPayload"
        /\ frame' = [p |-> p, len |-> HeaderOf(p, n).len, payload |-> used,
                     written |-> IF fits THEN NNibblesTotal(p, n) ELSE used,
                     crcs |-> IF fits /\ p.crc THEN <<crc>> ELSE <<>>,
                     done |-> fits, tagged |-> s # <<>>, resized |-> FALSE]
    BY <1>3 DEF SendHeader, CalculateConstants
  <2> HIDE DEF p, n
  <2>3. CASE fits
    <3>1. NNibblesTotal(p, n) >= HeaderRoom(p)
          /\ (NNibblesTotal(p, n) - HeaderRoom(p)) % PayloadRows(p) = 0
      BY <2>1, FrameSizes
    <3>2. p.crc \in BOOLEAN
      BY <2>1, ParameterSizes
    <3>3. /\ (2 * n) % (2 * 256) = 2 * HeaderOf(p, n).len
          /\ s # <<>> => 2 * n = 2 * HeaderOf(p, n).len
      BY <2>1, Announced
    <3> HIDE DEF fits
    <3> QED  BY <2>2, <2>3, <3>1, <3>2, <3>3 DEF InFrame, WholeFrame
  <2>4. CASE ~fits
    BY <2>1, <2>2, <2>4 DEF InFrame, WholeFrame
  <2> QED  BY <2>3, <2>4
<1>4. CASE SendPayload
  <2>0. CASE frame.resized
    BY <1>4, <2>0 DEF SendPayload, TypeOK, FrameRecord, InFrame, WholeFrame
  <2>1. CASE ~frame.resized
    <3>1. /\ currentState = "sendingPayload" /\ currentState' = "sendingHeader"
          /\ params' = params /\ payloadSize' = payloadSize
          /\ 2 * payloadSize >= HeaderRoom(params)
      <4>1. HeaderRoom(params) \in Nat /\ payloadSize \in Nat
        BY ParameterSizes DEF TypeOK
      <4> QED  BY <1>4, <4>1 DEF SendPayload, PayloadWraps
    <3>2. /\ frame'.p = params /\ frame'.len = HeaderOf(params, payloadSize).len
          /\ frame'.tagged => payloadSize <= 255
          /\ frame'.payload = HeaderRoom(params) + (2 * payloadSize - HeaderRoom(params))
          /\ frame'.written = HeaderRoom(params) + nNibblesTotal - HeaderRoom(params)
          /\ frame'.crcs = IF params.crc THEN <<crc>> ELSE <<>>
      BY <1>4, <2>1, <3>1 DEF SendPayload, InFrame, TypeOK, FrameRecord
    <3>3. HeaderRoom(params) \in Nat /\ payloadSize \in Nat /\ nNibblesTotal \in Nat
          /\ params.crc \in BOOLEAN
      BY ParameterSizes, FrameSizes DEF TypeOK
    <3>4. frame'.payload = 2 * payloadSize /\ frame'.written = nNibblesTotal
      BY <3>2, <3>3
    <3>5. nNibblesTotal >= HeaderRoom(params)
          /\ (nNibblesTotal - HeaderRoom(params)) % PayloadRows(params) = 0
      BY FrameSizes DEF TypeOK
    <3>6. /\ (2 * payloadSize) % (2 * 256) = 2 * frame'.len
          /\ frame'.tagged => 2 * payloadSize = 2 * frame'.len
      BY <3>2, <3>3, Announced
    <3> QED  BY <3>1, <3>2, <3>3, <3>4, <3>5, <3>6 DEF InFrame, WholeFrame
  <2> QED  BY <2>0, <2>1
<1>5. CASE SendPayloadWrapped
  BY <1>5 DEF SendPayloadWrapped, InFrame, WholeFrame
<1>6. ASSUME NEW n \in Occupancies, Arrive(n) PROVE InFrame' /\ WholeFrame'
  BY <1>6 DEF Arrive, tcVars, InFrame, WholeFrame
<1>7. CASE UNCHANGED vars
  BY <1>7 DEF vars, tcVars, InFrame, WholeFrame
<1> QED  BY <1>1, <1>2, <1>3, <1>4, <1>5, <1>6, <1>7 DEF Next

(* Whatever sizes come by tag, by message or at construction, every frame  *)
(* that ends holds all of its payload, announced modulo 256 bytes, and     *)
(* truly if the size came with the frame; and the CRC its header announces,*)
(* in whole code blocks, unless a setPayloadSize message comes between its *)
(* calls (LoRaTx connects nothing to that port).                           *)
THEOREM FramesAreWhole == Spec => []WholeFrame
<1>1. Init => InFrame /\ WholeFrame
  BY DEF Init, InFrame, WholeFrame
<1>2. TypeOK /\ InFrame /\ WholeFrame /\ [Next]_vars => InFrame' /\ WholeFrame'
  BY WholeStep
<1> QED  BY <1>1, <1>2, TypeCorrect, PTL DEF Spec
=============================================================================
