------------------------ MODULE TransmitterPathProofs ------------------------
(***************************************************************************)
(* Proofs about the transmitter path, for every number of frames.          *)
(*                                                                         *)
(* Whatever the source sends: every start message is accounted for and the *)
(* air is in order.  When every payload fills the header block (Filled):   *)
(* the controller in the path is the one of TransmitterController.  When,  *)
(* besides, the header block has room for payload and the source sends     *)
(* frames of one size or waits between them (Regular): every frame is      *)
(* written whole, its bytes whitened in their places, and its CRC is late  *)
(* by one frame at most.                                                   *)
(***************************************************************************)
EXTENDS TransmitterPath, Basics, FiniteSetTheorems

-----------------------------------------------------------------------------
(* Types.                                                                  *)

Byte == Frames \X Nat
Nibble == Frames \X Nat \X Nat
CrcState == [count : Nat, bytes : Seq(Byte), msgs : Seq(Seq(Byte))]
RndState == [count : Nat, lfsr : Nat, out : Seq(Nibble)]

PathTypes ==
  /\ source \in Sources /\ len \in [Frames -> Lengths] /\ nextFrame \in 1..(NFrames + 1)
  /\ crcIn \in Seq(Byte) /\ crcSize \in Lengths
  /\ crcCount \in Nat /\ crcBytes \in Seq(Byte) /\ crcMsgs \in Seq(Seq(Byte))
  /\ rndIn \in Seq(Byte) /\ rndSize \in Lengths /\ rndCount \in Nat /\ lfsr \in Nat
  /\ params = P /\ payloadSize \in Lengths /\ crc \in Seq(Byte)
  /\ nibbles \in Seq(Nibble) /\ body \in Seq(Nibble)

LEMMA SizesTyped ==
  /\ NFrames \in Nat /\ Lengths \subseteq 1..255 /\ \A n \in Lengths : n \in Nat /\ n > 0
  /\ P \in Parameters /\ HeaderRoom(P) \in Nat
<1>1. NFrames \in Nat /\ Lengths \subseteq 1..255 /\ P \in Parameters
  BY PathAssumption
<1>2. P.SF \in Nat /\ P.SF >= 7
  BY <1>1 DEF Parameters
<1> QED  BY <1>1, <1>2 DEF HeaderRoom

LEMMA TaggedSizeTyped ==
  ASSUME len \in [Frames -> Lengths], NEW item \in Byte, NEW size \in Lengths
  PROVE  TaggedSize(item, size) \in Lengths
<1>1. item[1] \in Frames
  BY DEF Byte
<1> QED  BY <1>1 DEF TaggedSize

LEMMA BytesOfTyped ==
  ASSUME len \in [Frames -> Lengths], NEW f \in Frames
  PROVE  /\ BytesOf(f) \in Seq(Byte) /\ Len(BytesOf(f)) = len[f]
         /\ len[f] \in Nat /\ len[f] > 0
         /\ \A i \in 1..len[f] : BytesOf(f)[i] = <<f, i>>
<1>1. PICK n \in Lengths : n = len[f]
  OBVIOUS
<1>2. n \in Nat /\ n > 0
  BY SizesTyped
<1>3. BytesOf(f) \in [1..n -> Byte]
  BY <1>1, <1>2 DEF BytesOf, Byte
<1>4. BytesOf(f) \in Seq(Byte) /\ Len(BytesOf(f)) = n
  BY <1>2, <1>3, FunctionIsSeq
<1>5. \A i \in 1..n : BytesOf(f)[i] = <<f, i>>
  BY <1>1 DEF BytesOf
<1> QED  BY <1>1, <1>2, <1>4, <1>5

LEMMA CRCByteTyped ==
  ASSUME NEW size \in Lengths, NEW s \in CrcState, NEW byte \in Byte
  PROVE  CRCByte(size, s, byte) \in CrcState
<1>1. s.count \in Nat /\ s.bytes \in Seq(Byte) /\ s.msgs \in Seq(Seq(Byte))
  BY DEF CrcState
<1>2. Append(s.bytes, byte) \in Seq(Byte) /\ s.count + 1 \in Nat
  BY <1>1
<1>3. Append(s.msgs, Append(s.bytes, byte)) \in Seq(Seq(Byte))
  BY <1>1, <1>2
<1>4. <<>> \in Seq(Byte)
  OBVIOUS
<1> QED  BY <1>1, <1>2, <1>3, <1>4 DEF CRCByte, CrcState

(* The states of CRC16 within one call.                                    *)
LEMMA CRCStatesUnfold ==
  ASSUME NEW size \in Lengths, NEW start \in CrcState, NEW n \in Nat,
         \A i \in 1..n : crcIn[i] \in Byte
  PROVE  LET state == CRCStates(size, start, n)
         IN  /\ state \in [0..n -> CrcState]
             /\ state[0] = start
             /\ \A i \in 1..n : state[i] = CRCByte(size, state[i - 1], crcIn[i])
<1> DEFINE step == [i \in 1..n |-> [s \in CrcState |-> CRCByte(size, s, crcIn[i])]]
           Unfolds(g) ==
             g = [i \in 0..n |-> IF i = 0 THEN start ELSE CRCByte(size, g[i - 1], crcIn[i])]
           state == CRCStates(size, start, n)
<1>1. step \in [1..n -> [CrcState -> CrcState]]
  BY CRCByteTyped
<1>2. PICK g \in [0..n -> CrcState] : SolvesRecursion(g, n, start, step)
  <2> HIDE DEF step
  <2> QED  BY <1>1, RecursionExists
<1>3. Unfolds(g)
  <2>1. ASSUME NEW i \in 0..n, i # 0
        PROVE  step[i][g[i - 1]] = CRCByte(size, g[i - 1], crcIn[i])
    <3>1. i \in 1..n /\ g[i - 1] \in CrcState
      BY <2>1
    <3> QED  BY <3>1
  <2> HIDE DEF step
  <2> QED  BY <1>2, <2>1 DEF SolvesRecursion
<1>4. Unfolds(state)
  <2>1. state = CHOOSE e : Unfolds(e)
    BY DEF CRCStates
  <2> HIDE DEF Unfolds, state
  <2> QED  BY <1>3, <2>1
<1> HIDE DEF state
<1>5. \A i \in 0..n : state[i] = IF i = 0 THEN start ELSE CRCByte(size, state[i - 1], crcIn[i])
  BY <1>4
<1> DEFINE T == {i \in 0..n : state[i] \in CrcState}
<1>6. 0..n \subseteq T
  <2>1. 0 \in T
    BY <1>5
  <2>2. ASSUME NEW i \in 0..n, i \in T, i < n
        PROVE  i + 1 \in T
    <3>1. i + 1 \in 0..n /\ i + 1 \in 1..n /\ (i + 1) - 1 = i /\ i + 1 # 0
      BY <2>2
    <3>2. state[i + 1] = CRCByte(size, state[i], crcIn[i + 1])
      BY <3>1, <1>5
    <3> QED  BY <3>1, <3>2, <2>2, CRCByteTyped
  <2> HIDE DEF T
  <2> QED  BY <2>1, <2>2, InductTo
<1>7. state \in [0..n -> CrcState]
  <2>1. state = [i \in 0..n |-> state[i]]
    BY <1>4
  <2>2. \A i \in 0..n : state[i] \in CrcState
    BY <1>6
  <2> QED  BY <2>1, <2>2
<1>8. \A i \in 1..n : state[i] = CRCByte(size, state[i - 1], crcIn[i])
  BY <1>5
<1> QED  BY <1>5, <1>7, <1>8 DEF state

LEMMA AppendToPair ==
  ASSUME NEW a, NEW b, NEW c
  PROVE  Append(<<a, b>>, c) = <<a, b, c>>
<1> DEFINE T == {a, b, c}
           s == <<a, b>>
           r == <<a, b, c>>
<1>1. s \in Seq(T) /\ Len(s) = 2 /\ s[1] = a /\ s[2] = b /\ c \in T
  OBVIOUS
<1>2. r \in Seq(T) /\ Len(r) = 3 /\ r[1] = a /\ r[2] = b /\ r[3] = c
  OBVIOUS
<1> HIDE DEF T, s, r
<1> DEFINE t == Append(s, c)
<1>3. /\ t \in Seq(T) /\ Len(t) = Len(s) + 1 /\ t[Len(s) + 1] = c
      /\ \A i \in 1..Len(s) : t[i] = s[i]
  <2>1. s \in Seq(T) /\ c \in T
    BY <1>1
  <2> QED  BY <2>1, AppendAt
<1> HIDE DEF t
<1>4. t = r
  BY <1>1, <1>2, <1>3, SameSeq
<1> QED  BY <1>4 DEF s, r, t

LEMMA RandomizeByteTyped ==
  ASSUME NEW size \in Lengths, NEW s \in RndState, NEW byte \in Byte
  PROVE  /\ RandomizeByte(size, s, byte) \in RndState
         /\ RandomizeByte(size, s, byte).out
              = s.out \o <<<<byte[1], byte[2], s.lfsr>>, <<byte[1], byte[2], s.lfsr>>>>
<1>1. s.count \in Nat /\ s.lfsr \in Nat /\ s.out \in Seq(Nibble)
  BY DEF RndState
<1>2. PICK f \in Frames, i \in Nat : byte = <<f, i>>
  BY DEF Byte
<1> DEFINE w == <<f, i, s.lfsr>>
<1>3. Append(byte, s.lfsr) = w /\ byte[1] = f /\ byte[2] = i
  BY <1>2, AppendToPair
<1>4. w \in Nibble
  BY <1>1 DEF Nibble
<1> HIDE DEF w
<1>5. <<w, w>> \in Seq(Nibble)
  BY <1>4
<1>6. s.out \o <<w, w>> \in Seq(Nibble)
  BY <1>1, <1>5, ConcatAt
<1>7. s.count + 1 \in Nat /\ s.lfsr + 1 \in Nat
  BY <1>1
<1>8. RandomizeByte(size, s, byte)
        = [count |-> IF s.count + 1 = size THEN 0 ELSE s.count + 1,
           lfsr  |-> IF s.count + 1 = size THEN 1 ELSE s.lfsr + 1,
           out   |-> s.out \o <<w, w>>]
  BY <1>3 DEF RandomizeByte
<1> QED  BY <1>3, <1>6, <1>7, <1>8 DEF RndState, w

(* The states of randomize within one call.                                *)
LEMMA RandomizeStatesUnfold ==
  ASSUME NEW size \in Lengths, NEW start \in RndState, NEW n \in Nat,
         \A i \in 1..n : rndIn[i] \in Byte
  PROVE  LET state == RandomizeStates(size, start, n)
         IN  /\ state \in [0..n -> RndState]
             /\ state[0] = start
             /\ \A i \in 1..n : state[i] = RandomizeByte(size, state[i - 1], rndIn[i])
<1> DEFINE step == [i \in 1..n |-> [s \in RndState |-> RandomizeByte(size, s, rndIn[i])]]
           Unfolds(g) ==
             g = [i \in 0..n |-> IF i = 0 THEN start ELSE RandomizeByte(size, g[i - 1], rndIn[i])]
           state == RandomizeStates(size, start, n)
<1>1. step \in [1..n -> [RndState -> RndState]]
  BY RandomizeByteTyped
<1>2. PICK g \in [0..n -> RndState] : SolvesRecursion(g, n, start, step)
  <2> HIDE DEF step
  <2> QED  BY <1>1, RecursionExists
<1>3. Unfolds(g)
  <2>1. ASSUME NEW i \in 0..n, i # 0
        PROVE  step[i][g[i - 1]] = RandomizeByte(size, g[i - 1], rndIn[i])
    <3>1. i \in 1..n /\ g[i - 1] \in RndState
      BY <2>1
    <3> QED  BY <3>1
  <2> HIDE DEF step
  <2> QED  BY <1>2, <2>1 DEF SolvesRecursion
<1>4. Unfolds(state)
  <2>1. state = CHOOSE e : Unfolds(e)
    BY DEF RandomizeStates
  <2> HIDE DEF Unfolds, state
  <2> QED  BY <1>3, <2>1
<1> HIDE DEF state
<1>5. \A i \in 0..n : state[i] = IF i = 0 THEN start
                                 ELSE RandomizeByte(size, state[i - 1], rndIn[i])
  BY <1>4
<1> DEFINE T == {i \in 0..n : state[i] \in RndState}
<1>6. 0..n \subseteq T
  <2>1. 0 \in T
    BY <1>5
  <2>2. ASSUME NEW i \in 0..n, i \in T, i < n
        PROVE  i + 1 \in T
    <3>1. i + 1 \in 0..n /\ i + 1 \in 1..n /\ (i + 1) - 1 = i /\ i + 1 # 0
      BY <2>2
    <3>2. state[i + 1] = RandomizeByte(size, state[i], rndIn[i + 1])
      BY <3>1, <1>5
    <3> QED  BY <3>1, <3>2, <2>2, RandomizeByteTyped
  <2> HIDE DEF T
  <2> QED  BY <2>1, <2>2, InductTo
<1>7. state \in [0..n -> RndState]
  <2>1. state = [i \in 0..n |-> state[i]]
    BY <1>4
  <2>2. \A i \in 0..n : state[i] \in RndState
    BY <1>6
  <2> QED  BY <2>1, <2>2
<1>8. \A i \in 1..n : state[i] = RandomizeByte(size, state[i - 1], rndIn[i])
  BY <1>5
<1> QED  BY <1>5, <1>7, <1>8 DEF state

LEMMA PathTypesInit == Init => PathTypes
<1> SUFFICES ASSUME Init PROVE PathTypes
  OBVIOUS
<1>1. crcIn = <<>> /\ crcBytes = <<>> /\ crcMsgs = <<>> /\ rndIn = <<>> /\ crc = <<>>
      /\ nibbles = <<>> /\ body = <<>> /\ nextFrame = 1 /\ crcCount = 0 /\ rndCount = 0
      /\ lfsr = 1
  BY DEF Init
<1>2. NFrames \in Nat
  BY SizesTyped
<1>3. /\ crcIn \in Seq(Byte) /\ crcBytes \in Seq(Byte) /\ crcMsgs \in Seq(Seq(Byte))
      /\ rndIn \in Seq(Byte) /\ crc \in Seq(Byte)
      /\ nibbles \in Seq(Nibble) /\ body \in Seq(Nibble)
      /\ nextFrame \in 1..(NFrames + 1) /\ crcCount \in Nat /\ rndCount \in Nat /\ lfsr \in Nat
  BY <1>1, <1>2
<1> QED  BY <1>3 DEF Init, PathTypes

(* A call of CRC16 ...                                                     *)
LEMMA CRC16Typed ==
  ASSUME PathTypes, NEW n \in 1..Len(crcIn), CRC16Work(n)
  PROVE  LET size  == TaggedSize(Head(crcIn), crcSize)
             start == [count |-> crcCount, bytes |-> crcBytes, msgs |-> <<>>]
         IN  /\ crcIn \in Seq(Byte) /\ Len(crcIn) \in Nat /\ n \in Nat
             /\ Head(crcIn) = crcIn[1] /\ crcIn # <<>>
             /\ \A i \in 1..Len(crcIn) : crcIn[i] \in Byte
             /\ size \in Lengths /\ start \in CrcState
             /\ CRCStates(size, start, n)[n] \in CrcState
<1>1. /\ crcIn \in Seq(Byte) /\ Len(crcIn) \in Nat /\ n \in Nat
      /\ Head(crcIn) = crcIn[1] /\ crcIn # <<>> /\ \A i \in 1..Len(crcIn) : crcIn[i] \in Byte
  BY DEF PathTypes
<1> DEFINE size  == TaggedSize(Head(crcIn), crcSize)
           start == [count |-> crcCount, bytes |-> crcBytes, msgs |-> <<>>]
<1>2. crcIn[1] \in Byte
  BY <1>1
<1>3. size \in Lengths
  BY <1>1, <1>2, TaggedSizeTyped DEF PathTypes
<1>4. start \in CrcState
  <2>1. <<>> \in Seq(Seq(Byte))
    OBVIOUS
  <2> QED  BY <2>1 DEF PathTypes, CrcState
<1> HIDE DEF size, start
<1>5. \A i \in 1..n : crcIn[i] \in Byte
  BY <1>1
<1> DEFINE state == CRCStates(size, start, n)
<1>6. state \in [0..n -> CrcState]
  BY <1>1, <1>3, <1>4, <1>5, CRCStatesUnfold
<1> HIDE DEF state
<1>7. state[n] \in CrcState
  BY <1>1, <1>6
<1> QED  BY <1>1, <1>3, <1>4, <1>7 DEF state, size, start

(* ... and of randomize.                                                   *)
LEMMA RandomizeTyped ==
  ASSUME PathTypes, NEW n \in 1..Len(rndIn), RandomizeWork(n)
  PROVE  LET size  == TaggedSize(Head(rndIn), rndSize)
             start == [count |-> rndCount, lfsr |-> lfsr, out |-> <<>>]
         IN  /\ rndIn \in Seq(Byte) /\ Len(rndIn) \in Nat /\ n \in Nat
             /\ Head(rndIn) = rndIn[1] /\ rndIn # <<>>
             /\ \A i \in 1..Len(rndIn) : rndIn[i] \in Byte
             /\ size \in Lengths /\ start \in RndState
             /\ RandomizeStates(size, start, n)[n] \in RndState
<1>1. /\ rndIn \in Seq(Byte) /\ Len(rndIn) \in Nat /\ n \in Nat
      /\ Head(rndIn) = rndIn[1] /\ rndIn # <<>> /\ \A i \in 1..Len(rndIn) : rndIn[i] \in Byte
  BY DEF PathTypes
<1> DEFINE size  == TaggedSize(Head(rndIn), rndSize)
           start == [count |-> rndCount, lfsr |-> lfsr, out |-> <<>>]
<1>2. rndIn[1] \in Byte
  BY <1>1
<1>3. size \in Lengths
  BY <1>1, <1>2, TaggedSizeTyped DEF PathTypes
<1>4. start \in RndState
  <2>1. <<>> \in Seq(Nibble)
    OBVIOUS
  <2> QED  BY <2>1 DEF PathTypes, RndState
<1> HIDE DEF size, start
<1>5. \A i \in 1..n : rndIn[i] \in Byte
  BY <1>1
<1> DEFINE state == RandomizeStates(size, start, n)
<1>6. state \in [0..n -> RndState]
  BY <1>1, <1>3, <1>4, <1>5, RandomizeStatesUnfold
<1> HIDE DEF state
<1>7. state[n] \in RndState
  BY <1>1, <1>6
<1> QED  BY <1>1, <1>3, <1>4, <1>7 DEF state, size, start

(* The size a header call works with.                                      *)
HeaderSize == IF SizeTag = <<>> THEN payloadSize ELSE TC!ValidSize(SizeTag[1])

LEMMA SizeTagTyped ==
  ASSUME PathTypes
  PROVE  /\ SizeTag = <<>> \/ \E n \in Lengths : SizeTag = <<n>>
         /\ HeaderSize \in Lengths
         /\ SizeTag = <<>> => HeaderSize = payloadSize
         /\ \A n \in Lengths : SizeTag = <<n>> => HeaderSize = n
<1>1. ASSUME nibbles # <<>>
      PROVE  len[Head(nibbles)[1]] \in Lengths
  <2>1. Head(nibbles) \in Nibble
    BY <1>1 DEF PathTypes
  <2>2. Head(nibbles)[1] \in Frames
    BY <2>1 DEF Nibble
  <2> QED  BY <2>2 DEF PathTypes
<1>2. SizeTag = <<>> \/ \E n \in Lengths : SizeTag = <<n>>
  BY <1>1, Zenon DEF SizeTag
<1>3. SizeTag = <<>> => HeaderSize = payloadSize
  BY DEF HeaderSize
<1>4. ASSUME NEW n \in Lengths, SizeTag = <<n>>
      PROVE  HeaderSize = n
  <2>1. SizeTag # <<>> /\ SizeTag[1] = n
    BY <1>4
  <2>2. n <= 255 /\ n \in Nat
    BY SizesTyped
  <2>3. TC!ValidSize(n) = n
    BY <2>2 DEF TC!ValidSize
  <2> QED  BY <2>1, <2>3 DEF HeaderSize
<1>5. payloadSize \in Lengths
  BY DEF PathTypes
<1> QED  BY <1>2, <1>3, <1>4, <1>5

(* A call of the controller takes k nibbles.                               *)
LEMMA WriteTyped ==
  ASSUME PathTypes, NEW k \in 0..Len(nibbles),
         nibbles' = SubSeq(nibbles, k + 1, Len(nibbles)), Write(k)
  PROVE  nibbles' \in Seq(Nibble) /\ body' \in Seq(Nibble)
<1>1. nibbles \in Seq(Nibble) /\ body \in Seq(Nibble)
  BY DEF PathTypes
<1>2. nibbles' \in Seq(Nibble)
  BY <1>1, DropFirst
<1> DEFINE taken == SubSeq(nibbles, 1, k)
<1>3. taken \in Seq(Nibble)
  BY <1>1, TakeFirst
<1> HIDE DEF taken
<1>4. body \o taken \in Seq(Nibble)
  BY <1>1, <1>3, ConcatAt
<1>5. body' = <<>> \/ body' = body \o taken
  BY Zenon DEF Write, taken
<1>6. <<>> \in Seq(Nibble)
  OBVIOUS
<1> QED  BY <1>2, <1>4, <1>5, <1>6

LEMMA PathTypesStep == PathTypes /\ [Next]_vars => PathTypes'
<1> SUFFICES ASSUME PathTypes, [Next]_vars PROVE PathTypes'
  OBVIOUS
<1> USE DEF given, crcVars, rndVars, tcVars, silenceVars
<1>1. CASE SendPDU
  <2>1. nextFrame \in Frames /\ nextFrame' = nextFrame + 1 /\ nextFrame' \in 1..(NFrames + 1)
    BY <1>1, SizesTyped DEF SendPDU, Frames
  <2> DEFINE b == BytesOf(nextFrame)
  <2>2. b \in Seq(Byte)
    BY <2>1, BytesOfTyped DEF PathTypes
  <2> HIDE DEF b
  <2>3. crcIn \o b \in Seq(Byte) /\ rndIn \o b \in Seq(Byte)
    BY <2>2, ConcatAt DEF PathTypes
  <2>4. crcIn' = crcIn \o b /\ rndIn' = rndIn \o b
    BY <1>1 DEF SendPDU, b
  <2> QED  BY <1>1, <2>1, <2>3, <2>4 DEF SendPDU, PathTypes
<1>2. ASSUME NEW n \in 1..Len(crcIn), CRC16Work(n)
      PROVE  PathTypes'
  <2> DEFINE size  == TaggedSize(Head(crcIn), crcSize)
             start == [count |-> crcCount, bytes |-> crcBytes, msgs |-> <<>>]
  <2>1. /\ crcIn \in Seq(Byte) /\ n \in 0..Len(crcIn)
        /\ size \in Lengths /\ CRCStates(size, start, n)[n] \in CrcState
    BY <1>2, CRC16Typed
  <2> HIDE DEF start
  <2>2. PICK done \in CrcState : done = CRCStates(size, start, n)[n]
    BY <2>1
  <2>3. /\ crcIn' = SubSeq(crcIn, n + 1, Len(crcIn)) /\ crcSize' = size
        /\ crcCount' = done.count /\ crcBytes' = done.bytes /\ crcMsgs' = crcMsgs \o done.msgs
    BY <1>2, <2>2 DEF CRC16Work, start
  <2> HIDE DEF size
  <2>4. done.count \in Nat /\ done.bytes \in Seq(Byte) /\ done.msgs \in Seq(Seq(Byte))
    BY DEF CrcState
  <2>5. crcIn' \in Seq(Byte)
    BY <2>1, <2>3, DropFirst
  <2>6. crcMsgs' \in Seq(Seq(Byte))
    BY <2>3, <2>4, ConcatAt DEF PathTypes
  <2> QED  BY <1>2, <2>1, <2>3, <2>4, <2>5, <2>6 DEF CRC16Work, PathTypes
<1>3. ASSUME NEW n \in 1..Len(rndIn), RandomizeWork(n)
      PROVE  PathTypes'
  <2> DEFINE size  == TaggedSize(Head(rndIn), rndSize)
             start == [count |-> rndCount, lfsr |-> lfsr, out |-> <<>>]
  <2>1. /\ rndIn \in Seq(Byte) /\ n \in 0..Len(rndIn)
        /\ size \in Lengths /\ RandomizeStates(size, start, n)[n] \in RndState
    BY <1>3, RandomizeTyped
  <2> HIDE DEF start
  <2>2. PICK done \in RndState : done = RandomizeStates(size, start, n)[n]
    BY <2>1
  <2>3. /\ rndIn' = SubSeq(rndIn, n + 1, Len(rndIn)) /\ rndSize' = size
        /\ rndCount' = done.count /\ lfsr' = done.lfsr /\ nibbles' = nibbles \o done.out
    BY <1>3, <2>2 DEF RandomizeWork, start
  <2> HIDE DEF size
  <2>4. done.count \in Nat /\ done.lfsr \in Nat /\ done.out \in Seq(Nibble)
    BY DEF RndState
  <2>5. rndIn' \in Seq(Byte)
    BY <2>1, <2>3, DropFirst
  <2>6. nibbles' \in Seq(Nibble)
    BY <2>3, <2>4, ConcatAt DEF PathTypes
  <2> QED  BY <1>3, <2>1, <2>3, <2>4, <2>5, <2>6 DEF RandomizeWork, PathTypes
<1>4. CASE HandleCrc
  <2>1. Head(crcMsgs) \in Seq(Byte) /\ Tail(crcMsgs) \in Seq(Seq(Byte))
    BY <1>4, TailOf DEF HandleCrc, PathTypes
  <2>2. /\ crc' = Head(crcMsgs) /\ crcMsgs' = Tail(crcMsgs)
        /\ UNCHANGED <<params, payloadSize, nibbles>>
    BY <1>4 DEF HandleCrc, TC!SetCrc
  <2> QED  BY <1>4, <2>1, <2>2 DEF HandleCrc, PathTypes
<1>5. CASE SendHeader
  <2>1. PICK k \in 0..Len(nibbles) :
          /\ nibbles' = SubSeq(nibbles, k + 1, Len(nibbles))
          /\ TC!SendHeader(SizeTag, <<>>) /\ Write(k)
    BY <1>5 DEF SendHeader
  <2>2. nibbles' \in Seq(Nibble) /\ body' \in Seq(Nibble)
    BY <2>1, WriteTyped
  <2>3. params' = params /\ payloadSize' = HeaderSize /\ UNCHANGED crc
    BY <2>1, Zenon DEF TC!SendHeader, HeaderSize
  <2> QED  BY <1>5, <2>2, <2>3, SizeTagTyped DEF SendHeader, PathTypes
<1>6. CASE SendPayload
  <2>1. PICK k \in 0..Len(nibbles) :
          /\ nibbles' = SubSeq(nibbles, k + 1, Len(nibbles))
          /\ TC!SendPayload /\ Write(k)
    BY <1>6 DEF SendPayload
  <2>2. nibbles' \in Seq(Nibble) /\ body' \in Seq(Nibble)
    BY <2>1, WriteTyped
  <2>3. UNCHANGED <<params, payloadSize, crc>>
    BY <2>1 DEF TC!SendPayload
  <2> QED  BY <1>6, <2>2, <2>3 DEF SendPayload, PathTypes
<1>7. CASE Modulate
  BY <1>7 DEF Modulate, PathTypes
<1>8. CASE AppendSilence
  BY <1>8 DEF AppendSilence, HandleStart, PassChunk, PassSilence, PathTypes
<1>9. CASE UNCHANGED vars
  BY <1>9 DEF vars, PathTypes
<1> QED  BY <1>1, <1>2, <1>3, <1>4, <1>5, <1>6, <1>7, <1>8, <1>9
            DEF Next, CRC16, Randomize, Controller
-----------------------------------------------------------------------------
(* The starts.                                                             *)

Chunk == [frame : Nat \ {0}, last : BOOLEAN]
OnTheAir == Chunk \cup {Silence}

IsSequence(s) == \E S : s \in Seq(S)

IsFrame(f) ==
  \E p, n, used, written, crcs, done, tagged, resized :
    f = [p |-> p, len |-> n, payload |-> used, written |-> written, crcs |-> crcs,
         done |-> done, tagged |-> tagged, resized |-> resized]

StartTypes ==
  /\ chain \in Seq(Chunk) /\ samples \in Seq(Chunk) /\ air \in Seq(OnTheAir)
  /\ startMsgs \in Nat /\ absorbed \in Nat /\ transmittingFrame \in BOOLEAN
  /\ currentState \in {"sendingHeader", "sendingPayload"}
  /\ IsSequence(frames)
  /\ IsFrame(frame)

(* What AppendSilence has not passed on yet.                               *)
Waiting == samples \o chain

(* The frame of the next chunk it gets.                                    *)
Expected == IF Waiting = <<>> THEN Len(frames) + 1 ELSE Waiting[1].frame

WaitingInOrder ==
  /\ \A i \in 1..(Len(Waiting) - 1) : Waiting[i + 1].frame = FrameAfter(Waiting[i])
  /\ Waiting # <<>> => FrameAfter(Waiting[Len(Waiting)]) = Len(frames) + 1

(* The last chunk on the air comes before those that wait; when it does    *)
(* not end its frame, the frame is still being transmitted.                *)
AirContinues ==
  \A i \in 1..Len(air) :
    air[i] # Silence /\ (\A m \in (i + 1)..Len(air) : air[m] = Silence) =>
      /\ FrameAfter(air[i]) = Expected
      /\ ~air[i].last => i = Len(air) /\ transmittingFrame

Counted == Ended + absorbed + startMsgs + (IF transmittingFrame THEN 1 ELSE 0) = Started

StartInv == StartTypes /\ WaitingInOrder /\ AirContinues /\ AirInOrder /\ Ended \in Nat /\ Counted
-----------------------------------------------------------------------------
(* The head of t goes to the end of s: together they stay the same.        *)
LEMMA MoveHead ==
  ASSUME NEW S, NEW s \in Seq(S), NEW t \in Seq(S), t # <<>>
  PROVE  Append(s, Head(t)) \o Tail(t) = s \o t
<1>1. /\ Tail(t) \in Seq(S) /\ Len(Tail(t)) = Len(t) - 1 /\ Len(t) > 0
      /\ \A i \in 1..Len(t)-1 : Tail(t)[i] = t[i+1]
      /\ Head(t) = t[1] /\ t[1] \in S
  BY TailOf
<1>2. Head(t) \in S
  BY <1>1
<1> DEFINE a == Append(s, Head(t))
<1>3. /\ a \in Seq(S) /\ Len(a) = Len(s) + 1 /\ a[Len(s) + 1] = t[1]
      /\ \A i \in 1..Len(s) : a[i] = s[i]
  BY <1>1, <1>2, AppendAt
<1> HIDE DEF a
<1> DEFINE l == a \o Tail(t)
           r == s \o t
<1>4. /\ l \in Seq(S) /\ Len(l) = Len(a) + Len(Tail(t))
      /\ \A i \in 1..Len(a) : l[i] = a[i]
      /\ \A i \in 1..Len(Tail(t)) : l[Len(a) + i] = Tail(t)[i]
  <2>1. a \in Seq(S) /\ Tail(t) \in Seq(S)
    BY <1>1, <1>3
  <2> QED  BY <2>1, ConcatAt
<1>5. /\ r \in Seq(S) /\ Len(r) = Len(s) + Len(t)
      /\ \A i \in 1..Len(s) : r[i] = s[i]
      /\ \A i \in 1..Len(t) : r[Len(s) + i] = t[i]
  BY ConcatAt
<1> HIDE DEF l, r
<1>6. Len(s) \in Nat /\ Len(t) \in Nat /\ Len(a) = Len(s) + 1 /\ Len(Tail(t)) = Len(t) - 1
  BY <1>1, <1>3
<1>7. Len(l) = Len(r)
  BY <1>4, <1>5, <1>6
<1>8. ASSUME NEW i \in 1..Len(r)
      PROVE  l[i] = r[i]
  <2>1. CASE i \in 1..Len(s)
    BY <2>1, <1>3, <1>4, <1>5, <1>6
  <2>2. CASE i = Len(s) + 1
    <3>1. 1 \in 1..Len(t) /\ i \in 1..Len(a)
      BY <2>2, <1>1, <1>6
    <3> QED  BY <3>1, <2>2, <1>3, <1>4, <1>5
  <2>3. CASE i > Len(s) + 1
    <3>1. PICK j \in Nat : i = Len(s) + 1 + j
      <4>1. i - (Len(s) + 1) \in Nat /\ i = Len(s) + 1 + (i - (Len(s) + 1))
        BY <2>3, <1>5, <1>6
      <4> QED  BY <4>1
    <3>2. j \in 1..Len(Tail(t)) /\ j \in 1..Len(t)-1 /\ j + 1 \in 1..Len(t)
          /\ i = Len(a) + j /\ i = Len(s) + (j + 1)
      BY <3>1, <2>3, <1>1, <1>5, <1>6
    <3> QED  BY <3>2, <1>1, <1>4, <1>5
  <2> QED  BY <2>1, <2>2, <2>3, <1>5, <1>6
<1>9. l = r
  BY <1>4, <1>5, <1>7, <1>8, SameSeq
<1> QED  BY <1>9 DEF l, r, a

LEMMA ConcatAppend ==
  ASSUME NEW S, NEW s \in Seq(S), NEW t \in Seq(S), NEW e \in S
  PROVE  s \o Append(t, e) = Append(s \o t, e)
OBVIOUS

LEMMA ConcatTail ==
  ASSUME NEW S, NEW s \in Seq(S), NEW t \in Seq(S), s # <<>>
  PROVE  Tail(s) \o t = Tail(s \o t) /\ s \o t # <<>> /\ Head(s) = (s \o t)[1]
OBVIOUS

LEMMA StartInit == Init => StartInv
<1> SUFFICES ASSUME Init PROVE StartInv
  OBVIOUS
<1>1. chain = <<>> /\ samples = <<>> /\ air = <<>> /\ frames = <<>>
  BY DEF Init
<1>2. StartTypes
  <2>1. IsSequence(frames)
    <3>1. frames \in Seq(Nat)
      BY <1>1
    <3> QED  BY <3>1, Zenon DEF IsSequence
  <2>2. IsFrame(frame)
    BY DEF Init, IsFrame
  <2>3. startMsgs = 0 /\ absorbed = 0 /\ currentState = "sendingHeader"
    BY DEF Init
  <2>4. transmittingFrame \in BOOLEAN
    BY Zenon DEF Init
  <2> QED  BY <1>1, <2>1, <2>2, <2>3, <2>4 DEF StartTypes
<1>3. WaitingInOrder
  BY <1>1 DEF WaitingInOrder, Waiting
<1>4. AirContinues /\ AirInOrder
  BY <1>1 DEF AirContinues, AirInOrder
<1>5. Ended = 0
  <2>1. {i \in DOMAIN air : air[i].last} = {}
    BY <1>1
  <2> QED  BY <2>1, FS_EmptySet DEF Ended
<1>6. Started = 0
  BY <1>1 DEF Init, Started
<1>7. Counted
  BY <1>5, <1>6 DEF Init, Counted
<1> QED  BY <1>2, <1>3, <1>4, <1>5, <1>7 DEF StartInv

LEMMA ChunkFields ==
  ASSUME NEW c \in Chunk
  PROVE  c.frame \in Nat \ {0} /\ c.last \in BOOLEAN
BY DEF Chunk

LEMMA WaitingTyped ==
  ASSUME StartTypes
  PROVE  /\ Waiting \in Seq(Chunk) /\ Len(frames) \in Nat
         /\ \A i \in 1..Len(Waiting) :
              Waiting[i].frame \in Nat \ {0} /\ Waiting[i].last \in BOOLEAN
<1>1. Waiting \in Seq(Chunk)
  BY ConcatAt DEF StartTypes, Waiting
<1>2. Len(frames) \in Nat
  <2>1. PICK S : frames \in Seq(S)
    BY Zenon DEF StartTypes, IsSequence
  <2> QED  BY <2>1
<1>3. \A i \in 1..Len(Waiting) : Waiting[i] \in Chunk
  BY <1>1
<1> QED  BY <1>1, <1>2, <1>3, ChunkFields

LEMMA AirTyped ==
  ASSUME air \in Seq(OnTheAir)
  PROVE  \A i \in 1..Len(air) : air[i].last \in BOOLEAN /\ air[i].frame \in Nat
                                /\ (air[i].frame = 0 => air[i] = Silence)
<1>1. \A c \in OnTheAir :
        c.last \in BOOLEAN /\ c.frame \in Nat /\ (c.frame = 0 => c = Silence)
  <2>1. Silence.last \in BOOLEAN /\ Silence.frame = 0
    BY Zenon DEF Silence
  <2>2. \A c \in Chunk : c.last \in BOOLEAN /\ c.frame \in Nat /\ c.frame # 0
    BY ChunkFields
  <2> QED  BY <2>1, <2>2 DEF OnTheAir
<1>2. \A i \in 1..Len(air) : air[i] \in OnTheAir
  OBVIOUS
<1> QED  BY <1>1, <1>2, Zenon

(* The steps of the blocks that do not touch the chunks or the starts.     *)
LEMMA StartsUntouched ==
  ASSUME StartInv,
         UNCHANGED <<chain, samples, air, startMsgs, absorbed, transmittingFrame,
                     currentState, frames, frame>>
  PROVE  StartInv'
<1>1. StartTypes'
  BY DEF StartInv, StartTypes
<1>2. WaitingInOrder' /\ AirContinues' /\ AirInOrder'
  BY ZenonT(30) DEF StartInv, WaitingInOrder, AirContinues, AirInOrder, Expected, Waiting, FrameAfter
<1>3. Ended' = Ended /\ Started' = Started
  BY DEF Ended, Started
<1>4. Counted'
  BY <1>3 DEF StartInv, Counted
<1> QED  BY <1>1, <1>2, <1>3, <1>4 DEF StartInv

(* A call of the controller writes a chunk: what it leaves is in order.    *)
LEMMA ChunkWritten ==
  ASSUME StartInv, NEW d \in BOOLEAN,
         chain' = Append(chain, [frame |-> Len(frames) + 1, last |-> d]),
         Len(frames') = Len(frames) + (IF d THEN 1 ELSE 0),
         UNCHANGED <<samples, air, transmittingFrame>>
  PROVE  chain' \in Seq(Chunk) /\ WaitingInOrder' /\ AirContinues' /\ AirInOrder' /\ Ended' = Ended
<1> DEFINE c == [frame |-> Len(frames) + 1, last |-> d]
           w == Waiting
           n == Len(frames)
<1>1. /\ n \in Nat /\ w \in Seq(Chunk) /\ chain \in Seq(Chunk) /\ samples \in Seq(Chunk)
      /\ \A i \in 1..Len(w) : w[i].frame \in Nat \ {0} /\ w[i].last \in BOOLEAN
  BY WaitingTyped DEF StartInv, StartTypes
<1>2. c \in Chunk /\ FrameAfter(c) = Len(frames') + 0 + 1 /\ c.frame = n + 1
  BY <1>1 DEF Chunk, FrameAfter
<1>3. Waiting' = Append(w, c)
  <2>1. Waiting' = samples \o Append(chain, c)
    BY DEF Waiting
  <2> HIDE DEF c
  <2> QED  BY <2>1, <1>1, <1>2, ConcatAppend DEF Waiting
<1>4. chain' \in Seq(Chunk)
  <2> HIDE DEF c
  <2>1. chain' = Append(chain, c)
    BY DEF c
  <2> QED  BY <2>1, <1>1, <1>2
<1> HIDE DEF c
<1>5. /\ Waiting' \in Seq(Chunk) /\ Len(Waiting') = Len(w) + 1
      /\ \A i \in 1..Len(w) : Waiting'[i] = w[i]
      /\ Waiting'[Len(w) + 1] = c
  BY <1>1, <1>2, <1>3, AppendAt
<1>6. /\ \A i \in 1..(Len(w) - 1) : w[i + 1].frame = FrameAfter(w[i])
      /\ w # <<>> => FrameAfter(w[Len(w)]) = n + 1
      /\ Len(w) \in Nat
      /\ w # <<>> <=> Len(w) > 0
  BY <1>1, SMTT(30) DEF StartInv, WaitingInOrder
<1> HIDE DEF w
<1>7. WaitingInOrder'
  <2>1. ASSUME NEW i \in 1..(Len(Waiting') - 1)
        PROVE  Waiting'[i + 1].frame = FrameAfter(Waiting'[i])
    <3>1. CASE i = Len(w)
      <4>1. w # <<>> /\ i \in 1..Len(w)
        BY <3>1, <2>1, <1>5, <1>6
      <4> QED  BY <4>1, <3>1, <1>2, <1>5, <1>6
    <3>2. CASE i # Len(w)
      <4>1. i \in 1..(Len(w) - 1) /\ i \in 1..Len(w) /\ i + 1 \in 1..Len(w)
        BY <3>2, <2>1, <1>5, <1>6
      <4> QED  BY <4>1, <1>5, <1>6
    <3> QED  BY <3>1, <3>2
  <2>2. FrameAfter(Waiting'[Len(Waiting')]) = Len(frames') + 1
    BY <1>1, <1>2, <1>5
  <2>3. (\A i \in 1..(Len(Waiting') - 1) : Waiting'[i + 1].frame = FrameAfter(Waiting'[i])) =>
          WaitingInOrder'
    BY <2>2 DEF WaitingInOrder, FrameAfter
  <2> QED  BY <2>1, <2>3
<1>8. Expected' = Expected
  <2>1. Expected' = Waiting'[1].frame
    BY <1>5, <1>6 DEF Expected
  <2>2. CASE w = <<>>
    <3>1. Len(w) = 0 /\ Expected = n + 1
      BY <2>2 DEF Expected, w
    <3> QED  BY <2>1, <3>1, <1>2, <1>5
  <2>3. CASE w # <<>>
    <3>1. Expected = w[1].frame /\ 1 \in 1..Len(w)
      BY <2>3, <1>6 DEF Expected, w
    <3> QED  BY <2>1, <3>1, <1>5
  <2> QED  BY <2>2, <2>3
<1>9. AirContinues' /\ AirInOrder' /\ Ended' = Ended
  <2>1. AirContinues /\ AirInOrder
    BY DEF StartInv
  <2> QED  BY <2>1, <1>8, Zenon DEF AirContinues, AirInOrder, Ended, FrameAfter
<1> QED  BY <1>4, <1>7, <1>9

(* A finished frame goes into the history.                                 *)
LEMMA HistoryGrows ==
  ASSUME IsSequence(frames), NEW e
  PROVE  IsSequence(Append(frames, e)) /\ Len(Append(frames, e)) = Len(frames) + 1
<1>1. PICK S : frames \in Seq(S)
  BY Zenon DEF IsSequence
<1> DEFINE T == S \cup {e}
<1>2. frames \in Seq(T) /\ e \in T
  BY <1>1
<1> HIDE DEF T
<1>3. Append(frames, e) \in Seq(T) /\ Len(Append(frames, e)) = Len(frames) + 1
  BY <1>2
<1> QED  BY <1>3, Zenon DEF IsSequence

LEMMA WriteGrows ==
  ASSUME IsSequence(frames), NEW k, Write(k), NEW d \in BOOLEAN, frame'.done = d
  PROVE  /\ chain' = Append(chain, [frame |-> Len(frames) + 1, last |-> d])
         /\ IsSequence(frames') /\ Len(frames') = Len(frames) + (IF d THEN 1 ELSE 0)
<1> DEFINE e == [len |-> frame'.len, body |-> body \o SubSeq(nibbles, 1, k),
                 crcs |-> frame'.crcs]
<1>1. /\ chain' = Append(chain, [frame |-> Len(frames) + 1, last |-> d])
      /\ frames' = IF d THEN Append(frames, e) ELSE frames
  BY Zenon DEF Write
<1> HIDE DEF e
<1>2. CASE d
  <2>1. frames' = Append(frames, e) /\ IsSequence(frames')
        /\ Len(frames') = Len(frames) + 1
    BY <1>1, <1>2, HistoryGrows
  <2> QED  BY <1>1, <1>2, <2>1
<1>3. CASE ~d
  <2>1. frames' = frames /\ IsSequence(frames')
    BY <1>1, <1>3
  <2>2. Len(frames) \in Nat
    <3>1. PICK S : frames \in Seq(S)
      BY Zenon DEF IsSequence
    <3> QED  BY <3>1
  <2> QED  BY <1>1, <1>3, <2>1, <2>2
<1> QED  BY <1>2, <1>3

(* What a call of the controller does to the frame and the starts.         *)
LEMMA HeaderStart ==
  ASSUME PathTypes, StartInv, SendHeader
  PROVE  \E d \in BOOLEAN :
           /\ chain' = Append(chain, [frame |-> Len(frames) + 1, last |-> d])
           /\ IsSequence(frames') /\ Len(frames') = Len(frames) + (IF d THEN 1 ELSE 0)
           /\ IsFrame(frame')
           /\ currentState = "sendingHeader"
           /\ currentState' = IF d THEN "sendingHeader" ELSE "sendingPayload"
           /\ startMsgs' = startMsgs + 1
           /\ UNCHANGED <<samples, air, transmittingFrame, absorbed>>
<1>1. PICK k \in 0..Len(nibbles) : TC!SendHeader(SizeTag, <<>>) /\ Write(k)
  BY DEF SendHeader
<1> DEFINE n == IF SizeTag = <<>> THEN payloadSize ELSE TC!ValidSize(SizeTag[1])
           d == TC!NNibbles(params, n) <= TC!HeaderRoom(params)
<1>2. PICK announced, used, written, crcs, tagged :
        frame' = [p |-> params, len |-> announced, payload |-> used, written |-> written,
                  crcs |-> crcs, done |-> d, tagged |-> tagged, resized |-> FALSE]
  BY <1>1, Zenon DEF TC!SendHeader
<1>3. /\ currentState = "sendingHeader"
      /\ currentState' = IF d THEN "sendingHeader" ELSE "sendingPayload"
  BY <1>1, Zenon DEF TC!SendHeader
<1> HIDE DEF n, d
<1>4. d \in BOOLEAN
  <2>1. n \in Nat /\ params = P
    BY SizeTagTyped, SizesTyped DEF HeaderSize, n, PathTypes
  <2>2. PICK a \in Nat : a = TC!NNibbles(P, n)
    BY <2>1 DEF TC!NNibbles, TC!CRCSize
  <2>3. PICK b \in Nat : b = TC!HeaderRoom(P)
    BY SizesTyped DEF TC!HeaderRoom, HeaderRoom
  <2> QED  BY <2>1, <2>2, <2>3 DEF d
<1>5. frame'.done = d /\ IsFrame(frame')
  BY <1>2, Zenon DEF IsFrame
<1>6. /\ chain' = Append(chain, [frame |-> Len(frames) + 1, last |-> d])
      /\ IsSequence(frames') /\ Len(frames') = Len(frames) + (IF d THEN 1 ELSE 0)
  BY <1>1, <1>4, <1>5, WriteGrows DEF StartInv, StartTypes
<1>7. startMsgs' = startMsgs + 1 /\ UNCHANGED <<samples, air, transmittingFrame, absorbed>>
  BY DEF SendHeader
<1> QED  BY <1>3, <1>4, <1>5, <1>6, <1>7, Zenon

LEMMA PayloadStart ==
  ASSUME StartInv, SendPayload
  PROVE  /\ chain' = Append(chain, [frame |-> Len(frames) + 1, last |-> TRUE])
         /\ IsSequence(frames') /\ Len(frames') = Len(frames) + 1
         /\ IsFrame(frame')
         /\ currentState = "sendingPayload" /\ currentState' = "sendingHeader"
         /\ UNCHANGED <<startMsgs, samples, air, transmittingFrame, absorbed>>
<1>1. PICK k \in 0..Len(nibbles) : TC!SendPayload /\ Write(k)
  BY DEF SendPayload
<1>2. PICK p, n, used, written, crcs, done, tagged, resized :
        frame = [p |-> p, len |-> n, payload |-> used, written |-> written, crcs |-> crcs,
                 done |-> done, tagged |-> tagged, resized |-> resized]
  BY Zenon DEF StartInv, StartTypes, IsFrame
<1>3. PICK a, b, c : frame' = [frame EXCEPT !.payload = a, !.written = b, !.crcs = c, !.done = TRUE]
  BY <1>1 DEF TC!SendPayload
<1>4. frame' = [p |-> p, len |-> n, payload |-> a, written |-> b, crcs |-> c,
                done |-> TRUE, tagged |-> tagged, resized |-> resized]
  BY <1>2, <1>3
<1>5. frame'.done = TRUE /\ IsFrame(frame')
  BY <1>4, Zenon DEF IsFrame
<1>6. /\ chain' = Append(chain, [frame |-> Len(frames) + 1, last |-> TRUE])
      /\ IsSequence(frames') /\ Len(frames') = Len(frames) + 1
  <2>1. TRUE \in BOOLEAN
    OBVIOUS
  <2>2. /\ chain' = Append(chain, [frame |-> Len(frames) + 1, last |-> TRUE])
        /\ IsSequence(frames') /\ Len(frames') = Len(frames) + (IF TRUE THEN 1 ELSE 0)
    BY <1>1, <1>5, <2>1, WriteGrows DEF StartInv, StartTypes
  <2> QED  BY <2>2
<1>7. currentState = "sendingPayload" /\ currentState' = "sendingHeader"
  BY <1>1 DEF TC!SendPayload
<1>8. UNCHANGED <<startMsgs, samples, air, transmittingFrame, absorbed>>
  BY DEF SendPayload, silenceVars
<1> QED  BY <1>5, <1>6, <1>7, <1>8

LEMMA ModulateKeeps ==
  ASSUME StartInv, Modulate
  PROVE  StartInv'
<1>1. /\ chain \in Seq(Chunk) /\ samples \in Seq(Chunk) /\ chain # <<>>
      /\ chain' = Tail(chain) /\ samples' = Append(samples, Head(chain))
  BY DEF StartInv, StartTypes, Modulate
<1>2. Tail(chain) \in Seq(Chunk) /\ Head(chain) \in Chunk
  BY <1>1, TailOf
<1>3. samples' \in Seq(Chunk)
  BY <1>1, <1>2, AppendAt
<1>4. UNCHANGED <<air, startMsgs, absorbed, transmittingFrame, currentState, frames, frame>>
  BY DEF Modulate, tcVars
<1>5. Waiting' = Waiting
  BY <1>1, MoveHead DEF Waiting
<1>6. StartTypes'
  BY <1>1, <1>2, <1>3, <1>4 DEF StartInv, StartTypes
<1>7. WaitingInOrder' /\ AirContinues' /\ AirInOrder'
  BY <1>4, <1>5, ZenonT(30) DEF StartInv, WaitingInOrder, AirContinues, AirInOrder, Expected, FrameAfter
<1>8. Ended' = Ended /\ Started' = Started
  BY <1>4 DEF Ended, Started
<1>9. Counted'
  BY <1>4, <1>8 DEF StartInv, Counted
<1> QED  BY <1>6, <1>7, <1>8, <1>9 DEF StartInv

LEMMA HandleStartKeeps ==
  ASSUME StartInv, HandleStart
  PROVE  StartInv'
<1>1. /\ startMsgs > 0 /\ startMsgs' = startMsgs - 1 /\ transmittingFrame' = TRUE
      /\ absorbed' = IF transmittingFrame THEN absorbed + 1 ELSE absorbed
      /\ UNCHANGED <<chain, samples, air, currentState, frames, frame>>
  BY DEF HandleStart, tcVars
<1>2. startMsgs \in Nat /\ absorbed \in Nat
  BY DEF StartInv, StartTypes
<1>3. startMsgs' \in Nat /\ absorbed' \in Nat
  BY <1>1, <1>2
<1>4. StartTypes'
  <2>1. transmittingFrame' \in BOOLEAN
    BY <1>1, Zenon
  <2> QED  BY <1>1, <1>3, <2>1 DEF StartInv, StartTypes
<1>5. WaitingInOrder' /\ AirInOrder' /\ Expected' = Expected
  BY <1>1, Zenon DEF StartInv, WaitingInOrder, AirInOrder, Expected, Waiting, FrameAfter
<1>6. AirContinues'
  BY <1>1, <1>5, Zenon DEF StartInv, AirContinues, FrameAfter
<1>7. Ended' = Ended /\ Started' = Started
  BY <1>1 DEF Ended, Started
<1>8. Counted'
  BY <1>1, <1>2, <1>7 DEF StartInv, Counted
<1> QED  BY <1>4, <1>5, <1>6, <1>7, <1>8 DEF StartInv

(* One more chunk on the air.                                              *)
LEMMA EndedAfter ==
  ASSUME air \in Seq(OnTheAir), NEW c \in OnTheAir, air' = Append(air, c)
  PROVE  Ended' = Ended + (IF c.last THEN 1 ELSE 0) /\ Ended \in Nat
<1> DEFINE E == {i \in DOMAIN air : air[i].last}
           F == {i \in DOMAIN air' : air'[i].last}
           n == Len(air)
<1>1. /\ n \in Nat /\ DOMAIN air = 1..n
      /\ Len(air') = n + 1 /\ DOMAIN air' = 1..(n + 1)
      /\ \A i \in 1..n : air'[i] = air[i]
      /\ air'[n + 1] = c
  BY AppendAt
<1>2. E \subseteq 1..n /\ n + 1 \notin E
  BY <1>1
<1>3. IsFiniteSet(E)
  <2>1. IsFiniteSet(1..n)
    BY <1>1, FS_Interval
  <2> HIDE DEF E, n
  <2> QED  BY <1>2, <2>1, FS_Subset
<1>4. F = IF c.last THEN E \cup {n + 1} ELSE E
  BY <1>1
<1>5. Ended = Cardinality(E) /\ Ended' = Cardinality(F)
  BY DEF Ended
<1> HIDE DEF E, F, n
<1>6. Cardinality(E) \in Nat
  BY <1>3, FS_CardinalityType
<1>7. Cardinality(E \cup {n + 1}) = Cardinality(E) + 1
  BY <1>2, <1>3, FS_AddElement
<1> QED  BY <1>4, <1>5, <1>6, <1>7

(* What is Expected next when the first chunk that waits is passed on.     *)
LEMMA FirstLeaves ==
  ASSUME StartInv, PassChunk
  PROVE  LET c == Waiting[1]
         IN  /\ Waiting # <<>> /\ c \in Chunk /\ Head(samples) = c /\ c = Head(samples)
             /\ Expected = c.frame
             /\ samples' \in Seq(Chunk)
             /\ WaitingInOrder' /\ Expected' = FrameAfter(c)
<1>1. /\ samples # <<>> /\ samples' = Tail(samples) /\ UNCHANGED <<chain, frames>>
      /\ samples \in Seq(Chunk) /\ chain \in Seq(Chunk)
  BY DEF PassChunk, StartInv, StartTypes
<1> DEFINE w == Waiting
<1>2. Waiting' = Tail(w) /\ w # <<>> /\ Head(samples) = w[1]
  BY <1>1, ConcatTail DEF Waiting
<1>3. /\ w \in Seq(Chunk) /\ Len(frames) \in Nat
      /\ \A i \in 1..(Len(w) - 1) : w[i + 1].frame = FrameAfter(w[i])
      /\ FrameAfter(w[Len(w)]) = Len(frames) + 1
  BY <1>2, WaitingTyped DEF StartInv, WaitingInOrder
<1> HIDE DEF w
<1>4. /\ Tail(w) \in Seq(Chunk) /\ Len(Tail(w)) = Len(w) - 1 /\ Len(w) > 0 /\ Len(w) \in Nat
      /\ \A i \in 1..Len(w)-1 : Tail(w)[i] = w[i+1]
      /\ w[1] \in Chunk
  BY <1>2, <1>3, TailOf
<1>5. samples' \in Seq(Chunk)
  BY <1>1, TailOf
<1>6. Expected = w[1].frame
  BY <1>2 DEF Expected, w
<1>7. ASSUME NEW i \in 1..(Len(Tail(w)) - 1)
      PROVE  Tail(w)[i + 1].frame = FrameAfter(Tail(w)[i])
  <2>1. i \in 1..(Len(w) - 1) /\ i + 1 \in 1..(Len(w) - 1)
    BY <1>4
  <2> QED  BY <2>1, <1>3, <1>4
<1>8. Tail(w) # <<>> => FrameAfter(Tail(w)[Len(Tail(w))]) = Len(frames) + 1
  <2>1. SUFFICES ASSUME Tail(w) # <<>> PROVE Tail(w)[Len(Tail(w))] = w[Len(w)]
    BY <1>3
  <2>2. Len(w) - 1 > 0
    BY <2>1, <1>4
  <2>3. Len(Tail(w)) \in 1..(Len(w) - 1) /\ Len(Tail(w)) + 1 = Len(w)
    BY <2>2, <1>4
  <2> QED  BY <2>3, <1>4
<1>9. WaitingInOrder'
  <2>1. Len(frames') = Len(frames)
    BY <1>1
  <2> QED  BY <2>1, <1>2, <1>7, <1>8, Zenon DEF WaitingInOrder, FrameAfter
<1>10. Expected' = FrameAfter(w[1])
  <2>1. CASE Tail(w) = <<>>
    <3>1. Len(w) = 1
      <4>1. Len(Tail(w)) = 0
        BY <2>1
      <4> QED  BY <4>1, <1>4
    <3>2. Expected' = Len(frames) + 1
      BY <2>1, <1>1, <1>2 DEF Expected
    <3> QED  BY <3>1, <3>2, <1>3
  <2>2. CASE Tail(w) # <<>>
    <3>1. Len(w) - 1 > 0
      BY <2>2, <1>4
    <3>2. 1 \in 1..(Len(w) - 1) /\ 1 + 1 = 2
      BY <3>1, <1>4
    <3>3. Tail(w)[1] = w[2] /\ w[2].frame = FrameAfter(w[1])
      BY <3>2, <1>3, <1>4
    <3>4. Expected' = Tail(w)[1].frame
      BY <2>2, <1>2 DEF Expected
    <3> QED  BY <3>3, <3>4
  <2> QED  BY <2>1, <2>2
<1> QED  BY <1>2, <1>4, <1>5, <1>6, <1>9, <1>10 DEF w

LEMMA PassChunkKeeps ==
  ASSUME StartInv, PassChunk
  PROVE  StartInv'
<1> DEFINE c == Waiting[1]
           n == Len(air)
<1>1. /\ Waiting # <<>> /\ c \in Chunk /\ Head(samples) = c /\ Expected = c.frame
      /\ samples' \in Seq(Chunk) /\ WaitingInOrder' /\ Expected' = FrameAfter(c)
  BY FirstLeaves
<1> HIDE DEF c
<1>2. /\ transmittingFrame
      /\ air' = Append(air, c) /\ transmittingFrame' = ~c.last
      /\ UNCHANGED <<chain, startMsgs, absorbed, currentState, frames, frame>>
  BY <1>1 DEF PassChunk, tcVars
<1>3. /\ air \in Seq(OnTheAir) /\ n \in Nat /\ c \in OnTheAir /\ c # Silence
      /\ startMsgs \in Nat /\ absorbed \in Nat
  BY <1>1, ChunkFields DEF StartInv, StartTypes, OnTheAir, Silence
<1>4. /\ air' \in Seq(OnTheAir) /\ Len(air') = n + 1
      /\ \A i \in 1..n : air'[i] = air[i]
      /\ air'[n + 1] = c
  BY <1>2, <1>3, AppendAt
<1>5. StartTypes'
  <2>1. transmittingFrame' \in BOOLEAN
    BY <1>1, <1>2, ChunkFields
  <2> QED  BY <1>1, <1>2, <1>4, <2>1 DEF StartInv, StartTypes
<1>6. AirContinues'
  <2>1. ASSUME NEW i \in 1..Len(air'), \A m \in (i + 1)..Len(air') : air'[m] = Silence
        PROVE  i = Len(air') /\ air'[i] = c
    <3>1. i \in 1..(n + 1)
      BY <1>4
    <3>2. CASE i = n + 1
      BY <3>2, <1>4
    <3>3. CASE i # n + 1
      <4>1. n + 1 \in (i + 1)..Len(air')
        BY <3>1, <3>3, <1>3, <1>4
      <4> QED  BY <4>1, <2>1, <1>3, <1>4
    <3> QED  BY <3>2, <3>3
  <2>2. ~c.last => transmittingFrame'
    BY <1>2
  <2> QED  BY <2>1, <2>2, <1>1, Zenon DEF AirContinues, FrameAfter
<1>7. AirInOrder'
  <2> SUFFICES ASSUME NEW i \in 1..(n + 1), NEW j \in 1..(n + 1),
                      i < j, air'[i] # Silence,
                      \A m \in (i + 1)..(j - 1) : air'[m] = Silence
               PROVE  IF air'[j] = Silence THEN air'[i].last ELSE air'[j].frame = FrameAfter(air'[i])
    <3>1. DOMAIN air' = 1..(n + 1)
      BY <1>3, <1>4
    <3> QED  BY <3>1 DEF AirInOrder, FrameAfter
  <2>1. i \in 1..n /\ air'[i] = air[i]
    BY <1>3, <1>4
  <2>2. CASE j = n + 1
    <3>1. \A m \in (i + 1)..n : air[m] = Silence
      BY <2>1, <2>2, <1>3, <1>4
    <3>2. FrameAfter(air[i]) = Expected
      BY <2>1, <3>1 DEF StartInv, AirContinues
    <3> QED  BY <2>1, <2>2, <3>2, <1>1, <1>3, <1>4
  <2>3. CASE j # n + 1
    <3>1. j \in 1..n /\ air'[j] = air[j]
      BY <2>3, <1>3, <1>4
    <3>2. \A m \in (i + 1)..(j - 1) : air[m] = Silence
      BY <2>1, <3>1, <1>3, <1>4
    <3>3. DOMAIN air = 1..n /\ AirInOrder
      BY <1>3 DEF StartInv
    <3> QED  BY <2>1, <3>1, <3>2, <3>3 DEF AirInOrder
  <2> QED  BY <2>2, <2>3
<1>8. Ended' = Ended + (IF c.last THEN 1 ELSE 0) /\ Ended \in Nat
  BY <1>2, <1>3, EndedAfter
<1>9. Started' = Started
  BY <1>2 DEF Started
<1>10. Counted'
  <2>1. Ended + absorbed + startMsgs + 1 = Started
    BY <1>2 DEF StartInv, Counted
  <2>2. Ended' + absorbed + startMsgs + (IF transmittingFrame' THEN 1 ELSE 0) = Started'
    <3>1. CASE c.last
      <4>1. (IF transmittingFrame' THEN 1 ELSE 0) = 0
        BY <1>2, <3>1, Zenon
      <4>2. Ended' = Ended + 1
        BY <3>1, <1>8
      <4> QED  BY <4>1, <4>2, <2>1, <1>3, <1>8, <1>9
    <3>2. CASE ~c.last
      <4>1. (IF transmittingFrame' THEN 1 ELSE 0) = 1
        BY <1>2, <3>2, Zenon
      <4>2. Ended' = Ended
        BY <3>2, <1>8
      <4> QED  BY <4>1, <4>2, <2>1, <1>3, <1>8, <1>9
    <3> QED  BY <3>1, <3>2
  <2> QED  BY <2>2, <1>2 DEF Counted
<1>11. Ended' \in Nat
  BY <1>8
<1> QED  BY <1>1, <1>5, <1>6, <1>7, <1>10, <1>11 DEF StartInv

LEMMA PassSilenceKeeps ==
  ASSUME StartInv, PassSilence
  PROVE  StartInv'
<1> DEFINE n == Len(air)
<1>1. /\ ~transmittingFrame /\ air' = Append(air, Silence)
      /\ UNCHANGED <<chain, samples, startMsgs, transmittingFrame, absorbed, currentState,
                     frames, frame>>
  BY DEF PassSilence, tcVars
<1>2. /\ air \in Seq(OnTheAir) /\ n \in Nat /\ Silence \in OnTheAir
      /\ startMsgs \in Nat /\ absorbed \in Nat
  BY DEF StartInv, StartTypes, OnTheAir
<1>3. /\ air' \in Seq(OnTheAir) /\ Len(air') = n + 1
      /\ \A i \in 1..n : air'[i] = air[i]
      /\ air'[n + 1] = Silence
  BY <1>1, <1>2, AppendAt
<1>4. StartTypes'
  BY <1>1, <1>3 DEF StartInv, StartTypes
<1>5. WaitingInOrder' /\ Expected' = Expected
  BY <1>1, Zenon DEF StartInv, WaitingInOrder, Expected, Waiting, FrameAfter
<1>6. ASSUME NEW i \in 1..n, air[i] # Silence, \A m \in (i + 1)..n : air[m] = Silence
      PROVE  FrameAfter(air[i]) = Expected /\ air[i].last
  BY <1>1, <1>6 DEF StartInv, AirContinues
<1>7. AirContinues'
  <2> SUFFICES ASSUME NEW i \in 1..(n + 1), air'[i] # Silence,
                      \A m \in (i + 1)..(n + 1) : air'[m] = Silence
               PROVE  FrameAfter(air'[i]) = Expected /\ air'[i].last
    BY <1>3, <1>5 DEF AirContinues, FrameAfter
  <2>1. i \in 1..n /\ air'[i] = air[i]
    BY <1>2, <1>3
  <2>2. \A m \in (i + 1)..n : air[m] = Silence
    BY <2>1, <1>2, <1>3
  <2> QED  BY <2>1, <2>2, <1>6
<1>8. AirInOrder'
  <2> SUFFICES ASSUME NEW i \in 1..(n + 1), NEW j \in 1..(n + 1),
                      i < j, air'[i] # Silence,
                      \A m \in (i + 1)..(j - 1) : air'[m] = Silence
               PROVE  IF air'[j] = Silence THEN air'[i].last ELSE air'[j].frame = FrameAfter(air'[i])
    <3>1. DOMAIN air' = 1..(n + 1)
      BY <1>2, <1>3
    <3> QED  BY <3>1 DEF AirInOrder, FrameAfter
  <2>1. i \in 1..n /\ air'[i] = air[i]
    BY <1>2, <1>3
  <2>2. CASE j = n + 1
    <3>1. \A m \in (i + 1)..n : air[m] = Silence
      BY <2>1, <2>2, <1>2, <1>3
    <3>2. air[i].last
      BY <2>1, <3>1, <1>6
    <3> QED  BY <2>1, <2>2, <3>2, <1>3
  <2>3. CASE j # n + 1
    <3>1. j \in 1..n /\ air'[j] = air[j]
      BY <2>3, <1>2, <1>3
    <3>2. \A m \in (i + 1)..(j - 1) : air[m] = Silence
      BY <2>1, <3>1, <1>2, <1>3
    <3>3. DOMAIN air = 1..n /\ AirInOrder
      BY <1>2 DEF StartInv
    <3> QED  BY <2>1, <3>1, <3>2, <3>3 DEF AirInOrder
  <2> QED  BY <2>2, <2>3
<1>9. Ended' = Ended
  <2>1. Silence.last = FALSE
    BY Zenon DEF Silence
  <2>2. Ended' = Ended + (IF Silence.last THEN 1 ELSE 0) /\ Ended \in Nat
    BY <1>1, <1>2, EndedAfter
  <2> QED  BY <2>1, <2>2
<1>10. Started' = Started
  BY <1>1 DEF Started
<1>11. Counted'
  BY <1>1, <1>9, <1>10 DEF StartInv, Counted
<1> QED  BY <1>4, <1>5, <1>7, <1>8, <1>9, <1>11 DEF StartInv

LEMMA StartStep == PathTypes /\ StartInv /\ [Next]_vars => StartInv'
<1> SUFFICES ASSUME PathTypes, StartInv, [Next]_vars PROVE StartInv'
  OBVIOUS
<1>1. ASSUME \/ SendPDU \/ UNCHANGED vars
             \/ \E n \in 1..Len(crcIn) : CRC16Work(n)
             \/ \E n \in 1..Len(rndIn) : RandomizeWork(n)
             \/ HandleCrc
      PROVE  StartInv'
  <2>1. UNCHANGED <<chain, samples, air, startMsgs, absorbed, transmittingFrame,
                    currentState, frames, frame>>
    BY <1>1 DEF SendPDU, vars, CRC16Work, RandomizeWork, HandleCrc, TC!SetCrc, tcVars, silenceVars
  <2> QED  BY <2>1, StartsUntouched
<1>2. CASE SendHeader
  <2>1. PICK d \in BOOLEAN :
          /\ chain' = Append(chain, [frame |-> Len(frames) + 1, last |-> d])
          /\ IsSequence(frames') /\ Len(frames') = Len(frames) + (IF d THEN 1 ELSE 0)
          /\ IsFrame(frame')
          /\ currentState = "sendingHeader"
          /\ currentState' = IF d THEN "sendingHeader" ELSE "sendingPayload"
          /\ startMsgs' = startMsgs + 1
          /\ UNCHANGED <<samples, air, transmittingFrame, absorbed>>
    BY <1>2, HeaderStart
  <2>2. chain' \in Seq(Chunk) /\ WaitingInOrder' /\ AirContinues' /\ AirInOrder' /\ Ended' = Ended
    BY <2>1, ChunkWritten
  <2>3. startMsgs' \in Nat
    BY <2>1 DEF StartInv, StartTypes
  <2>4. StartTypes'
    <3>1. currentState' \in {"sendingHeader", "sendingPayload"}
      BY <2>1
    <3> QED  BY <2>1, <2>2, <2>3, <3>1 DEF StartInv, StartTypes
  <2>5. Started' = Started + 1
    <3>1. Len(frames) \in Nat
      BY WaitingTyped DEF StartInv
    <3>2. CASE d
      BY <2>1, <3>1, <3>2 DEF Started
    <3>3. CASE ~d
      BY <2>1, <3>1, <3>3 DEF Started
    <3> QED  BY <3>2, <3>3
  <2>6. Counted'
    BY <2>1, <2>2, <2>5 DEF StartInv, StartTypes, Counted
  <2> QED  BY <2>2, <2>4, <2>6 DEF StartInv
<1>3. CASE SendPayload
  <2>1. /\ chain' = Append(chain, [frame |-> Len(frames) + 1, last |-> TRUE])
        /\ IsSequence(frames') /\ Len(frames') = Len(frames) + 1
        /\ IsFrame(frame')
        /\ currentState = "sendingPayload" /\ currentState' = "sendingHeader"
        /\ UNCHANGED <<startMsgs, samples, air, transmittingFrame, absorbed>>
    BY <1>3, PayloadStart
  <2>2. chain' \in Seq(Chunk) /\ WaitingInOrder' /\ AirContinues' /\ AirInOrder' /\ Ended' = Ended
    <3>1. TRUE \in BOOLEAN /\ Len(frames') = Len(frames) + (IF TRUE THEN 1 ELSE 0)
      BY <2>1
    <3> QED  BY <2>1, <3>1, ChunkWritten
  <2>3. StartTypes'
    <3>1. currentState' \in {"sendingHeader", "sendingPayload"}
      BY <2>1
    <3> QED  BY <2>1, <2>2, <3>1 DEF StartInv, StartTypes
  <2>4. Started' = Started
    BY <2>1, WaitingTyped DEF Started, StartInv
  <2>5. Counted'
    BY <2>1, <2>2, <2>4 DEF StartInv, Counted
  <2> QED  BY <2>2, <2>3, <2>5 DEF StartInv
<1> QED  BY <1>1, <1>2, <1>3, ModulateKeeps, HandleStartKeeps, PassChunkKeeps, PassSilenceKeeps
            DEF Next, CRC16, Randomize, Controller, AppendSilence

(* Whatever the source sends and whenever the blocks run: frames are in    *)
(* order on the air, never interrupted by silence, and every header        *)
(* written is a frame that ended there, one being transmitted, a start     *)
(* message still waiting or a start that AppendSilence took while another  *)
(* frame was being transmitted and lost (AppendSilence_impl.cc:50).        *)
THEOREM StartsCounted == Spec => []StartsAccounted
<1>1. Init => PathTypes /\ StartInv
  BY PathTypesInit, StartInit
<1>2. PathTypes /\ StartInv /\ [Next]_vars => PathTypes' /\ StartInv'
  BY PathTypesStep, StartStep
<1>3. StartInv => StartsAccounted
  BY DEF StartInv, StartsAccounted, Counted
<1> QED  BY <1>1, <1>2, <1>3, PTL DEF Spec
-----------------------------------------------------------------------------
(* The controller in the path.                                             *)

(* What is proved about the controller alone, in the path's terms.         *)
TCP == INSTANCE TransmitterControllerProofs
         WITH Params <- {P}, Sizes <- Lengths, MessageSizes <- {},
              Crcs <- Seq(Frames \X Nat), Occupancies <- Nat, nibblesIn <- Len(nibbles)

(* Every payload fills the header block's room.                            *)
Filled == \A n \in Lengths : 2 * n >= HeaderRoom(P)

ControllerInv == TCP!TypeOK /\ TCP!RoomFilled /\ TCP!NoFault

(* The assumptions of the controller's module hold for the one in the path.*)
LEMMA ControllerAssumptions ==
  /\ {P} \subseteq TCP!Parameters /\ Lengths \subseteq Nat /\ {} \subseteq Nat
  /\ Nat \subseteq Nat
<1>1. P \in TCP!Parameters
  BY SizesTyped DEF Parameters, TCP!Parameters
<1> QED  BY <1>1, SizesTyped

LEMMA ControllerInit == Init => TCP!Init
<1> SUFFICES ASSUME Init PROVE TCP!Init
  OBVIOUS
<1>1. params \in {P} /\ payloadSize \in Lengths
  BY SizesTyped DEF Init
<1>2. crc \in Seq(Frames \X Nat) /\ Len(nibbles) = 0
  BY DEF Init
<1>3. /\ nNibbles = TCP!NNibbles(params, payloadSize)
      /\ nNibblesTotal = TCP!NNibblesTotal(params, payloadSize)
  BY DEF Init, NNibbles, NNibblesTotal, NExtraNibbles, HeaderRoom, PayloadRows, CRCSize,
         TCP!NNibbles, TCP!NNibblesTotal, TCP!NExtraNibbles, TCP!HeaderRoom, TCP!PayloadRows,
         TCP!CRCSize
<1>4. headerNibbles = TCP!HeaderOf(params, payloadSize)
  BY DEF Init, TC!HeaderOf, TCP!HeaderOf
<1> QED  BY <1>1, <1>2, <1>3, <1>4 DEF Init, TCP!Init

LEMMA SafeSizes ==
  ASSUME Filled
  PROVE  TCP!SafeSizes
<1>1. ASSUME NEW s \in Lengths
      PROVE  TCP!FillsHeader(P, s) /\ TCP!ValidSize(s) = s
  <2>1. s <= 255 /\ s \in Nat
    BY SizesTyped
  <2>2. TCP!ValidSize(s) = s
    BY <2>1 DEF TCP!ValidSize
  <2> QED  BY <2>2 DEF Filled, TCP!FillsHeader, HeaderRoom, TCP!HeaderRoom
<1> QED  BY <1>1 DEF TCP!SafeSizes

(* A call of randomize on n bytes brings 2n nibbles.                       *)
LEMMA OutputLength ==
  ASSUME NEW size \in Lengths, NEW start \in RndState, NEW n \in Nat,
         \A i \in 1..n : rndIn[i] \in Byte, start.out = <<>>
  PROVE  Len(RandomizeStates(size, start, n)[n].out) = 2 * n
<1> DEFINE state == RandomizeStates(size, start, n)
           T == {m \in 0..n : Len(state[m].out) = 2 * m}
<1>1. /\ state \in [0..n -> RndState] /\ state[0] = start
      /\ \A i \in 1..n : state[i] = RandomizeByte(size, state[i - 1], rndIn[i])
  BY RandomizeStatesUnfold
<1> HIDE DEF state
<1>2. 0 \in T
  BY <1>1
<1>3. ASSUME NEW m \in 0..n, m \in T, m < n
      PROVE  m + 1 \in T
  <2>1. m + 1 \in 1..n /\ m + 1 \in 0..n /\ (m + 1) - 1 = m
    <3> HIDE DEF T
    <3> QED  BY <1>3
  <2>2. PICK r \in RndState : r = state[m]
    BY <1>1
  <2>3. PICK b \in Byte : b = rndIn[m + 1]
    BY <2>1
  <2>4. state[m + 1] = RandomizeByte(size, r, b)
    BY <1>1, <2>1, <2>2, <2>3
  <2> DEFINE w == <<b[1], b[2], r.lfsr>>
  <2>5. state[m + 1].out = r.out \o <<w, w>>
    BY <2>4, RandomizeByteTyped
  <2>6. r.out \in Seq(Nibble) /\ w \in Nibble
    BY DEF RndState, Byte, Nibble
  <2> HIDE DEF w
  <2>7. <<w, w>> \in Seq(Nibble) /\ Len(<<w, w>>) = 2
    BY <2>6
  <2>8. Len(r.out \o <<w, w>>) = Len(r.out) + 2
    BY <2>6, <2>7, ConcatAt
  <2>9. Len(r.out) = 2 * m
    BY <1>3, <2>2
  <2> QED  BY <2>1, <2>5, <2>8, <2>9
<1>4. 0..n \subseteq T
  <2> HIDE DEF T
  <2> QED  BY <1>2, <1>3, InductTo
<1>5. n \in T
  BY <1>4
<1> QED  BY <1>5 DEF state

LEMMA NibblesArrive ==
  ASSUME PathTypes, ControllerInv, NEW n \in 1..Len(rndIn), RandomizeWork(n)
  PROVE  [TCP!Next]_(TCP!vars)
<1> DEFINE size  == TaggedSize(Head(rndIn), rndSize)
           start == [count |-> rndCount, lfsr |-> lfsr, out |-> <<>>]
<1>1. /\ n \in Nat /\ Len(rndIn) \in Nat /\ size \in Lengths /\ start \in RndState
      /\ \A i \in 1..Len(rndIn) : rndIn[i] \in Byte
      /\ RandomizeStates(size, start, n)[n] \in RndState
  BY RandomizeTyped
<1>2. start.out = <<>>
  OBVIOUS
<1>3. nibbles' = nibbles \o RandomizeStates(size, start, n)[n].out /\ UNCHANGED tcVars
  BY DEF RandomizeWork
<1> HIDE DEF size, start
<1>4. PICK done \in RndState : done = RandomizeStates(size, start, n)[n]
  BY <1>1
<1>5. Len(done.out) = 2 * n
  <2>1. \A i \in 1..n : rndIn[i] \in Byte
    BY <1>1
  <2> QED  BY <1>1, <1>2, <1>4, <2>1, OutputLength
<1>6. nibbles \in Seq(Nibble) /\ done.out \in Seq(Nibble)
  BY DEF PathTypes, RndState
<1>7. Len(nibbles') = Len(nibbles) + 2 * n /\ Len(nibbles) \in Nat
  <2>1. Len(nibbles \o done.out) = Len(nibbles) + Len(done.out) /\ Len(nibbles) \in Nat
    BY <1>6, ConcatAt
  <2> QED  BY <2>1, <1>3, <1>4, <1>5
<1>8. (Len(nibbles') - Len(nibbles)) % 2 = 0
  <2>1. Len(nibbles') - Len(nibbles) = n * 2
    BY <1>1, <1>7
  <2>2. PICK c \in Nat : c = 2
    OBVIOUS
  <2>3. (n * c) % c = 0
    BY <1>1, <2>2, DivCancels
  <2> QED  BY <2>1, <2>2, <2>3
<1>9. Len(nibbles') \in Nat /\ Len(nibbles) < Len(nibbles')
  BY <1>1, <1>7
<1>10. TCP!Arrive(Len(nibbles'))
  BY <1>3, <1>8, <1>9 DEF TCP!Arrive, ControllerInv, TCP!NoFault, tcVars, TCP!tcVars
<1> QED  BY <1>9, <1>10, Zenon DEF TCP!Next

LEMMA ControllerStep ==
  PathTypes /\ ControllerInv /\ [Next]_vars => [TCP!Next]_(TCP!vars)
<1> SUFFICES ASSUME PathTypes, ControllerInv, [Next]_vars PROVE [TCP!Next]_(TCP!vars)
  OBVIOUS
<1> USE DEF tcVars, TCP!vars, TCP!tcVars
<1>1. ASSUME \/ SendPDU \/ Modulate \/ AppendSilence \/ UNCHANGED vars
             \/ \E n \in 1..Len(crcIn) : CRC16Work(n)
      PROVE  UNCHANGED TCP!vars
  BY <1>1 DEF SendPDU, Modulate, AppendSilence, HandleStart, PassChunk, PassSilence, vars,
              CRC16Work
<1>2. CASE HandleCrc
  <2>1. Head(crcMsgs) \in Seq(Byte)
    BY <1>2, TailOf DEF HandleCrc, PathTypes
  <2>2. PICK c \in Seq(Frames \X Nat) : c = Head(crcMsgs)
    BY <2>1 DEF Byte
  <2>3. TCP!SetCrc(c)
    BY <1>2, <2>2 DEF HandleCrc, TC!SetCrc, TCP!SetCrc
  <2> QED  BY <2>3, Zenon DEF TCP!Next
<1>3. CASE SendHeader
  <2>1. TC!SendHeader(SizeTag, <<>>)
    BY <1>3 DEF SendHeader
  <2>2. TCP!SendHeader(SizeTag, <<>>)
    BY <2>1 DEF TC!SendHeader, TCP!SendHeader, TC!CalculateConstants, TCP!CalculateConstants,
                TC!Consume, TCP!Consume, TC!ValidSize, TCP!ValidSize, TC!HeaderOf, TCP!HeaderOf,
                TC!NNibbles, TCP!NNibbles, TC!NNibblesTotal, TCP!NNibblesTotal, TC!NExtraNibbles,
                TCP!NExtraNibbles, TC!HeaderRoom, TCP!HeaderRoom, TC!PayloadRows,
                TCP!PayloadRows, TC!CRCSize, TCP!CRCSize, TC!HeaderForecast, TCP!HeaderForecast
  <2>3. SizeTag \in TCP!Optional(Lengths) /\ <<>> \in TCP!Optional({P})
    BY SizeTagTyped, Zenon DEF TCP!Optional
  <2> QED  BY <2>2, <2>3, Zenon DEF TCP!Next
<1>4. CASE SendPayload
  <2>1. TC!SendPayload
    BY <1>4 DEF SendPayload
  <2>2. TCP!SendPayload
    BY <2>1 DEF TC!SendPayload, TCP!SendPayload, TC!PayloadWraps, TCP!PayloadWraps,
                TC!HeaderRoom, TCP!HeaderRoom
  <2> QED  BY <2>2, Zenon DEF TCP!Next
<1> QED  BY <1>1, <1>2, <1>3, <1>4, NibblesArrive
            DEF Next, CRC16, Randomize, Controller

PathInv == PathTypes /\ ControllerInv

LEMMA PathInvInit == Filled /\ Init => PathInv
<1> SUFFICES ASSUME Filled, Init PROVE PathInv
  OBVIOUS
<1>1. PathTypes /\ TCP!Init
  BY PathTypesInit, ControllerInit
<1>2. TCP!TypeOK
  BY <1>1, TCP!TypeInit, ControllerAssumptions
<1>3. TCP!RoomFilled
  <2>1. payloadSize \in Lengths
    BY <1>1 DEF PathTypes
  <2>2. TCP!FillsHeader(P, payloadSize)
    BY <2>1 DEF Filled, TCP!FillsHeader, HeaderRoom, TCP!HeaderRoom
  <2> QED  BY <2>2 DEF TCP!RoomFilled
<1>4. TCP!NoFault
  BY DEF Init, TCP!NoFault
<1> QED  BY <1>1, <1>2, <1>3, <1>4 DEF PathInv, ControllerInv

LEMMA PathInvStep == Filled /\ PathInv /\ [Next]_vars => PathInv'
<1> SUFFICES ASSUME Filled, PathInv, [Next]_vars PROVE PathInv'
  OBVIOUS
<1>1. PathTypes' /\ [TCP!Next]_(TCP!vars)
  BY PathTypesStep, ControllerStep DEF PathInv
<1>2. TCP!TypeOK'
  BY <1>1, TCP!TypeStep, ControllerAssumptions DEF PathInv, ControllerInv
<1>3. TCP!SafeSizes
  BY SafeSizes
<1>4. TCP!RoomFilled' /\ TCP!NoFault'
  BY <1>1, <1>2, <1>3, TCP!SafeStep, ControllerAssumptions DEF PathInv, ControllerInv
<1> QED  BY <1>1, <1>2, <1>4 DEF PathInv, ControllerInv

LEMMA PathCorrect == ASSUME Filled PROVE Spec => []PathInv
<1>1. Init => PathInv
  BY PathInvInit
<1>2. PathInv /\ [Next]_vars => PathInv'
  BY PathInvStep
<1> QED  BY <1>1, <1>2, PTL DEF Spec

(* When every payload fills the header block, whatever the source sends:   *)
(* the controller in the path is the one of TransmitterController -- each  *)
(* step of the path is one of its steps or leaves it alone, randomize's    *)
(* output being its environment's step -- and its calls never read nibbles *)
(* that are not there (TransmitterController_impl.cc:92-109).              *)
THEOREM PathRefinesController == ASSUME Filled PROVE Spec => TC!Spec
<1>1. Init => TC!Init
  <2> SUFFICES ASSUME Init PROVE TC!Init
    OBVIOUS
  <2>1. TCP!Init
    BY ControllerInit
  <2> QED  BY <2>1 DEF TC!Init, TCP!Init, TC!HeaderOf, TCP!HeaderOf, TC!NNibbles, TCP!NNibbles,
                       TC!NNibblesTotal, TCP!NNibblesTotal, TC!NExtraNibbles,
                       TCP!NExtraNibbles, TC!HeaderRoom, TCP!HeaderRoom, TC!PayloadRows,
                       TCP!PayloadRows, TC!CRCSize, TCP!CRCSize
<1>2. PathInv /\ [Next]_vars => [TC!Next]_(TC!vars)
  <2> SUFFICES ASSUME PathInv, [Next]_vars PROVE [TC!Next]_(TC!vars)
    OBVIOUS
  <2>1. [TCP!Next]_(TCP!vars)
    BY ControllerStep DEF PathInv
  <2>2. ASSUME NEW c \in Seq(Frames \X Nat), TCP!SetCrc(c) PROVE TC!SetCrc(c)
    BY <2>2 DEF TC!SetCrc, TCP!SetCrc
  <2>3. ASSUME NEW s \in TCP!Optional(Lengths), NEW p \in TCP!Optional({P}), TCP!SendHeader(s, p)
        PROVE  TC!SendHeader(s, p)
    BY <2>3 DEF TC!SendHeader, TCP!SendHeader, TC!CalculateConstants, TCP!CalculateConstants,
                TC!Consume, TCP!Consume, TC!ValidSize, TCP!ValidSize, TC!HeaderOf, TCP!HeaderOf,
                TC!NNibbles, TCP!NNibbles, TC!NNibblesTotal, TCP!NNibblesTotal, TC!NExtraNibbles,
                TCP!NExtraNibbles, TC!HeaderRoom, TCP!HeaderRoom, TC!PayloadRows,
                TCP!PayloadRows, TC!CRCSize, TCP!CRCSize, TC!HeaderForecast, TCP!HeaderForecast
  <2>4. ASSUME TCP!SendPayload PROVE TC!SendPayload
    BY <2>4 DEF TC!SendPayload, TCP!SendPayload, TC!PayloadWraps, TCP!PayloadWraps,
                TC!HeaderRoom, TCP!HeaderRoom
  <2>5. ASSUME TCP!SendPayloadWrapped PROVE TC!SendPayloadWrapped
    BY <2>5 DEF TC!SendPayloadWrapped, TCP!SendPayloadWrapped, TC!PayloadWraps,
                TCP!PayloadWraps, TC!HeaderRoom, TCP!HeaderRoom
  <2>6. ASSUME NEW n \in Nat, TCP!Arrive(n) PROVE TC!Arrive(n)
    BY <2>6 DEF TC!Arrive, TCP!Arrive, TC!tcVars, TCP!tcVars
  <2>7. TCP!Optional(Lengths) = TC!Optional(Lengths) /\ TCP!Optional({P}) = TC!Optional({P})
    BY DEF TC!Optional, TCP!Optional
  <2>8. \A n \in {} : FALSE
    OBVIOUS
  <2>9. ASSUME UNCHANGED TCP!vars PROVE UNCHANGED TC!vars
    BY <2>9 DEF TC!vars, TCP!vars, TC!tcVars, TCP!tcVars
  <2> QED  BY <2>1, <2>2, <2>3, <2>4, <2>5, <2>6, <2>7, <2>8, <2>9, Zenon DEF TC!Next, TCP!Next
<1> QED  BY <1>1, <1>2, PathCorrect, PTL DEF Spec, TC!Spec
-----------------------------------------------------------------------------
(* Places in the byte stream: byte i of frame f is item Starts[f - 1] + i. *)

Starts[f \in 0..NFrames] == IF f = 0 THEN 0 ELSE Starts[f - 1] + len[f]

At(f, i, k) == f \in Frames /\ i \in 1..len[f] /\ k = Starts[f - 1] + i

(* After c bytes, n of them are of frame f, which is not at its end.       *)
Within(c, f, n) ==
  /\ f \in 1..(NFrames + 1) /\ n \in Nat /\ c = Starts[f - 1] + n
  /\ IF f \in Frames THEN n < len[f] ELSE n = 0

LEMMA LengthsTyped ==
  ASSUME len \in [Frames -> Lengths], NEW f \in Frames
  PROVE  len[f] \in Nat /\ len[f] > 0 /\ len[f] \in Lengths
<1>1. len[f] \in Lengths
  OBVIOUS
<1> QED  BY <1>1, SizesTyped

(* Starts, unfolded ...                                                    *)
LEMMA StartsUnfold ==
  ASSUME len \in [Frames -> Lengths]
  PROVE  /\ Starts \in [0..NFrames -> Nat]
         /\ Starts[0] = 0
         /\ \A f \in 1..NFrames : Starts[f] = Starts[f - 1] + len[f]
<1> DEFINE n == NFrames
           step == [f \in 1..n |-> [e \in Nat |-> e + len[f]]]
           Unfolds(g) == g = [f \in 0..n |-> IF f = 0 THEN 0 ELSE g[f - 1] + len[f]]
<1>1. n \in Nat /\ \A f \in 1..n : len[f] \in Nat
  BY SizesTyped, LengthsTyped DEF Frames
<1>2. step \in [1..n -> [Nat -> Nat]]
  BY <1>1
<1>3. PICK g \in [0..n -> Nat] : SolvesRecursion(g, n, 0, step)
  <2> HIDE DEF n, step
  <2>1. 0 \in Nat
    OBVIOUS
  <2> QED  BY <1>1, <1>2, <2>1, RecursionExists
<1>4. Unfolds(g)
  <2>1. ASSUME NEW f \in 0..n, f # 0
        PROVE  step[f][g[f - 1]] = g[f - 1] + len[f]
    <3>1. f \in 1..n /\ g[f - 1] \in Nat
      BY <2>1, <1>1
    <3> QED  BY <3>1
  <2> HIDE DEF n, step
  <2> QED  BY <1>3, <2>1 DEF SolvesRecursion
<1>5. Unfolds(Starts)
  <2>1. Starts = CHOOSE e : Unfolds(e)
    BY DEF Starts
  <2> HIDE DEF Unfolds
  <2> QED  BY <1>4, <2>1
<1> DEFINE T == {f \in 0..n : Starts[f] \in Nat}
<1>6. \A f \in 0..n : Starts[f] = IF f = 0 THEN 0 ELSE Starts[f - 1] + len[f]
  BY <1>5
<1>7. 0..n \subseteq T
  <2>1. 0 \in T
    BY <1>1, <1>6
  <2>2. ASSUME NEW f \in 0..n, f \in T, f < n
        PROVE  f + 1 \in T
    <3>1. f + 1 \in 1..n /\ f + 1 \in 0..n /\ (f + 1) - 1 = f /\ f + 1 # 0
      BY <2>2, <1>1
    <3>2. Starts[f + 1] = Starts[f] + len[f + 1]
      BY <3>1, <1>6
    <3> QED  BY <3>1, <3>2, <2>2, <1>1
  <2> HIDE DEF T, n
  <2> QED  BY <1>1, <2>1, <2>2, InductTo
<1>8. Starts \in [0..n -> Nat]
  <2>1. Starts = [f \in 0..n |-> Starts[f]]
    BY <1>5
  <2>2. \A f \in 0..n : Starts[f] \in Nat
    BY <1>7
  <2> QED  BY <2>1, <2>2
<1>9. Starts[0] = 0
  BY <1>1, <1>6
<1>10. ASSUME NEW f \in 1..NFrames
       PROVE  Starts[f] = Starts[f - 1] + len[f]
  <2>1. f \in 0..n /\ f # 0
    BY <1>1
  <2> QED  BY <2>1, <1>6
<1> QED  BY <1>8, <1>9, <1>10

(* ... always rises.                                                       *)
LEMMA StartsRise ==
  ASSUME len \in [Frames -> Lengths],
         NEW f \in 0..NFrames, NEW g \in 0..NFrames, f < g
  PROVE  Starts[f] < Starts[g]
<1> DEFINE n == NFrames
           T == {h \in 0..n : \A e \in 0..h : e < h => Starts[e] < Starts[h]}
<1>1. n \in Nat /\ \A h \in 1..n : len[h] \in Nat /\ len[h] > 0
  BY SizesTyped, LengthsTyped DEF Frames
<1>2. /\ \A h \in 0..n : Starts[h] \in Nat
      /\ \A h \in 1..n : Starts[h] = Starts[h - 1] + len[h]
  BY StartsUnfold
<1> HIDE DEF n
<1>3. 0 \in T
  BY <1>1, <1>2
<1>4. ASSUME NEW h \in 0..n, h \in T, h < n
      PROVE  h + 1 \in T
  <2>1. h + 1 \in 1..n /\ h + 1 \in 0..n /\ (h + 1) - 1 = h
    BY <1>4, <1>1
  <2>2. Starts[h + 1] = Starts[h] + len[h + 1]
    BY <2>1, <1>2
  <2>3. Starts[h] < Starts[h + 1]
    BY <2>1, <2>2, <1>1, <1>2
  <2>4. ASSUME NEW e \in 0..(h + 1), e < h + 1
        PROVE  Starts[e] < Starts[h + 1]
    <3>1. CASE e = h
      BY <3>1, <2>3
    <3>2. CASE e # h
      <4>1. e \in 0..h /\ e < h /\ e \in 0..n
        BY <3>2, <2>4, <1>4, <1>1
      <4>2. Starts[e] < Starts[h]
        BY <4>1, <1>4
      <4>3. Starts[e] \in Nat /\ Starts[h] \in Nat /\ Starts[h + 1] \in Nat
        BY <4>1, <2>1, <1>2
      <4> QED  BY <4>2, <4>3, <2>3
    <3> QED  BY <3>1, <3>2
  <2> QED  BY <2>1, <2>4
<1>5. 0..n \subseteq T
  <2> HIDE DEF T
  <2> QED  BY <1>1, <1>3, <1>4, InductTo
<1>6. f \in 0..n /\ g \in 0..n /\ f \in 0..g
  BY DEF n
<1> QED  BY <1>5, <1>6

LEMMA PlaceTyped ==
  ASSUME len \in [Frames -> Lengths], NEW f, NEW i, NEW k, At(f, i, k)
  PROVE  /\ f \in Frames /\ f \in 0..NFrames /\ f - 1 \in 0..NFrames
         /\ len[f] \in Nat /\ i \in Nat /\ i >= 1 /\ i <= len[f]
         /\ Starts[f - 1] \in Nat /\ Starts[f] \in Nat /\ Starts[f] = Starts[f - 1] + len[f]
         /\ k = Starts[f - 1] + i /\ k \in Nat /\ k > 0
<1>1. f \in Frames /\ i \in 1..len[f] /\ k = Starts[f - 1] + i
  BY DEF At
<1>2. len[f] \in Nat /\ NFrames \in Nat
  BY <1>1, LengthsTyped, SizesTyped
<1>3. f \in 1..NFrames /\ f \in 0..NFrames /\ f - 1 \in 0..NFrames
  BY <1>1, <1>2 DEF Frames
<1>4. Starts[f - 1] \in Nat /\ Starts[f] \in Nat /\ Starts[f] = Starts[f - 1] + len[f]
  BY <1>3, StartsUnfold
<1>5. i \in Nat /\ i >= 1 /\ i <= len[f]
  BY <1>1, <1>2
<1>6. k \in Nat /\ k > 0
  <2>1. PICK a \in Nat, b \in Nat : a = Starts[f - 1] /\ b = i
    BY <1>4, <1>5
  <2> QED  BY <2>1, <1>1, <1>5
<1> QED  BY <1>1, <1>2, <1>3, <1>4, <1>5, <1>6

(* An item has one place.                                                  *)
LEMMA SamePlace ==
  ASSUME len \in [Frames -> Lengths], NEW k,
         NEW f, NEW i, At(f, i, k), NEW g, NEW j, At(g, j, k)
  PROVE  f = g /\ i = j
<1>1. /\ f \in Frames /\ f \in 0..NFrames /\ f - 1 \in 0..NFrames
      /\ i \in Nat /\ i >= 1 /\ k = Starts[f - 1] + i
      /\ len[f] \in Nat /\ i <= len[f] /\ Starts[f] = Starts[f - 1] + len[f]
      /\ Starts[f - 1] \in Nat
  BY PlaceTyped
<1>2. /\ g \in Frames /\ g \in 0..NFrames /\ g - 1 \in 0..NFrames
      /\ j \in Nat /\ j >= 1 /\ k = Starts[g - 1] + j
      /\ len[g] \in Nat /\ j <= len[g] /\ Starts[g] = Starts[g - 1] + len[g]
      /\ Starts[g - 1] \in Nat
  BY PlaceTyped
<1>3. NFrames \in Nat
  BY SizesTyped
<1>4. ASSUME NEW a \in 0..NFrames, NEW b \in 0..NFrames, a <= b
      PROVE  Starts[a] <= Starts[b]
  <2>1. CASE a = b
    <3>1. PICK s \in Nat : s = Starts[b]
      BY StartsUnfold
    <3> QED  BY <2>1, <3>1
  <2>2. CASE a < b
    <3>1. Starts[a] < Starts[b] /\ Starts[a] \in Nat /\ Starts[b] \in Nat
      BY <2>2, StartsRise, StartsUnfold
    <3> QED  BY <3>1
  <2> QED  BY <2>1, <2>2, <1>3, <1>4
<1>5. ~(f < g)
  <2> SUFFICES ASSUME f < g PROVE FALSE
    OBVIOUS
  <2>1. f <= g - 1
    BY <1>1, <1>2, <1>3
  <2>2. Starts[f] <= Starts[g - 1]
    BY <2>1, <1>1, <1>2, <1>4
  <2> QED  BY <2>2, <1>1, <1>2
<1>6. ~(g < f)
  <2> SUFFICES ASSUME g < f PROVE FALSE
    OBVIOUS
  <2>1. g <= f - 1
    BY <1>1, <1>2, <1>3
  <2>2. Starts[g] <= Starts[f - 1]
    BY <2>1, <1>1, <1>2, <1>4
  <2> QED  BY <2>2, <1>1, <1>2
<1>7. f = g
  BY <1>1, <1>2, <1>3, <1>5, <1>6
<1> QED  BY <1>1, <1>2, <1>7

(* The next item after c.                                                  *)
LEMMA NextPlace ==
  ASSUME len \in [Frames -> Lengths],
         NEW c \in Nat, NEW g, NEW n, Within(c, g, n), NEW f, NEW i, At(f, i, c + 1)
  PROVE  /\ g \in Frames /\ f = g /\ i = n + 1 /\ n + 1 <= len[g]
         /\ n + 1 = len[g] => Within(c + 1, g + 1, 0) /\ c + 1 = Starts[g]
         /\ n + 1 # len[g] => Within(c + 1, g, n + 1) /\ c + 1 < Starts[g]
<1>1. NFrames \in Nat /\ g \in 1..(NFrames + 1) /\ n \in Nat /\ c = Starts[g - 1] + n
  BY SizesTyped DEF Within
<1>2. /\ f \in Frames /\ f \in 0..NFrames /\ f - 1 \in 0..NFrames
      /\ i \in Nat /\ i >= 1 /\ c + 1 = Starts[f - 1] + i
      /\ len[f] \in Nat /\ i <= len[f] /\ Starts[f] = Starts[f - 1] + len[f]
      /\ Starts[f - 1] \in Nat /\ Starts[f] \in Nat
  BY PlaceTyped
<1>3. g \in Frames
  <2> SUFFICES ASSUME g \notin Frames PROVE FALSE
    OBVIOUS
  <2>1. n = 0 /\ g - 1 = NFrames
    BY <1>1 DEF Within, Frames
  <2>2. Starts[f] <= Starts[NFrames] /\ Starts[NFrames] \in Nat
    <3>1. NFrames \in 0..NFrames
      BY <1>1
    <3>2. CASE f = NFrames
      BY <3>1, <3>2, <1>2
    <3>3. CASE f # NFrames
      <4>1. f < NFrames
        BY <3>3, <1>1, <1>2
      <4>2. Starts[f] < Starts[NFrames] /\ Starts[NFrames] \in Nat
        BY <4>1, <3>1, <1>2, StartsRise, StartsUnfold
      <4> QED  BY <4>2, <1>2
    <3> QED  BY <3>2, <3>3
  <2> QED  BY <2>1, <2>2, <1>1, <1>2
<1>4. /\ n < len[g] /\ len[g] \in Nat /\ g - 1 \in 0..NFrames /\ g \in 0..NFrames
      /\ Starts[g] = Starts[g - 1] + len[g] /\ Starts[g - 1] \in Nat
  <2>1. n < len[g] /\ g \in 1..NFrames
    BY <1>3 DEF Within, Frames
  <2>2. g - 1 \in 0..NFrames /\ g \in 0..NFrames
    BY <2>1, <1>1
  <2>3. len[g] \in Nat /\ Starts[g] = Starts[g - 1] + len[g] /\ Starts[g - 1] \in Nat
    BY <1>3, <2>1, <2>2, LengthsTyped, StartsUnfold
  <2> QED  BY <2>1, <2>2, <2>3
<1>5. At(g, n + 1, c + 1)
  <2>1. n + 1 \in 1..len[g] /\ c + 1 = Starts[g - 1] + (n + 1)
    BY <1>1, <1>4
  <2> QED  BY <2>1, <1>3 DEF At
<1>6. f = g /\ i = n + 1
  BY <1>5, SamePlace
<1>7. ASSUME n + 1 = len[g]
      PROVE  Within(c + 1, g + 1, 0) /\ c + 1 = Starts[g]
  <2>1. c + 1 = Starts[g]
    BY <1>7, <1>1, <1>4
  <2>2. g + 1 \in 1..(NFrames + 1) /\ (g + 1) - 1 = g /\ c + 1 = Starts[(g + 1) - 1] + 0
    BY <2>1, <1>1, <1>4
  <2>3. g + 1 \in Frames => 0 < len[g + 1]
    BY LengthsTyped
  <2> QED  BY <2>1, <2>2, <2>3 DEF Within
<1>8. ASSUME n + 1 # len[g]
      PROVE  Within(c + 1, g, n + 1) /\ c + 1 < Starts[g]
  <2>1. n + 1 < len[g] /\ n + 1 \in Nat /\ c + 1 = Starts[g - 1] + (n + 1) /\ c + 1 < Starts[g]
    BY <1>8, <1>1, <1>4
  <2> QED  BY <2>1, <1>1, <1>3 DEF Within
<1> QED  BY <1>3, <1>4, <1>6, <1>7, <1>8, <1>1

(* The items of q are in their places behind the first c.                  *)
Placed(q, c) == \A j \in 1..Len(q) : At(q[j][1], q[j][2], c + j)

LEMMA PlacedExtend ==
  ASSUME len \in [Frames -> Lengths], NEW q \in Seq(Byte), NEW c \in Nat, Placed(q, c),
         NEW f \in Frames, c + Len(q) = Starts[f - 1]
  PROVE  LET r == q \o BytesOf(f)
         IN  /\ r \in Seq(Byte) /\ Placed(r, c)
             /\ c + Len(r) = Starts[f]
             /\ \A j \in 1..Len(r) : (j <= Len(q) /\ r[j] = q[j]) \/ r[j][1] = f
<1> DEFINE b == BytesOf(f)
           r == q \o b
<1>1. /\ b \in Seq(Byte) /\ Len(b) = len[f] /\ len[f] \in Nat /\ len[f] > 0
      /\ \A i \in 1..len[f] : b[i] = <<f, i>>
  BY BytesOfTyped
<1> HIDE DEF b
<1>2. /\ r \in Seq(Byte) /\ Len(r) = Len(q) + Len(b)
      /\ \A i \in 1..Len(q) : r[i] = q[i]
      /\ \A i \in 1..Len(b) : r[Len(q) + i] = b[i]
  <2>1. b \in Seq(Byte)
    BY <1>1
  <2> QED  BY <2>1, ConcatAt
<1> HIDE DEF r
<1>3. Len(q) \in Nat
  OBVIOUS
<1>4. ASSUME NEW j \in 1..Len(r)
      PROVE  /\ At(r[j][1], r[j][2], c + j)
             /\ (j <= Len(q) /\ r[j] = q[j]) \/ r[j][1] = f
  <2>1. CASE j <= Len(q)
    <3>1. j \in 1..Len(q)
      BY <2>1, <1>4, <1>3
    <3>2. At(q[j][1], q[j][2], c + j)
      BY <3>1 DEF Placed
    <3> QED  BY <3>1, <3>2, <2>1, <1>2
  <2>2. CASE j > Len(q)
    <3>1. PICK i \in Nat : i = j - Len(q)
      <4>1. j \in Nat /\ j - Len(q) \in Nat
        BY <2>2, <1>2, <1>3, <1>4
      <4> QED  BY <4>1
    <3>2. i \in 1..Len(b) /\ i \in 1..len[f] /\ Len(q) + i = j
      BY <3>1, <2>2, <1>1, <1>2, <1>3, <1>4
    <3>3. r[j] = <<f, i>>
      BY <3>2, <1>1, <1>2
    <3>4. c + j = Starts[f - 1] + i
      BY <3>2, <1>3
    <3>5. At(f, i, c + j)
      BY <3>2, <3>4 DEF At
    <3> QED  BY <3>3, <3>5
  <2> QED  BY <2>1, <2>2, <1>3, <1>4
<1>5. c + Len(r) = Starts[f]
  <2>1. f \in 1..NFrames /\ f - 1 \in 0..NFrames
    BY SizesTyped DEF Frames
  <2>2. Starts[f] = Starts[f - 1] + len[f] /\ Starts[f - 1] \in Nat
    BY <2>1, StartsUnfold
  <2> QED  BY <2>2, <1>1, <1>2, <1>3
<1> QED  BY <1>2, <1>4, <1>5 DEF Placed, r, b

LEMMA PlacedDrop ==
  ASSUME NEW q \in Seq(Byte), NEW c \in Nat, Placed(q, c), NEW n \in 0..Len(q)
  PROVE  LET r == SubSeq(q, n + 1, Len(q))
         IN  /\ r \in Seq(Byte) /\ Placed(r, c + n) /\ Len(r) = Len(q) - n
             /\ \A j \in 1..Len(r) : n + j \in 1..Len(q) /\ r[j] = q[n + j]
<1> DEFINE r == SubSeq(q, n + 1, Len(q))
<1>1. r \in Seq(Byte) /\ Len(r) = Len(q) - n /\ \A i \in 1..Len(r) : r[i] = q[n + i]
  BY DropFirst
<1> HIDE DEF r
<1>2. ASSUME NEW j \in 1..Len(r)
      PROVE  n + j \in 1..Len(q) /\ r[j] = q[n + j] /\ At(r[j][1], r[j][2], (c + n) + j)
  <2>1. n + j \in 1..Len(q) /\ c + (n + j) = (c + n) + j
    BY <1>1, <1>2
  <2>2. At(q[n + j][1], q[n + j][2], c + (n + j))
    BY <2>1 DEF Placed
  <2>3. r[j] = q[n + j]
    BY <1>1, <1>2
  <2> QED  BY <2>1, <2>2, <2>3
<1> QED  BY <1>1, <1>2 DEF Placed, r

(* A call reads one payloadSize tag, that of its first item: it is right   *)
(* for all of them when the frames are of one size or only one is there.   *)
SameSizes == source = "uniform" => \A f, g \in Frames : len[f] = len[g]

LEMMA SizeRight ==
  ASSUME PathTypes, SameSizes, source \in {"spaced", "uniform"},
         NEW q \in Seq(Byte), q # <<>>, NEW c \in Nat, Placed(q, c),
         NEW f, NEW n, Within(c, f, n), NEW size \in Lengths, n > 0 => size = len[f],
         source = "spaced" => \A j \in 1..Len(q) : q[j][1] = nextFrame - 1
  PROVE  \A j \in 1..Len(q) : TaggedSize(Head(q), size) = len[q[j][1]]
<1>1. len \in [Frames -> Lengths] /\ 1 \in 1..Len(q) /\ Head(q) = q[1] /\ n \in Nat
  BY DEF PathTypes, Within
<1>2. At(q[1][1], q[1][2], c + 1)
  BY <1>1 DEF Placed
<1>3. f \in Frames /\ q[1][1] = f /\ q[1][2] = n + 1
  BY <1>1, <1>2, NextPlace
<1>4. TaggedSize(q[1], size) = len[f]
  <2>1. CASE n = 0
    <3>1. q[1][2] = 1
      BY <2>1, <1>3
    <3> QED  BY <3>1, <1>3 DEF TaggedSize
  <2>2. CASE n > 0
    <3>1. q[1][2] # 1 /\ size = len[f]
      BY <2>2, <1>1, <1>3
    <3> QED  BY <3>1 DEF TaggedSize
  <2> QED  BY <2>1, <2>2, <1>1
<1>5. ASSUME NEW j \in 1..Len(q)
      PROVE  len[q[j][1]] = len[f]
  <2>1. CASE source = "spaced"
    <3>1. q[j][1] = nextFrame - 1 /\ q[1][1] = nextFrame - 1
      BY <2>1, <1>1
    <3> QED  BY <3>1, <1>3
  <2>2. CASE source = "uniform"
    <3>1. At(q[j][1], q[j][2], c + j)
      BY DEF Placed
    <3>2. q[j][1] \in Frames
      BY <3>1 DEF At
    <3> QED  BY <2>2, <3>2, <1>3 DEF SameSizes
  <2> QED  BY <2>1, <2>2
<1> QED  BY <1>1, <1>4, <1>5
-----------------------------------------------------------------------------
(* CRC16 within one call.                                                  *)

(* After c bytes the state s counts those of a frame and has kept them.    *)
CrcCounts(s, c) ==
  \E f : /\ Within(c, f, s.count)
         /\ Len(s.bytes) = s.count /\ \A i \in 1..s.count : s.bytes[i] = <<f, i>>

LEMMA CRCByteCounts ==
  ASSUME len \in [Frames -> Lengths], NEW s \in CrcState, NEW c \in Nat, CrcCounts(s, c),
         NEW byte \in Byte, At(byte[1], byte[2], c + 1), NEW size, size = len[byte[1]]
  PROVE  LET t == CRCByte(size, s, byte)
         IN  /\ CrcCounts(t, c + 1)
             /\ t.msgs = IF c + 1 = Starts[byte[1]] THEN Append(s.msgs, BytesOf(byte[1]))
                         ELSE s.msgs
<1>1. PICK f : /\ Within(c, f, s.count)
               /\ Len(s.bytes) = s.count /\ \A i \in 1..s.count : s.bytes[i] = <<f, i>>
  BY DEF CrcCounts
<1> DEFINE n == s.count
           more == Append(s.bytes, byte)
<1>2. n \in Nat /\ s.bytes \in Seq(Byte)
  BY DEF CrcState
<1>3. /\ f \in Frames /\ byte[1] = f /\ byte[2] = n + 1 /\ n + 1 <= len[f]
      /\ n + 1 = len[f] => Within(c + 1, f + 1, 0) /\ c + 1 = Starts[f]
      /\ n + 1 # len[f] => Within(c + 1, f, n + 1) /\ c + 1 < Starts[f]
  BY <1>1, NextPlace
<1>4. byte = <<f, n + 1>>
  BY <1>3 DEF Byte
<1>5. /\ more \in Seq(Byte) /\ Len(more) = n + 1
      /\ \A i \in 1..(n + 1) : more[i] = <<f, i>>
  <2>1. /\ more \in Seq(Byte) /\ Len(more) = Len(s.bytes) + 1
        /\ \A i \in 1..Len(s.bytes) : more[i] = s.bytes[i]
        /\ more[Len(s.bytes) + 1] = byte
    BY <1>2, AppendAt
  <2> HIDE DEF more
  <2>2. ASSUME NEW i \in 1..(n + 1)
        PROVE  more[i] = <<f, i>>
    <3>1. CASE i = n + 1
      BY <3>1, <2>1, <1>1, <1>4
    <3>2. CASE i # n + 1
      <4>1. i \in 1..n
        BY <3>2, <1>2
      <4> QED  BY <4>1, <2>1, <1>1
    <3> QED  BY <3>1, <3>2
  <2> QED  BY <2>1, <2>2, <1>1
<1> DEFINE t == CRCByte(size, s, byte)
<1>6. CASE n + 1 = len[f]
  <2>1. t = [count |-> 0, bytes |-> <<>>, msgs |-> Append(s.msgs, more)]
    BY <1>3, <1>6 DEF CRCByte
  <2> HIDE DEF t
  <2>2. CrcCounts(t, c + 1)
    <3>1. t.count = 0 /\ t.bytes = <<>> /\ Len(t.bytes) = 0
      BY <2>1
    <3>2. Within(c + 1, f + 1, t.count)
      BY <3>1, <1>3, <1>6
    <3>3. \A i \in 1..t.count : t.bytes[i] = <<f + 1, i>>
      BY <3>1
    <3> QED  BY <3>1, <3>2, <3>3 DEF CrcCounts
  <2>3. more = BytesOf(f)
    <3>1. /\ BytesOf(f) \in Seq(Byte) /\ Len(BytesOf(f)) = n + 1
          /\ \A i \in 1..(n + 1) : BytesOf(f)[i] = <<f, i>>
      BY <1>3, <1>6, BytesOfTyped
    <3> HIDE DEF more
    <3> QED  BY <3>1, <1>5, SameSeq
  <2>4. c + 1 = Starts[byte[1]]
    BY <1>3, <1>6
  <2> QED  BY <2>1, <2>2, <2>3, <2>4, <1>3 DEF t
<1>7. CASE n + 1 # len[f]
  <2>1. t = [count |-> n + 1, bytes |-> more, msgs |-> s.msgs]
    BY <1>3, <1>7 DEF CRCByte
  <2> HIDE DEF t
  <2>2. CrcCounts(t, c + 1)
    <3>1. t.count = n + 1 /\ t.bytes = more
      BY <2>1
    <3>2. Within(c + 1, f, t.count)
      BY <3>1, <1>3, <1>7
    <3> HIDE DEF more, n
    <3> QED  BY <3>1, <3>2, <1>5 DEF CrcCounts
  <2>3. c + 1 # Starts[byte[1]]
    <3>1. f \in 0..NFrames
      BY <1>3, SizesTyped DEF Frames
    <3>2. Starts[f] \in Nat /\ c + 1 < Starts[f]
      BY <3>1, <1>3, <1>7, StartsUnfold
    <3> QED  BY <3>2, <1>3
  <2> QED  BY <2>1, <2>2, <2>3 DEF t
<1> QED  BY <1>6, <1>7

LEMMA CRCLoop ==
  ASSUME len \in [Frames -> Lengths],
         NEW size \in Lengths, NEW start \in CrcState, NEW n \in Nat, NEW c \in Nat,
         \A j \in 1..n : /\ crcIn[j] \in Byte /\ At(crcIn[j][1], crcIn[j][2], c + j)
                         /\ size = len[crcIn[j][1]],
         CrcCounts(start, c)
  PROVE  \A m \in 0..n : CrcCounts(CRCStates(size, start, n)[m], c + m)
<1> DEFINE state == CRCStates(size, start, n)
           T == {m \in 0..n : CrcCounts(state[m], c + m)}
<1>1. /\ state \in [0..n -> CrcState] /\ state[0] = start
      /\ \A i \in 1..n : state[i] = CRCByte(size, state[i - 1], crcIn[i])
  <2>1. \A j \in 1..n : crcIn[j] \in Byte
    OBVIOUS
  <2> QED  BY <2>1, CRCStatesUnfold
<1> HIDE DEF state
<1>2. 0 \in T
  <2>1. c + 0 = c
    OBVIOUS
  <2> QED  BY <1>1, <2>1
<1>3. ASSUME NEW m \in 0..n, m \in T, m < n
      PROVE  m + 1 \in T
  <2>1. m + 1 \in 1..n /\ m + 1 \in 0..n /\ (m + 1) - 1 = m /\ c + m \in Nat
        /\ c + (m + 1) = (c + m) + 1
    <3> HIDE DEF T
    <3> QED  BY <1>3
  <2>2. PICK s \in CrcState : s = state[m]
    BY <1>1
  <2>3. PICK b \in Byte : b = crcIn[m + 1] /\ At(b[1], b[2], (c + m) + 1) /\ size = len[b[1]]
    BY <2>1
  <2>4. state[m + 1] = CRCByte(size, s, b)
    BY <1>1, <2>1, <2>2, <2>3
  <2>5. CrcCounts(s, c + m)
    BY <1>3, <2>2
  <2>6. CrcCounts(CRCByte(size, s, b), (c + m) + 1)
    BY <2>1, <2>3, <2>5, CRCByteCounts
  <2> QED  BY <2>1, <2>4, <2>6
<1>4. 0..n \subseteq T
  <2> HIDE DEF T
  <2> QED  BY <1>2, <1>3, InductTo
<1> QED  BY <1>4 DEF state

(* The messages of a call whose bytes are all of frame g.                  *)
LEMMA CRCLoopMessages ==
  ASSUME len \in [Frames -> Lengths],
         NEW size \in Lengths, NEW start \in CrcState, NEW n \in Nat, NEW c \in Nat,
         \A j \in 1..n : /\ crcIn[j] \in Byte /\ At(crcIn[j][1], crcIn[j][2], c + j)
                         /\ size = len[crcIn[j][1]],
         CrcCounts(start, c),
         NEW g \in Frames, \A j \in 1..n : crcIn[j][1] = g, c < Starts[g], start.msgs = <<>>
  PROVE  CRCStates(size, start, n)[n].msgs = IF c + n = Starts[g] THEN <<BytesOf(g)>> ELSE <<>>
<1> DEFINE state == CRCStates(size, start, n)
           T == {m \in 0..n : state[m].msgs = IF c + m = Starts[g] THEN <<BytesOf(g)>> ELSE <<>>}
<1>1. /\ state \in [0..n -> CrcState] /\ state[0] = start
      /\ \A i \in 1..n : state[i] = CRCByte(size, state[i - 1], crcIn[i])
  <2>1. \A j \in 1..n : crcIn[j] \in Byte
    OBVIOUS
  <2> QED  BY <2>1, CRCStatesUnfold
<1>2. \A m \in 0..n : CrcCounts(state[m], c + m)
  BY CRCLoop
<1> HIDE DEF state
<1>3. Starts[g] \in Nat
  <2>1. g \in 0..NFrames
    BY SizesTyped DEF Frames
  <2> QED  BY <2>1, StartsUnfold
<1>4. 0 \in T
  <2>1. c + 0 # Starts[g]
    BY <1>3
  <2> QED  BY <1>1, <2>1
<1>5. ASSUME NEW m \in 0..n, m \in T, m < n
      PROVE  m + 1 \in T
  <2>1. m + 1 \in 1..n /\ m + 1 \in 0..n /\ (m + 1) - 1 = m /\ c + m \in Nat
        /\ c + (m + 1) = (c + m) + 1
    <3> HIDE DEF T
    <3> QED  BY <1>5
  <2>2. PICK s \in CrcState : s = state[m]
    BY <1>1
  <2>3. PICK b \in Byte : /\ b = crcIn[m + 1] /\ At(b[1], b[2], (c + m) + 1)
                          /\ size = len[b[1]] /\ b[1] = g
    BY <2>1
  <2>4. state[m + 1] = CRCByte(size, s, b)
    BY <1>1, <2>1, <2>2, <2>3
  <2>5. CrcCounts(s, c + m)
    BY <1>2, <2>2
  <2>6. CRCByte(size, s, b).msgs
          = IF (c + m) + 1 = Starts[g] THEN Append(s.msgs, BytesOf(g)) ELSE s.msgs
    BY <2>1, <2>3, <2>5, CRCByteCounts
  <2>7. c + m # Starts[g]
    <3>1. /\ (c + m) + 1 = Starts[g - 1] + b[2] /\ b[2] <= len[g] /\ b[2] \in Nat
          /\ len[g] \in Nat /\ Starts[g] = Starts[g - 1] + len[g] /\ Starts[g - 1] \in Nat
      BY <2>3, PlaceTyped
    <3> QED  BY <3>1, <2>1
  <2>8. s.msgs = <<>>
    BY <1>5, <2>2, <2>7
  <2> QED  BY <2>1, <2>4, <2>6, <2>8
<1>6. 0..n \subseteq T
  <2> HIDE DEF T
  <2> QED  BY <1>4, <1>5, InductTo
<1>7. n \in T
  BY <1>6
<1> QED  BY <1>7 DEF state
-----------------------------------------------------------------------------
(* randomize within one call.                                              *)

(* A nibble of the byte at place b, in its place in the nibble stream.     *)
NibbleAt(v, k) ==
  \E f, i, b : At(f, i, b) /\ v = <<f, i, i>> /\ (k = 2 * b - 1 \/ k = 2 * b)

NibblesPlaced(q, c) == \A j \in 1..Len(q) : NibbleAt(q[j], c + j)

(* After c bytes the state s counts those of a frame, and so does the LFSR.*)
RndCounts(s, c) ==
  /\ \E f : Within(c, f, s.count)
  /\ s.lfsr = s.count + 1

LEMMA RandomizeByteCounts ==
  ASSUME len \in [Frames -> Lengths], NEW s \in RndState, NEW c \in Nat, RndCounts(s, c),
         NEW byte \in Byte, At(byte[1], byte[2], c + 1), NEW size \in Lengths,
         size = len[byte[1]]
  PROVE  LET t == RandomizeByte(size, s, byte)
             w == <<byte[1], byte[2], byte[2]>>
         IN  RndCounts(t, c + 1) /\ t.out = s.out \o <<w, w>>
<1>1. PICK f : Within(c, f, s.count)
  BY DEF RndCounts
<1> DEFINE n == s.count
           t == RandomizeByte(size, s, byte)
<1>2. n \in Nat /\ s.lfsr = n + 1
  BY DEF RndState, RndCounts
<1>3. /\ f \in Frames /\ byte[1] = f /\ byte[2] = n + 1
      /\ n + 1 = len[f] => Within(c + 1, f + 1, 0)
      /\ n + 1 # len[f] => Within(c + 1, f, n + 1)
  BY <1>1, NextPlace
<1>4. t.out = s.out \o <<<<byte[1], byte[2], s.lfsr>>, <<byte[1], byte[2], s.lfsr>>>>
  BY RandomizeByteTyped
<1>5. t.out = s.out \o <<<<byte[1], byte[2], byte[2]>>, <<byte[1], byte[2], byte[2]>>>>
  BY <1>2, <1>3, <1>4
<1>6. /\ t.count = IF n + 1 = size THEN 0 ELSE n + 1
      /\ t.lfsr = IF n + 1 = size THEN 1 ELSE n + 2
  BY <1>2 DEF RandomizeByte
<1> HIDE DEF t
<1>7. RndCounts(t, c + 1)
  <2>1. CASE n + 1 = len[f]
    <3>1. t.count = 0 /\ t.lfsr = 1
      BY <2>1, <1>3, <1>6
    <3> QED  BY <3>1, <2>1, <1>3 DEF RndCounts
  <2>2. CASE n + 1 # len[f]
    <3>1. t.count = n + 1 /\ t.lfsr = (n + 1) + 1
      BY <2>2, <1>2, <1>3, <1>6
    <3> QED  BY <3>1, <2>2, <1>3 DEF RndCounts
  <2> QED  BY <2>1, <2>2
<1> QED  BY <1>5, <1>7 DEF t

LEMMA TwoMore ==
  ASSUME NEW q \in Seq(Nibble), NEW w \in Nibble, NEW c \in Nat, NibblesPlaced(q, c),
         NibbleAt(w, c + Len(q) + 1), NibbleAt(w, c + Len(q) + 2)
  PROVE  NibblesPlaced(q \o <<w, w>>, c) /\ Len(q \o <<w, w>>) = Len(q) + 2
<1> DEFINE p == <<w, w>>
           r == q \o p
<1>1. p \in Seq(Nibble) /\ Len(p) = 2 /\ p[1] = w /\ p[2] = w
  OBVIOUS
<1> HIDE DEF p
<1>2. /\ Len(r) = Len(q) + Len(p) /\ Len(q) \in Nat
      /\ \A i \in 1..Len(q) : r[i] = q[i]
      /\ \A i \in 1..Len(p) : r[Len(q) + i] = p[i]
  <2>1. p \in Seq(Nibble)
    BY <1>1
  <2> QED  BY <2>1, ConcatAt
<1> HIDE DEF r
<1>3. ASSUME NEW j \in 1..Len(r)
      PROVE  NibbleAt(r[j], c + j)
  <2>1. CASE j \in 1..Len(q)
    BY <2>1, <1>2 DEF NibblesPlaced
  <2>2. CASE j = Len(q) + 1
    <3>1. r[j] = w /\ c + j = c + Len(q) + 1
      BY <2>2, <1>1, <1>2
    <3> QED  BY <3>1
  <2>3. CASE j = Len(q) + 2
    <3>1. r[j] = w /\ c + j = c + Len(q) + 2
      BY <2>3, <1>1, <1>2
    <3> QED  BY <3>1
  <2> QED  BY <2>1, <2>2, <2>3, <1>1, <1>2, <1>3
<1>4. Len(r) = Len(q) + 2
  BY <1>1, <1>2
<1> QED  BY <1>3, <1>4 DEF NibblesPlaced, r, p

LEMMA RandomizeLoop ==
  ASSUME len \in [Frames -> Lengths],
         NEW size \in Lengths, NEW start \in RndState, NEW n \in Nat, NEW c \in Nat,
         \A j \in 1..n : /\ rndIn[j] \in Byte /\ At(rndIn[j][1], rndIn[j][2], c + j)
                         /\ size = len[rndIn[j][1]],
         RndCounts(start, c), start.out = <<>>
  PROVE  LET done == RandomizeStates(size, start, n)[n]
         IN  RndCounts(done, c + n) /\ NibblesPlaced(done.out, 2 * c) /\ Len(done.out) = 2 * n
<1> DEFINE state == RandomizeStates(size, start, n)
           T == {m \in 0..n : /\ RndCounts(state[m], c + m)
                              /\ NibblesPlaced(state[m].out, 2 * c)
                              /\ Len(state[m].out) = 2 * m}
<1>1. /\ state \in [0..n -> RndState] /\ state[0] = start
      /\ \A i \in 1..n : state[i] = RandomizeByte(size, state[i - 1], rndIn[i])
  <2>1. \A j \in 1..n : rndIn[j] \in Byte
    OBVIOUS
  <2> QED  BY <2>1, RandomizeStatesUnfold
<1> HIDE DEF state
<1>2. 0 \in T
  <2>1. c + 0 = c /\ Len(start.out) = 2 * 0
    OBVIOUS
  <2>2. NibblesPlaced(start.out, 2 * c)
    BY DEF NibblesPlaced
  <2> QED  BY <1>1, <2>1, <2>2
<1>3. ASSUME NEW m \in 0..n, m \in T, m < n
      PROVE  m + 1 \in T
  <2>1. m + 1 \in 1..n /\ m + 1 \in 0..n /\ (m + 1) - 1 = m /\ c + m \in Nat
        /\ c + (m + 1) = (c + m) + 1
    <3> HIDE DEF T
    <3> QED  BY <1>3
  <2>2. PICK s \in RndState : s = state[m]
    BY <1>1
  <2>3. PICK b \in Byte : b = rndIn[m + 1] /\ At(b[1], b[2], (c + m) + 1) /\ size = len[b[1]]
    BY <2>1
  <2> DEFINE w == <<b[1], b[2], b[2]>>
             t == RandomizeByte(size, s, b)
  <2>4. state[m + 1] = t
    BY <1>1, <2>1, <2>2, <2>3
  <2>5. RndCounts(s, c + m) /\ NibblesPlaced(s.out, 2 * c) /\ Len(s.out) = 2 * m
    BY <1>3, <2>2
  <2>6. RndCounts(t, (c + m) + 1) /\ t.out = s.out \o <<w, w>>
    BY <2>1, <2>3, <2>5, RandomizeByteCounts, ZenonT(60)
  <2>7. s.out \in Seq(Nibble) /\ w \in Nibble
    BY DEF RndState, Byte, Nibble
  <2>8. ASSUME NEW k, k = 2 * c + Len(s.out) + 1 \/ k = 2 * c + Len(s.out) + 2
        PROVE  NibbleAt(w, k)
    <3>1. k = 2 * ((c + m) + 1) - 1 \/ k = 2 * ((c + m) + 1)
      BY <2>5, <2>8, <2>1
    <3>2. \E f, i, d : At(f, i, d) /\ w = <<f, i, i>> /\ (k = 2 * d - 1 \/ k = 2 * d)
      BY <3>1, <2>3
    <3> QED  BY <3>2 DEF NibbleAt
  <2> HIDE DEF w, t
  <2>9. 2 * c \in Nat
    OBVIOUS
  <2>10. NibblesPlaced(s.out \o <<w, w>>, 2 * c) /\ Len(s.out \o <<w, w>>) = Len(s.out) + 2
    BY <2>5, <2>7, <2>8, <2>9, TwoMore
  <2>11. Len(t.out) = 2 * (m + 1)
    BY <2>5, <2>6, <2>10
  <2> QED  BY <2>1, <2>4, <2>6, <2>10, <2>11
<1>4. 0..n \subseteq T
  <2> HIDE DEF T
  <2> QED  BY <1>2, <1>3, InductTo
<1>5. n \in T
  BY <1>4
<1> QED  BY <1>5 DEF state
-----------------------------------------------------------------------------
(* CRC16 and randomize.                                                    *)

(* The source sends frames of one size, or waits between frames.           *)
Regular == Sources \subseteq {"spaced", "uniform"}

Sent == Starts[nextFrame - 1]
CrcDone == Sent - Len(crcIn)
RndDone == Sent - Len(rndIn)

Inputs ==
  /\ SameSizes
  /\ CrcDone \in Nat /\ Placed(crcIn, CrcDone)
  /\ RndDone \in Nat /\ Placed(rndIn, RndDone)
  /\ source = "spaced" => /\ \A j \in 1..Len(crcIn) : crcIn[j][1] = nextFrame - 1
                          /\ \A j \in 1..Len(rndIn) : rndIn[j][1] = nextFrame - 1

CrcCounter ==
  /\ CrcCounts([count |-> crcCount, bytes |-> crcBytes, msgs |-> <<>>], CrcDone)
  /\ \A f : Within(CrcDone, f, crcCount) /\ crcCount > 0 => crcSize = len[f]

RndCounter ==
  /\ RndCounts([count |-> rndCount, lfsr |-> lfsr, out |-> <<>>], RndDone)
  /\ \A f : Within(RndDone, f, rndCount) /\ rndCount > 0 => rndSize = len[f]

LEMMA SentTyped ==
  ASSUME PathTypes
  PROVE  /\ len \in [Frames -> Lengths] /\ nextFrame - 1 \in 0..NFrames /\ Sent \in Nat
         /\ Len(crcIn) \in Nat /\ Len(rndIn) \in Nat
         /\ nextFrame \in Frames => Starts[nextFrame] = Sent + len[nextFrame]
                                    /\ (nextFrame + 1) - 1 = nextFrame
<1>1. len \in [Frames -> Lengths] /\ nextFrame \in 1..(NFrames + 1) /\ NFrames \in Nat
  BY SizesTyped DEF PathTypes
<1>2. nextFrame - 1 \in 0..NFrames
  BY <1>1
<1>3. Sent \in Nat
  BY <1>1, <1>2, StartsUnfold DEF Sent
<1>4. ASSUME nextFrame \in Frames
      PROVE  Starts[nextFrame] = Sent + len[nextFrame] /\ (nextFrame + 1) - 1 = nextFrame
  <2>1. nextFrame \in 1..NFrames
    BY <1>4 DEF Frames
  <2> QED  BY <2>1, <1>1, StartsUnfold DEF Sent
<1>5. Len(crcIn) \in Nat /\ Len(rndIn) \in Nat
  BY DEF PathTypes
<1> QED  BY <1>1, <1>2, <1>3, <1>4, <1>5

(* The place operators talk about the lengths only.                        *)
LEMMA PlacesStay ==
  ASSUME len' = len
  PROVE  /\ Starts' = Starts
         /\ \A f, i, k : At(f, i, k)' <=> At(f, i, k)
         /\ \A c, f, n : Within(c, f, n)' <=> Within(c, f, n)
         /\ \A q, c : Placed(q, c)' <=> Placed(q, c)
         /\ \A v, k : NibbleAt(v, k)' <=> NibbleAt(v, k)
         /\ \A q, c : NibblesPlaced(q, c)' <=> NibblesPlaced(q, c)
         /\ \A s, c : CrcCounts(s, c)' <=> CrcCounts(s, c)
         /\ \A s, c : RndCounts(s, c)' <=> RndCounts(s, c)
<1>1. Starts' = Starts
  BY DEF Starts
<1>2. \A f, i, k : At(f, i, k)' <=> At(f, i, k)
  BY <1>1, Zenon DEF At
<1>3. \A c, f, n : Within(c, f, n)' <=> Within(c, f, n)
  BY <1>1, Zenon DEF Within
<1>4. \A q, c : Placed(q, c)' <=> Placed(q, c)
  BY <1>2, Zenon DEF Placed
<1>5. \A v, k : NibbleAt(v, k)' <=> NibbleAt(v, k)
  BY <1>2, Zenon DEF NibbleAt
<1>6. \A q, c : NibblesPlaced(q, c)' <=> NibblesPlaced(q, c)
  BY <1>5, Zenon DEF NibblesPlaced
<1>7. \A s, c : CrcCounts(s, c)' <=> CrcCounts(s, c)
  BY <1>3, Zenon DEF CrcCounts
<1>8. \A s, c : RndCounts(s, c)' <=> RndCounts(s, c)
  BY <1>3, Zenon DEF RndCounts
<1> QED  BY <1>1, <1>2, <1>3, <1>4, <1>5, <1>6, <1>7, <1>8

(* What the steps below have to show, in the state after the step.         *)
LEMMA InputsNext ==
  ASSUME len' = len, source' = source, SameSizes, CrcDone' \in Nat, RndDone' \in Nat,
         NEW q, q = crcIn', NEW c, c = CrcDone', Placed(q, c),
         NEW r, r = rndIn', NEW d, d = RndDone', Placed(r, d),
         NEW g, g = nextFrame' - 1,
         source = "spaced" => /\ \A j \in 1..Len(q) : q[j][1] = g
                              /\ \A j \in 1..Len(r) : r[j][1] = g
  PROVE  Inputs'
<1>1. Placed(crcIn, CrcDone)' /\ Placed(rndIn, RndDone)'
  <2>1. Placed(q, c)' /\ Placed(r, d)'
    BY PlacesStay
  <2> QED  BY <2>1 DEF Placed
<1>2. SameSizes'
  BY Zenon DEF SameSizes
<1> QED  BY <1>1, <1>2, Zenon DEF Inputs

LEMMA CrcCounterNext ==
  ASSUME len' = len,
         NEW s, s = [count |-> crcCount', bytes |-> crcBytes', msgs |-> <<>>],
         NEW n, n = crcCount', NEW c, c = CrcDone', CrcCounts(s, c),
         NEW size, size = crcSize',
         \A f : Within(c, f, n) /\ n > 0 => size = len[f]
  PROVE  CrcCounter'
<1>1. CrcCounts([count |-> crcCount, bytes |-> crcBytes, msgs |-> <<>>], CrcDone)'
  <2>1. CrcCounts(s, c)'
    BY PlacesStay
  <2> QED  BY <2>1 DEF CrcCounts
<1>2. \A f : Within(CrcDone, f, crcCount)' /\ crcCount' > 0 => crcSize' = len'[f]
  <2>1. \A f : Within(c, f, n)' <=> Within(c, f, n)
    BY PlacesStay
  <2> QED  BY <2>1
<1> QED  BY <1>1, <1>2 DEF CrcCounter

LEMMA RndCounterNext ==
  ASSUME len' = len,
         NEW s, s = [count |-> rndCount', lfsr |-> lfsr', out |-> <<>>],
         NEW n, n = rndCount', NEW c, c = RndDone', RndCounts(s, c),
         NEW size, size = rndSize',
         \A f : Within(c, f, n) /\ n > 0 => size = len[f]
  PROVE  RndCounter'
<1>1. RndCounts([count |-> rndCount, lfsr |-> lfsr, out |-> <<>>], RndDone)'
  <2>1. RndCounts(s, c)'
    BY PlacesStay
  <2> QED  BY <2>1 DEF RndCounts
<1>2. \A f : Within(RndDone, f, rndCount)' /\ rndCount' > 0 => rndSize' = len'[f]
  <2>1. \A f : Within(c, f, n)' <=> Within(c, f, n)
    BY PlacesStay
  <2> QED  BY <2>1
<1> QED  BY <1>1, <1>2 DEF RndCounter

LEMMA SendPDUInputs ==
  ASSUME PathTypes, Inputs, CrcCounter, RndCounter, SendPDU
  PROVE  /\ Inputs' /\ CrcCounter' /\ RndCounter' /\ CrcDone' = CrcDone /\ RndDone' = RndDone
         /\ Sent' = Sent + len[nextFrame] /\ Len(crcIn') > 0
<1> DEFINE f == nextFrame
<1>1. /\ f \in Frames /\ nextFrame' = f + 1 /\ (source = "spaced" => Idle)
      /\ crcIn' = crcIn \o BytesOf(f) /\ rndIn' = rndIn \o BytesOf(f)
      /\ UNCHANGED <<source, len, crcSize, crcCount, crcBytes, rndSize, rndCount, lfsr>>
  BY DEF SendPDU, given
<1>2. /\ len \in [Frames -> Lengths] /\ nextFrame - 1 \in 0..NFrames /\ Sent \in Nat
      /\ Len(crcIn) \in Nat /\ Len(rndIn) \in Nat
      /\ Starts[f] = Sent + len[f] /\ (f + 1) - 1 = f
  BY <1>1, SentTyped
<1>3. crcIn \in Seq(Byte) /\ rndIn \in Seq(Byte)
  BY DEF PathTypes
<1>4. PICK c \in Nat : c = CrcDone /\ Placed(crcIn, c) /\ c + Len(crcIn) = Starts[f - 1]
  <2>1. CrcDone \in Nat /\ Placed(crcIn, CrcDone)
    BY DEF Inputs
  <2>2. CrcDone + Len(crcIn) = Starts[f - 1]
    BY <2>1, <1>2 DEF CrcDone, Sent
  <2> QED  BY <2>1, <2>2
<1>5. PICK d \in Nat : d = RndDone /\ Placed(rndIn, d) /\ d + Len(rndIn) = Starts[f - 1]
  <2>1. RndDone \in Nat /\ Placed(rndIn, RndDone)
    BY DEF Inputs
  <2>2. RndDone + Len(rndIn) = Starts[f - 1]
    BY <2>1, <1>2 DEF RndDone, Sent
  <2> QED  BY <2>1, <2>2
<1>6. PICK q \in Seq(Byte) :
        /\ q = crcIn' /\ Placed(q, c) /\ c + Len(q) = Starts[f]
        /\ \A j \in 1..Len(q) : (j <= Len(crcIn) /\ q[j] = crcIn[j]) \/ q[j][1] = f
  <2>1. PICK t : t = crcIn \o BytesOf(f)
    OBVIOUS
  <2>2. /\ t \in Seq(Byte) /\ Placed(t, c) /\ c + Len(t) = Starts[f]
        /\ \A j \in 1..Len(t) : (j <= Len(crcIn) /\ t[j] = crcIn[j]) \/ t[j][1] = f
    <3>1. /\ len \in [Frames -> Lengths] /\ crcIn \in Seq(Byte) /\ Placed(crcIn, c)
          /\ f \in Frames /\ c + Len(crcIn) = Starts[f - 1]
      BY <1>1, <1>2, <1>3, <1>4
    <3> HIDE DEF f
    <3> QED  BY <2>1, <3>1, PlacedExtend
  <2> QED  BY <2>1, <2>2, <1>1
<1>7. PICK r \in Seq(Byte) :
        /\ r = rndIn' /\ Placed(r, d) /\ d + Len(r) = Starts[f]
        /\ \A j \in 1..Len(r) : (j <= Len(rndIn) /\ r[j] = rndIn[j]) \/ r[j][1] = f
  <2>1. PICK t : t = rndIn \o BytesOf(f)
    OBVIOUS
  <2>2. /\ t \in Seq(Byte) /\ Placed(t, d) /\ d + Len(t) = Starts[f]
        /\ \A j \in 1..Len(t) : (j <= Len(rndIn) /\ t[j] = rndIn[j]) \/ t[j][1] = f
    <3>1. /\ len \in [Frames -> Lengths] /\ rndIn \in Seq(Byte) /\ Placed(rndIn, d)
          /\ f \in Frames /\ d + Len(rndIn) = Starts[f - 1]
      BY <1>1, <1>2, <1>3, <1>5
    <3> HIDE DEF f
    <3> QED  BY <2>1, <3>1, PlacedExtend
  <2> QED  BY <2>1, <2>2, <1>1
<1>8. Sent' = Starts[f]
  <2>1. Starts' = Starts
    BY <1>1, PlacesStay
  <2> QED  BY <2>1, <1>1, <1>2 DEF Sent
<1>9. CrcDone' = c /\ RndDone' = d
  <2>1. Starts[f] \in Nat /\ Len(q) \in Nat /\ Len(r) \in Nat
    BY <1>2, LengthsTyped, <1>1
  <2> QED  BY <2>1, <1>6, <1>7, <1>8 DEF CrcDone, RndDone
<1>10. source = "spaced" => (\A j \in 1..Len(q) : q[j][1] = f) /\ (\A j \in 1..Len(r) : r[j][1] = f)
  <2> SUFFICES ASSUME source = "spaced"
               PROVE (\A j \in 1..Len(q) : q[j][1] = f) /\ (\A j \in 1..Len(r) : r[j][1] = f)
    OBVIOUS
  <2>1. crcIn = <<>> /\ rndIn = <<>>
    BY <1>1 DEF Idle
  <2>2. Len(crcIn) = 0 /\ Len(rndIn) = 0
    BY <2>1
  <2> QED  BY <2>2, <1>6, <1>7
<1>11. Inputs'
  <2>1. SameSizes /\ len' = len /\ source' = source
    BY <1>1 DEF Inputs
  <2>2. PICK g : g = nextFrame' - 1 /\ g = f
    BY <1>1, <1>2
  <2> HIDE DEF f
  <2> QED  BY <2>1, <2>2, <1>4, <1>5, <1>6, <1>7, <1>9, <1>10, InputsNext
<1>12. CrcCounter'
  <2>1. PICK s : s = [count |-> crcCount, bytes |-> crcBytes, msgs |-> <<>>]
    OBVIOUS
  <2>2. s = [count |-> crcCount', bytes |-> crcBytes', msgs |-> <<>>]
    BY <1>1, <2>1
  <2>3. CrcCounts(s, c) /\ \A g : Within(c, g, crcCount) /\ crcCount > 0 => crcSize = len[g]
    BY <2>1, <1>4 DEF CrcCounter
  <2>4. PICK n, size : n = crcCount /\ size = crcSize
    OBVIOUS
  <2>5. len' = len /\ n = crcCount' /\ size = crcSize'
    BY <1>1, <2>4
  <2> QED  BY <2>2, <2>3, <2>4, <2>5, <1>9, CrcCounterNext
<1>13. RndCounter'
  <2>1. PICK s : s = [count |-> rndCount, lfsr |-> lfsr, out |-> <<>>]
    OBVIOUS
  <2>2. s = [count |-> rndCount', lfsr |-> lfsr', out |-> <<>>]
    BY <1>1, <2>1
  <2>3. RndCounts(s, d) /\ \A g : Within(d, g, rndCount) /\ rndCount > 0 => rndSize = len[g]
    BY <2>1, <1>5 DEF RndCounter
  <2>4. PICK n, size : n = rndCount /\ size = rndSize
    OBVIOUS
  <2>5. len' = len /\ n = rndCount' /\ size = rndSize'
    BY <1>1, <2>4
  <2> QED  BY <2>2, <2>3, <2>4, <2>5, <1>9, RndCounterNext
<1>14. Len(crcIn') > 0
  <2>1. len[f] \in Nat /\ len[f] > 0
    BY <1>1, <1>2, LengthsTyped
  <2>2. c + Len(crcIn) + len[f] = c + Len(q)
    BY <2>1, <1>2, <1>4, <1>6 DEF Sent
  <2> QED  BY <2>1, <2>2, <1>2, <1>6
<1> QED  BY <1>2, <1>4, <1>5, <1>8, <1>9, <1>11, <1>12, <1>13, <1>14

(* In the middle of a frame the last item was of that frame.               *)
LEMMA LastItem ==
  ASSUME len \in [Frames -> Lengths], NEW k, NEW g, NEW i, At(g, i, k),
         NEW f, NEW m, Within(k, f, m), m > 0
  PROVE  f = g
<1>1. m \in Nat /\ f \in Frames /\ m < len[f] /\ k = Starts[f - 1] + m
  BY DEF Within
<1>2. len[f] \in Nat
  BY <1>1, LengthsTyped
<1>3. m \in 1..len[f]
  BY <1>1, <1>2
<1>4. At(f, m, k)
  BY <1>1, <1>3 DEF At
<1> QED  BY <1>4, SamePlace

(* The items of a call, and the size it works with.                        *)
LEMMA CallItems ==
  ASSUME PathTypes, SameSizes, Regular, NEW q \in Seq(Byte), NEW c \in Nat, Placed(q, c),
         NEW f, NEW m, Within(c, f, m), NEW size \in Lengths, m > 0 => size = len[f],
         source = "spaced" => \A j \in 1..Len(q) : q[j][1] = nextFrame - 1,
         NEW n \in 1..Len(q)
  PROVE  \A j \in 1..n : /\ q[j] \in Byte /\ At(q[j][1], q[j][2], c + j)
                         /\ TaggedSize(Head(q), size) = len[q[j][1]]
<1>1. source \in {"spaced", "uniform"} /\ q # <<>>
  BY DEF PathTypes, Regular
<1>2. \A j \in 1..Len(q) : TaggedSize(Head(q), size) = len[q[j][1]]
  BY <1>1, SizeRight
<1>3. ASSUME NEW j \in 1..n
      PROVE  j \in 1..Len(q) /\ q[j] \in Byte
  BY <1>3
<1> QED  BY <1>2, <1>3 DEF Placed

LEMMA CRC16Inputs ==
  ASSUME PathTypes, Inputs, CrcCounter, RndCounter, Regular,
         NEW n \in 1..Len(crcIn), CRC16Work(n)
  PROVE  /\ Inputs' /\ CrcCounter' /\ RndCounter'
         /\ CrcDone' = CrcDone + n /\ RndDone' = RndDone /\ Sent' = Sent
         /\ CrcDone + n <= Sent /\ CrcDone \in Nat
         /\ source = "spaced" =>
              /\ nextFrame - 1 \in Frames
              /\ crcMsgs' = crcMsgs \o IF CrcDone + n = Sent THEN <<BytesOf(nextFrame - 1)>>
                                       ELSE <<>>
<1> DEFINE size  == TaggedSize(Head(crcIn), crcSize)
           start == [count |-> crcCount, bytes |-> crcBytes, msgs |-> <<>>]
           done  == CRCStates(size, start, n)[n]
<1>1. /\ crcIn \in Seq(Byte) /\ n \in Nat /\ n \in 0..Len(crcIn) /\ Len(crcIn) \in Nat
      /\ size \in Lengths /\ start \in CrcState /\ done \in CrcState /\ start.msgs = <<>>
  BY CRC16Typed
<1>2. /\ crcIn' = SubSeq(crcIn, n + 1, Len(crcIn)) /\ crcSize' = size
      /\ crcCount' = done.count /\ crcBytes' = done.bytes /\ crcMsgs' = crcMsgs \o done.msgs
      /\ UNCHANGED <<source, len, nextFrame, rndIn, rndSize, rndCount, lfsr>>
  BY DEF CRC16Work, given, rndVars
<1>3. /\ len \in [Frames -> Lengths] /\ nextFrame - 1 \in 0..NFrames /\ Sent \in Nat
      /\ Len(rndIn) \in Nat
  BY SentTyped
<1>4. PICK c \in Nat : c = CrcDone /\ Placed(crcIn, c) /\ c + Len(crcIn) = Sent
  <2>1. CrcDone \in Nat /\ Placed(crcIn, CrcDone)
    BY DEF Inputs
  <2>2. CrcDone + Len(crcIn) = Sent
    BY <2>1, <1>1, <1>3 DEF CrcDone
  <2> QED  BY <2>1, <2>2
<1>5. PICK f : Within(c, f, crcCount) /\ (crcCount > 0 => crcSize = len[f])
  <2>1. PICK f : Within(CrcDone, f, start.count)
    BY DEF CrcCounter, CrcCounts
  <2>2. Within(c, f, crcCount)
    BY <2>1, <1>4
  <2> QED  BY <2>2, <1>4 DEF CrcCounter
<1>6. \A j \in 1..n : /\ crcIn[j] \in Byte /\ At(crcIn[j][1], crcIn[j][2], c + j)
                      /\ size = len[crcIn[j][1]]
  <2>1. SameSizes /\ (source = "spaced" => \A j \in 1..Len(crcIn) : crcIn[j][1] = nextFrame - 1)
    BY DEF Inputs
  <2>2. crcSize \in Lengths
    BY DEF PathTypes
  <2>3. \A j \in 1..n : /\ crcIn[j] \in Byte /\ At(crcIn[j][1], crcIn[j][2], c + j)
                        /\ TaggedSize(Head(crcIn), crcSize) = len[crcIn[j][1]]
    BY <1>1, <1>4, <1>5, <2>1, <2>2, CallItems
  <2> QED  BY <2>3
<1>7. CrcCounts(start, c)
  BY <1>4 DEF CrcCounter
<1> HIDE DEF start, size
<1>8. CrcCounts(done, c + n)
  <2>1. \A m \in 0..n : CrcCounts(CRCStates(size, start, n)[m], c + m)
    BY <1>1, <1>3, <1>4, <1>6, <1>7, CRCLoop
  <2>2. n \in 0..n
    BY <1>1
  <2> QED  BY <2>1, <2>2
<1>9. PICK q \in Seq(Byte) :
        /\ q = crcIn' /\ Placed(q, c + n) /\ Len(q) = Len(crcIn) - n
        /\ \A j \in 1..Len(q) : n + j \in 1..Len(crcIn) /\ q[j] = crcIn[n + j]
  BY <1>1, <1>2, <1>4, PlacedDrop
<1>10. Sent' = Sent
  <2>1. Starts' = Starts
    BY <1>2, PlacesStay
  <2> QED  BY <2>1, <1>2 DEF Sent
<1>11. CrcDone' = c + n /\ RndDone' = RndDone /\ c + n \in Nat /\ c + n <= Sent
  <2>1. CrcDone' = Sent - Len(q) /\ RndDone' = Sent - Len(rndIn)
    BY <1>2, <1>9, <1>10 DEF CrcDone, RndDone
  <2>2. Len(q) \in Nat
    OBVIOUS
  <2>3. Sent - Len(q) = c + n /\ c + n \in Nat /\ c + n <= Sent
    <3>1. /\ Len(q) = Len(crcIn) - n /\ c + Len(crcIn) = Sent
          /\ n \in Nat /\ n \in 0..Len(crcIn) /\ Len(crcIn) \in Nat
      BY <1>1, <1>4, <1>9
    <3> QED  BY <3>1, <2>2
  <2> QED  BY <2>1, <2>3 DEF RndDone
<1>12. Inputs'
  <2>1. SameSizes /\ len' = len /\ source' = source
    BY <1>2 DEF Inputs
  <2>2. PICK d : d = RndDone' /\ d = RndDone /\ d \in Nat
    BY <1>11 DEF Inputs
  <2>3. PICK r : r = rndIn' /\ r = rndIn /\ Placed(r, d)
    BY <1>2, <2>2 DEF Inputs
  <2>4. PICK g : g = nextFrame' - 1 /\ g = nextFrame - 1
    BY <1>2
  <2>5. source = "spaced" => (\A j \in 1..Len(q) : q[j][1] = g) /\ (\A j \in 1..Len(r) : r[j][1] = g)
    BY <1>9, <2>3, <2>4 DEF Inputs
  <2>6. PICK k \in Nat : k = c + n
    BY <1>11
  <2>7. /\ q = crcIn' /\ Placed(q, k) /\ k = CrcDone'
        /\ CrcDone' \in Nat /\ RndDone' \in Nat /\ d = RndDone'
    BY <1>9, <1>11, <2>2, <2>6
  <2> QED  BY <2>1, <2>3, <2>4, <2>5, <2>7, InputsNext
<1>13. CrcCounter'
  <2>1. PICK s \in CrcState : s = done
    BY <1>1
  <2>2. PICK t : t = [count |-> s.count, bytes |-> s.bytes, msgs |-> <<>>]
    OBVIOUS
  <2>3. PICK k \in Nat : k = c + n
    BY <1>11
  <2>4. CrcCounts(t, k)
    BY <1>8, <2>1, <2>2, <2>3 DEF CrcCounts
  <2>5. t = [count |-> crcCount', bytes |-> crcBytes', msgs |-> <<>>]
    BY <1>2, <2>1, <2>2
  <2>6. PICK m, sz : m = s.count /\ sz = size /\ m = crcCount' /\ sz = crcSize'
    BY <1>2, <2>1
  <2>7. \A g : Within(k, g, m) /\ m > 0 => sz = len[g]
    <3>1. n \in 1..n
      BY <1>1
    <3>2. PICK h, i : At(h, i, k) /\ size = len[h]
      BY <3>1, <1>6, <2>3
    <3>3. ASSUME NEW g, Within(k, g, m), m > 0
          PROVE  g = h
      BY <3>2, <3>3, <1>3, LastItem
    <3>4. sz = size
      BY <2>6
    <3> QED  BY <3>2, <3>3, <3>4
  <2> QED  BY <2>3, <2>4, <2>5, <2>6, <2>7, <1>2, <1>11, CrcCounterNext
<1>14. RndCounter'
  <2>1. PICK d : d = RndDone' /\ d = RndDone
    BY <1>11
  <2>2. PICK s : s = [count |-> rndCount, lfsr |-> lfsr, out |-> <<>>]
    OBVIOUS
  <2>3. s = [count |-> rndCount', lfsr |-> lfsr', out |-> <<>>]
    BY <1>2, <2>2
  <2>4. RndCounts(s, d) /\ \A g : Within(d, g, rndCount) /\ rndCount > 0 => rndSize = len[g]
    BY <2>1, <2>2 DEF RndCounter
  <2>5. PICK m, sz : m = rndCount /\ sz = rndSize
    OBVIOUS
  <2>6. len' = len /\ m = rndCount' /\ sz = rndSize'
    BY <1>2, <2>5
  <2> QED  BY <2>1, <2>3, <2>4, <2>5, <2>6, RndCounterNext
<1>15. ASSUME source = "spaced"
       PROVE  /\ nextFrame - 1 \in Frames
              /\ crcMsgs' = crcMsgs \o IF CrcDone + n = Sent THEN <<BytesOf(nextFrame - 1)>>
                                       ELSE <<>>
  <2>1. \A j \in 1..n : crcIn[j][1] = nextFrame - 1
    <3>1. \A j \in 1..n : j \in 1..Len(crcIn)
      OBVIOUS
    <3> QED  BY <3>1, <1>15 DEF Inputs
  <2>2. 1 \in 1..n
    BY <1>1
  <2>3. PICK g \in Frames : g = nextFrame - 1
    BY <2>1, <2>2, <1>6 DEF At
  <2>4. \A j \in 1..n : crcIn[j][1] = g
    BY <2>1, <2>3
  <2>5. c < Starts[g]
    BY <1>1, <1>4, <2>3 DEF Sent
  <2>6. CRCStates(size, start, n)[n].msgs = IF c + n = Starts[g] THEN <<BytesOf(g)>> ELSE <<>>
    <3>1. /\ len \in [Frames -> Lengths] /\ size \in Lengths /\ start \in CrcState
          /\ n \in Nat /\ CrcCounts(start, c) /\ start.msgs = <<>>
      BY <1>1, <1>3, <1>7
    <3> QED  BY <3>1, <1>6, <2>4, <2>5, CRCLoopMessages
  <2> QED  BY <1>2, <1>4, <2>3, <2>6 DEF Sent
<1> QED  BY <1>4, <1>10, <1>11, <1>12, <1>13, <1>14, <1>15

LEMMA RandomizeInputs ==
  ASSUME PathTypes, Inputs, CrcCounter, RndCounter, Regular,
         NEW n \in 1..Len(rndIn), RandomizeWork(n)
  PROVE  /\ Inputs' /\ CrcCounter' /\ RndCounter'
         /\ RndDone' = RndDone + n /\ CrcDone' = CrcDone /\ Sent' = Sent
         /\ RndDone \in Nat /\ RndDone + n <= Sent
         /\ \E more \in Seq(Nibble) :
              nibbles' = nibbles \o more /\ Len(more) = 2 * n /\ NibblesPlaced(more, 2 * RndDone)
<1> DEFINE size  == TaggedSize(Head(rndIn), rndSize)
           start == [count |-> rndCount, lfsr |-> lfsr, out |-> <<>>]
           done  == RandomizeStates(size, start, n)[n]
<1>1. /\ rndIn \in Seq(Byte) /\ n \in Nat /\ n \in 0..Len(rndIn) /\ Len(rndIn) \in Nat
      /\ size \in Lengths /\ start \in RndState /\ done \in RndState /\ start.out = <<>>
  BY RandomizeTyped
<1>2. /\ rndIn' = SubSeq(rndIn, n + 1, Len(rndIn)) /\ rndSize' = size
      /\ rndCount' = done.count /\ lfsr' = done.lfsr /\ nibbles' = nibbles \o done.out
      /\ UNCHANGED <<source, len, nextFrame, crcIn, crcSize, crcCount, crcBytes>>
  BY DEF RandomizeWork, given, crcVars
<1>3. /\ len \in [Frames -> Lengths] /\ nextFrame - 1 \in 0..NFrames /\ Sent \in Nat
      /\ Len(crcIn) \in Nat
  BY SentTyped
<1>4. PICK c \in Nat : c = RndDone /\ Placed(rndIn, c) /\ c + Len(rndIn) = Sent
  <2>1. RndDone \in Nat /\ Placed(rndIn, RndDone)
    BY DEF Inputs
  <2>2. RndDone + Len(rndIn) = Sent
    BY <2>1, <1>1, <1>3 DEF RndDone
  <2> QED  BY <2>1, <2>2
<1>5. PICK f : Within(c, f, rndCount) /\ (rndCount > 0 => rndSize = len[f])
  <2>1. PICK f : Within(RndDone, f, start.count)
    BY DEF RndCounter, RndCounts
  <2>2. Within(c, f, rndCount)
    BY <2>1, <1>4
  <2> QED  BY <2>2, <1>4 DEF RndCounter
<1>6. \A j \in 1..n : /\ rndIn[j] \in Byte /\ At(rndIn[j][1], rndIn[j][2], c + j)
                      /\ size = len[rndIn[j][1]]
  <2>1. SameSizes /\ (source = "spaced" => \A j \in 1..Len(rndIn) : rndIn[j][1] = nextFrame - 1)
    BY DEF Inputs
  <2>2. rndSize \in Lengths
    BY DEF PathTypes
  <2>3. \A j \in 1..n : /\ rndIn[j] \in Byte /\ At(rndIn[j][1], rndIn[j][2], c + j)
                        /\ TaggedSize(Head(rndIn), rndSize) = len[rndIn[j][1]]
    BY <1>1, <1>4, <1>5, <2>1, <2>2, CallItems
  <2> QED  BY <2>3
<1>7. RndCounts(start, c)
  BY <1>4 DEF RndCounter
<1> HIDE DEF start, size
<1>8. RndCounts(done, c + n) /\ NibblesPlaced(done.out, 2 * c) /\ Len(done.out) = 2 * n
  BY <1>1, <1>3, <1>4, <1>6, <1>7, RandomizeLoop
<1>9. PICK q \in Seq(Byte) :
        /\ q = rndIn' /\ Placed(q, c + n) /\ Len(q) = Len(rndIn) - n
        /\ \A j \in 1..Len(q) : n + j \in 1..Len(rndIn) /\ q[j] = rndIn[n + j]
  BY <1>1, <1>2, <1>4, PlacedDrop
<1>10. Sent' = Sent
  <2>1. Starts' = Starts
    BY <1>2, PlacesStay
  <2> QED  BY <2>1, <1>2 DEF Sent
<1>11. RndDone' = c + n /\ CrcDone' = CrcDone /\ c + n \in Nat /\ c + n <= Sent
  <2>1. RndDone' = Sent - Len(q) /\ CrcDone' = Sent - Len(crcIn)
    BY <1>2, <1>9, <1>10 DEF CrcDone, RndDone
  <2>2. Len(q) \in Nat
    OBVIOUS
  <2>3. Sent - Len(q) = c + n /\ c + n \in Nat /\ c + n <= Sent
    <3>1. /\ Len(q) = Len(rndIn) - n /\ c + Len(rndIn) = Sent
          /\ n \in Nat /\ n \in 0..Len(rndIn) /\ Len(rndIn) \in Nat
      BY <1>1, <1>4, <1>9
    <3> QED  BY <3>1, <2>2
  <2> QED  BY <2>1, <2>3 DEF CrcDone
<1>12. Inputs'
  <2>1. SameSizes /\ len' = len /\ source' = source
    BY <1>2 DEF Inputs
  <2>2. PICK d : d = CrcDone' /\ d = CrcDone /\ d \in Nat
    BY <1>11 DEF Inputs
  <2>3. PICK r : r = crcIn' /\ r = crcIn /\ Placed(r, d)
    BY <1>2, <2>2 DEF Inputs
  <2>4. PICK g : g = nextFrame' - 1 /\ g = nextFrame - 1
    BY <1>2
  <2>5. source = "spaced" => (\A j \in 1..Len(q) : q[j][1] = g) /\ (\A j \in 1..Len(r) : r[j][1] = g)
    BY <1>9, <2>3, <2>4 DEF Inputs
  <2>6. PICK k \in Nat : k = c + n
    BY <1>11
  <2>7. /\ q = rndIn' /\ Placed(q, k) /\ k = RndDone'
        /\ CrcDone' \in Nat /\ RndDone' \in Nat /\ d = CrcDone'
    BY <1>9, <1>11, <2>2, <2>6
  <2> QED  BY <2>1, <2>3, <2>4, <2>5, <2>7, InputsNext
<1>13. RndCounter'
  <2>1. PICK s \in RndState : s = done
    BY <1>1
  <2>2. PICK t : t = [count |-> s.count, lfsr |-> s.lfsr, out |-> <<>>]
    OBVIOUS
  <2>3. PICK k \in Nat : k = c + n
    BY <1>11
  <2>4. RndCounts(t, k)
    BY <1>8, <2>1, <2>2, <2>3 DEF RndCounts
  <2>5. t = [count |-> rndCount', lfsr |-> lfsr', out |-> <<>>]
    BY <1>2, <2>1, <2>2
  <2>6. PICK m, sz : m = s.count /\ sz = size /\ m = rndCount' /\ sz = rndSize'
    BY <1>2, <2>1
  <2>7. \A g : Within(k, g, m) /\ m > 0 => sz = len[g]
    <3>1. n \in 1..n
      BY <1>1
    <3>2. PICK h, i : At(h, i, k) /\ size = len[h]
      BY <3>1, <1>6, <2>3
    <3>3. ASSUME NEW g, Within(k, g, m), m > 0
          PROVE  g = h
      BY <3>2, <3>3, <1>3, LastItem
    <3>4. sz = size
      BY <2>6
    <3> QED  BY <3>2, <3>3, <3>4
  <2> QED  BY <2>3, <2>4, <2>5, <2>6, <2>7, <1>2, <1>11, RndCounterNext
<1>14. CrcCounter'
  <2>1. PICK d : d = CrcDone' /\ d = CrcDone
    BY <1>11
  <2>2. PICK s : s = [count |-> crcCount, bytes |-> crcBytes, msgs |-> <<>>]
    OBVIOUS
  <2>3. s = [count |-> crcCount', bytes |-> crcBytes', msgs |-> <<>>]
    BY <1>2, <2>2
  <2>4. CrcCounts(s, d) /\ \A g : Within(d, g, crcCount) /\ crcCount > 0 => crcSize = len[g]
    BY <2>1, <2>2 DEF CrcCounter
  <2>5. PICK m, sz : m = crcCount /\ sz = crcSize
    OBVIOUS
  <2>6. len' = len /\ m = crcCount' /\ sz = crcSize'
    BY <1>2, <2>5
  <2> QED  BY <2>1, <2>3, <2>4, <2>5, <2>6, CrcCounterNext
<1>15. \E more \in Seq(Nibble) :
         nibbles' = nibbles \o more /\ Len(more) = 2 * n /\ NibblesPlaced(more, 2 * RndDone)
  <2>1. done.out \in Seq(Nibble)
    BY <1>1 DEF RndState
  <2> QED  BY <2>1, <1>2, <1>4, <1>8
<1> QED  BY <1>4, <1>10, <1>11, <1>12, <1>13, <1>14, <1>15

(* The other steps leave both blocks alone.                                *)
LEMMA InputsUntouched ==
  ASSUME Inputs, CrcCounter, RndCounter,
         UNCHANGED <<source, len, nextFrame, crcIn, crcSize, crcCount, crcBytes, rndIn, rndSize,
                     rndCount, lfsr>>
  PROVE  /\ Inputs' /\ CrcCounter' /\ RndCounter'
         /\ Sent' = Sent /\ CrcDone' = CrcDone /\ RndDone' = RndDone
<1>1. Starts' = Starts
  BY PlacesStay
<1>2. Sent' = Sent
  BY <1>1 DEF Sent
<1>3. CrcDone' = CrcDone /\ RndDone' = RndDone
  BY <1>2 DEF CrcDone, RndDone
<1>4. PICK q, c, r, d, g : /\ q = crcIn' /\ c = CrcDone' /\ r = rndIn' /\ d = RndDone'
                           /\ g = nextFrame' - 1
  OBVIOUS
<1>5. /\ q = crcIn /\ c = CrcDone /\ r = rndIn /\ d = RndDone /\ g = nextFrame - 1
      /\ c \in Nat /\ d \in Nat
  BY <1>3, <1>4 DEF Inputs
<1>6. Inputs'
  <2>1. SameSizes /\ Placed(q, c) /\ Placed(r, d)
    BY <1>5 DEF Inputs
  <2>2. source = "spaced" => (\A j \in 1..Len(q) : q[j][1] = g) /\ (\A j \in 1..Len(r) : r[j][1] = g)
    BY <1>5 DEF Inputs
  <2> QED  BY <1>4, <1>5, <2>1, <2>2, InputsNext
<1>7. CrcCounter'
  <2>1. PICK s : s = [count |-> crcCount, bytes |-> crcBytes, msgs |-> <<>>]
    OBVIOUS
  <2>2. s = [count |-> crcCount', bytes |-> crcBytes', msgs |-> <<>>]
    BY <2>1
  <2>3. CrcCounts(s, c) /\ \A f : Within(c, f, crcCount) /\ crcCount > 0 => crcSize = len[f]
    BY <2>1, <1>5 DEF CrcCounter
  <2>4. PICK m, sz : m = crcCount /\ sz = crcSize
    OBVIOUS
  <2>5. m = crcCount' /\ sz = crcSize'
    BY <2>4
  <2> QED  BY <2>2, <2>3, <2>4, <2>5, <1>4, CrcCounterNext
<1>8. RndCounter'
  <2>1. PICK s : s = [count |-> rndCount, lfsr |-> lfsr, out |-> <<>>]
    OBVIOUS
  <2>2. s = [count |-> rndCount', lfsr |-> lfsr', out |-> <<>>]
    BY <2>1
  <2>3. RndCounts(s, d) /\ \A f : Within(d, f, rndCount) /\ rndCount > 0 => rndSize = len[f]
    BY <2>1, <1>5 DEF RndCounter
  <2>4. PICK m, sz : m = rndCount /\ sz = rndSize
    OBVIOUS
  <2>5. m = rndCount' /\ sz = rndSize'
    BY <2>4
  <2> QED  BY <2>2, <2>3, <2>4, <2>5, <1>4, RndCounterNext
<1> QED  BY <1>2, <1>3, <1>6, <1>7, <1>8
-----------------------------------------------------------------------------
(* The nibbles on their way into frames.                                   *)

(* 2 * FrameStart nibbles are in the frames written; the body of the next  *)
(* one and the input of the controller follow in the nibbles' places.      *)
FrameStart == Starts[Len(frames)]

Written ==
  /\ Len(frames) \in 0..NFrames
  /\ 2 * FrameStart + Len(body) + Len(nibbles) = 2 * RndDone
  /\ NibblesPlaced(body, 2 * FrameStart)
  /\ NibblesPlaced(nibbles, 2 * FrameStart + Len(body))
  /\ currentState = "sendingHeader" => body = <<>>
  /\ currentState = "sendingPayload" =>
       /\ Len(frames) + 1 \in Frames /\ Len(body) = HeaderRoom(P)
       /\ frame.len = payloadSize /\ payloadSize = len[Len(frames) + 1]
  /\ source = "spaced" => nextFrame <= Len(frames) + 2

LEMMA NibblesConcat ==
  ASSUME NEW q \in Seq(Nibble), NEW r \in Seq(Nibble), NEW c \in Nat,
         NibblesPlaced(q, c), NibblesPlaced(r, c + Len(q))
  PROVE  NibblesPlaced(q \o r, c)
<1> DEFINE t == q \o r
<1>1. /\ Len(t) = Len(q) + Len(r) /\ Len(q) \in Nat /\ Len(r) \in Nat
      /\ \A i \in 1..Len(q) : t[i] = q[i]
      /\ \A i \in 1..Len(r) : t[Len(q) + i] = r[i]
  BY ConcatAt
<1> HIDE DEF t
<1>2. ASSUME NEW j \in 1..Len(t)
      PROVE  NibbleAt(t[j], c + j)
  <2>1. CASE j \in 1..Len(q)
    BY <2>1, <1>1 DEF NibblesPlaced
  <2>2. CASE j \notin 1..Len(q)
    <3>1. j \in Nat /\ j > Len(q) /\ j - Len(q) \in Nat
      BY <2>2, <1>1, <1>2
    <3>2. PICK i \in Nat : i = j - Len(q)
      BY <3>1
    <3>3. i \in 1..Len(r) /\ Len(q) + i = j /\ (c + Len(q)) + i = c + j
      BY <3>1, <3>2, <1>1, <1>2
    <3>4. NibbleAt(r[i], (c + Len(q)) + i)
      BY <3>3 DEF NibblesPlaced
    <3>5. t[j] = r[i]
      BY <3>3, <1>1
    <3> QED  BY <3>3, <3>4, <3>5
  <2> QED  BY <2>1, <2>2
<1> QED  BY <1>2 DEF NibblesPlaced, t

(* A call takes the first k.                                               *)
LEMMA NibblesTaken ==
  ASSUME NEW q \in Seq(Nibble), NEW c \in Nat, NibblesPlaced(q, c), NEW k \in 0..Len(q)
  PROVE  /\ SubSeq(q, 1, k) \in Seq(Nibble) /\ Len(SubSeq(q, 1, k)) = k
         /\ NibblesPlaced(SubSeq(q, 1, k), c)
         /\ SubSeq(q, k + 1, Len(q)) \in Seq(Nibble)
         /\ Len(SubSeq(q, k + 1, Len(q))) = Len(q) - k
         /\ NibblesPlaced(SubSeq(q, k + 1, Len(q)), c + k)
<1> DEFINE a == SubSeq(q, 1, k)
           b == SubSeq(q, k + 1, Len(q))
<1>1. a \in Seq(Nibble) /\ Len(a) = k /\ \A i \in 1..k : a[i] = q[i]
  BY TakeFirst
<1>2. b \in Seq(Nibble) /\ Len(b) = Len(q) - k /\ \A i \in 1..Len(b) : b[i] = q[k + i]
  BY DropFirst
<1> HIDE DEF a, b
<1>3. k \in Nat /\ Len(q) \in Nat
  OBVIOUS
<1>4. NibblesPlaced(a, c)
  <2>1. \A i \in 1..k : i \in 1..Len(q)
    BY <1>3
  <2> QED  BY <2>1, <1>1 DEF NibblesPlaced
<1>5. NibblesPlaced(b, c + k)
  <2>1. ASSUME NEW i \in 1..Len(b)
        PROVE  NibbleAt(b[i], (c + k) + i)
    <3>1. k + i \in 1..Len(q) /\ c + (k + i) = (c + k) + i
      BY <2>1, <1>2, <1>3
    <3>2. NibbleAt(q[k + i], c + (k + i))
      BY <3>1 DEF NibblesPlaced
    <3>3. b[i] = q[k + i]
      BY <2>1, <1>2
    <3> QED  BY <3>1, <3>2, <3>3
  <2> QED  BY <2>1 DEF NibblesPlaced
<1> QED  BY <1>1, <1>2, <1>4, <1>5 DEF a, b

(* Half of an even or odd number.                                          *)
LEMMA Half ==
  ASSUME NEW m \in Nat
  PROVE  (2 * m) \div 2 = m /\ (2 * m + 1) \div 2 = m
OBVIOUS

(* All nibbles of a frame, in their places, are the frame's.               *)
LEMMA WholeFrameNibbles ==
  ASSUME len \in [Frames -> Lengths], NEW j \in Frames, NEW w \in Seq(Nibble),
         Len(w) = 2 * len[j], NibblesPlaced(w, 2 * Starts[j - 1])
  PROVE  w = NibblesOf(j)
<1>1. PICK n \in Nat : n = len[j] /\ n > 0
  BY LengthsTyped
<1>2. PICK s \in Nat : s = Starts[j - 1]
  <2>1. j - 1 \in 0..NFrames
    BY SizesTyped DEF Frames
  <2> QED  BY <2>1, StartsUnfold
<1>3. ASSUME NEW q \in 1..(2 * n)
      PROVE  w[q] = <<j, (q + 1) \div 2, (q + 1) \div 2>> /\ (q + 1) \div 2 \in Nat
  <2>1. NibbleAt(w[q], 2 * s + q)
    BY <1>1, <1>2 DEF NibblesPlaced
  <2>2. PICK f, i, b : At(f, i, b) /\ w[q] = <<f, i, i>>
                       /\ (2 * s + q = 2 * b - 1 \/ 2 * s + q = 2 * b)
    BY <2>1 DEF NibbleAt
  <2>3. b \in Nat
    BY <2>2, PlaceTyped
  <2>4. b - s \in Nat /\ b - s \in 1..n
    BY <2>2, <2>3, <1>1
  <2>5. PICK m \in Nat : m = b - s /\ m \in 1..n
    BY <2>4
  <2>6. (q + 1) \div 2 = m
    <3>1. q + 1 = 2 * m \/ q + 1 = 2 * m + 1
      BY <2>2, <2>3, <2>5
    <3> QED  BY <3>1, Half
  <2>7. At(j, m, b)
    <3>1. b = s + m
      BY <2>3, <2>5
    <3> QED  BY <3>1, <2>5, <1>1, <1>2 DEF At
  <2>8. f = j /\ i = m
    BY <2>2, <2>7, SamePlace
  <2> QED  BY <2>2, <2>6, <2>8
<1>4. NibblesOf(j) \in [1..(2 * n) -> Nibble]
  BY <1>1, <1>3 DEF NibblesOf, Nibble
<1>5. 2 * n \in Nat
  BY <1>1
<1>6. NibblesOf(j) \in Seq(Nibble) /\ Len(NibblesOf(j)) = 2 * n
  BY <1>4, <1>5, FunctionIsSeq
<1>7. \A q \in 1..Len(w) : w[q] = NibblesOf(j)[q]
  BY <1>1, <1>3 DEF NibblesOf
<1> QED  BY <1>1, <1>6, <1>7, SameSeq

(* The first nibble waiting before a header is the first of the next frame.*)
LEMMA FirstNibble ==
  ASSUME PathTypes, Len(frames) \in 0..NFrames, Len(nibbles) > 0,
         NibblesPlaced(nibbles, 2 * FrameStart)
  PROVE  /\ Len(frames) + 1 \in Frames /\ Head(nibbles) = <<Len(frames) + 1, 1, 1>>
         /\ SizeTag = <<len[Len(frames) + 1]>> /\ HeaderSize = len[Len(frames) + 1]
<1>1. PICK g \in Nat : g = Len(frames) + 1 /\ g - 1 = Len(frames) /\ g \in 1..(NFrames + 1)
  <2>1. PICK h \in Nat : h = Len(frames) /\ h \in 0..NFrames /\ NFrames \in Nat
    BY SizesTyped
  <2> QED  BY <2>1
<1>2. len \in [Frames -> Lengths] /\ nibbles \in Seq(Nibble)
  BY DEF PathTypes
<1>3. PICK s \in Nat : s = FrameStart /\ s = Starts[g - 1]
  BY <1>1, <1>2, StartsUnfold DEF FrameStart
<1>4. nibbles # <<>> /\ Head(nibbles) = nibbles[1] /\ 1 \in 1..Len(nibbles)
  BY <1>2
<1>5. NibbleAt(nibbles[1], 2 * s + 1)
  BY <1>3, <1>4 DEF NibblesPlaced
<1>6. PICK f, i, b : At(f, i, b) /\ nibbles[1] = <<f, i, i>>
                     /\ (2 * s + 1 = 2 * b - 1 \/ 2 * s + 1 = 2 * b)
  BY <1>5 DEF NibbleAt
<1>7. b = s + 1
  <2>1. b \in Nat
    BY <1>2, <1>6, PlaceTyped
  <2> QED  BY <2>1, <1>6
<1>8. Within(s, g, 0)
  <2>1. g \in Frames => 0 < len[g]
    BY <1>2, LengthsTyped
  <2> QED  BY <2>1, <1>1, <1>3 DEF Within
<1>9. g \in Frames /\ f = g /\ i = 0 + 1
  BY <1>2, <1>6, <1>7, <1>8, NextPlace
<1>10. Head(nibbles) = <<g, 1, 1>>
  BY <1>4, <1>6, <1>9
<1>11. SizeTag = <<len[g]>>
  BY <1>4, <1>10 DEF SizeTag
<1>12. HeaderSize = len[g]
  BY <1>2, <1>9, <1>11, LengthsTyped, SizeTagTyped
<1> QED  BY <1>1, <1>9, <1>10, <1>11, <1>12

LEMMA NibblesCounted ==
  ASSUME NEW n \in Nat
  PROVE  TC!NNibbles(P, n) \in Nat
<1>1. (IF P.crc THEN TC!CRCSize ELSE 0) \in Nat
  BY DEF TC!CRCSize
<1> QED  BY <1>1 DEF TC!NNibbles

(* The header announces the length of a frame of the path.                 *)
LEMMA AnnouncedByte ==
  ASSUME NEW n \in Lengths
  PROVE  TC!HeaderOf(P, n).len = n
<1>1. n \in Nat /\ n <= 255
  BY SizesTyped
<1>2. (n \div 16) % 16 = n \div 16 /\ n = (n \div 16) * 16 + (n % 16)
  <2>1. n \div 16 \in Nat /\ n % 16 \in 0..15 /\ n = (n \div 16) * 16 + (n % 16)
    BY <1>1, DivMod
  <2>2. n \div 16 \in 0..15
    BY <1>1, <2>1
  <2>3. (0 * 16 + n \div 16) % 16 = n \div 16
    BY <2>2, RemainderOf
  <2>4. 0 * 16 + n \div 16 = n \div 16
    BY <2>2
  <2> QED  BY <2>1, <2>3, <2>4
<1>3. n \div 16 \in Nat /\ n % 16 \in Nat
  BY <1>1, DivMod
<1>4. 16 * (n \div 16) + (n % 16) = n
  BY <1>2, <1>3
<1> QED  BY <1>2, <1>4 DEF TC!HeaderOf

(* A call of the controller that starts a frame ...                        *)
LEMMA HeaderCall ==
  ASSUME PathInv, Filled, HeaderRoom(P) > 0, Written, NEW k \in 0..Len(nibbles),
         nibbles' = SubSeq(nibbles, k + 1, Len(nibbles)), TC!SendHeader(SizeTag, <<>>),
         fault' = "none"
  PROVE  /\ currentState = "sendingHeader" /\ Len(frames) + 1 \in Frames
         /\ payloadSize' = len[Len(frames) + 1] /\ frame'.len = len[Len(frames) + 1]
         /\ frame'.crcs = <<>> \/ frame'.crcs = <<crc>>
         /\ \/ /\ frame'.done = TRUE /\ k = 2 * len[Len(frames) + 1]
               /\ currentState' = "sendingHeader"
            \/ /\ frame'.done = FALSE /\ k = HeaderRoom(P)
               /\ currentState' = "sendingPayload"
<1> DEFINE fits == TC!NNibbles(P, HeaderSize) <= TC!HeaderRoom(P)
           used == IF fits THEN 2 * HeaderSize ELSE TC!HeaderRoom(P)
<1>1. PathTypes /\ params = P
  BY DEF PathInv, PathTypes
<1>2. /\ currentState = "sendingHeader" /\ Len(nibbles) >= TC!HeaderForecast(P, payloadSize)
      /\ payloadSize' = HeaderSize /\ TC!Consume(used)
      /\ currentState' = IF fits THEN "sendingHeader" ELSE "sendingPayload"
  BY <1>1 DEF TC!SendHeader, HeaderSize
<1>3. PICK a, b, c, d, t :
        frame' = [p |-> a, len |-> headerNibbles'.len, payload |-> b, written |-> c,
                  crcs |-> IF fits /\ d THEN <<crc>> ELSE <<>>, done |-> fits,
                  tagged |-> t, resized |-> FALSE]
  BY <1>1, Zenon DEF TC!SendHeader, HeaderSize
<1>4. /\ frame'.len = HeaderSize /\ frame'.done = fits
      /\ frame'.crcs = IF fits /\ d THEN <<crc>> ELSE <<>>
  <2>1. headerNibbles' = TC!HeaderOf(P, HeaderSize)
    BY <1>1, Zenon DEF TC!SendHeader, TC!CalculateConstants, HeaderSize
  <2>2. headerNibbles'.len = HeaderSize
    BY <1>1, <2>1, SizeTagTyped, AnnouncedByte
  <2> QED  BY <1>3, <2>2, Zenon
<1>5. HeaderRoom(P) \in Nat /\ TC!HeaderRoom(P) = HeaderRoom(P)
  BY SizesTyped DEF HeaderRoom, TC!HeaderRoom
<1> HIDE DEF fits
<1>6. Len(nibbles) \in Nat /\ Len(nibbles) >= HeaderRoom(P)
  <2>1. 2 * payloadSize >= HeaderRoom(P) /\ payloadSize \in Nat
    BY <1>1, SizesTyped DEF Filled, PathTypes
  <2>2. PICK e \in Nat : TC!HeaderForecast(P, payloadSize)
          = IF 2 * payloadSize + e < HeaderRoom(P) THEN 2 * payloadSize + e ELSE HeaderRoom(P)
    <3>1. (IF P.crc THEN TC!CRCSize ELSE 0) \in Nat
      BY DEF TC!CRCSize
    <3> QED  BY <3>1, <1>5 DEF TC!HeaderForecast
  <2>3. Len(nibbles) \in Nat
    BY <1>1 DEF PathTypes
  <2> QED  BY <2>1, <2>2, <2>3, <1>2, <1>5
<1>7. /\ Len(frames) + 1 \in Frames /\ HeaderSize = len[Len(frames) + 1]
  <2>1. body = <<>> /\ Len(frames) \in 0..NFrames
    BY <1>2 DEF Written
  <2>2. NibblesPlaced(nibbles, 2 * FrameStart)
    <3>1. FrameStart \in Nat
      BY <1>1, <2>1, StartsUnfold DEF FrameStart, PathTypes
    <3>2. Len(body) = 0
      BY <2>1
    <3>3. 2 * FrameStart + Len(body) = 2 * FrameStart
      BY <3>1, <3>2
    <3> QED  BY <3>3 DEF Written
  <2>3. Len(nibbles) > 0
    BY <1>5, <1>6
  <2> QED  BY <1>1, <2>1, <2>2, <2>3, FirstNibble
<1>8. PICK n \in Nat : n = HeaderSize /\ n \in Lengths
  BY <1>1, SizeTagTyped, SizesTyped
<1>9. 2 * n >= HeaderRoom(P)
  BY <1>8 DEF Filled
<1>10. fits => 2 * n <= HeaderRoom(P)
  <2>1. PICK e \in Nat : TC!NNibbles(P, n) = 2 * (n + e)
    <3>1. (IF P.crc THEN TC!CRCSize ELSE 0) \in Nat
      BY DEF TC!CRCSize
    <3> QED  BY <3>1 DEF TC!NNibbles
  <2> QED  BY <2>1, <1>5, <1>8 DEF fits
<1>11. k = used
  <2>1. used \in Nat /\ used <= Len(nibbles)
    BY <1>5, <1>6, <1>8, <1>10
  <2>2. Len(nibbles') = Len(nibbles) - used
    BY <2>1, <1>2 DEF TC!Consume
  <2>3. Len(nibbles') = Len(nibbles) - k
    BY <1>1, DropFirst DEF PathTypes
  <2> QED  BY <2>1, <2>2, <2>3, <1>6
<1>12. CASE fits
  <2>1. k = 2 * len[Len(frames) + 1] /\ currentState' = "sendingHeader"
    BY <1>2, <1>7, <1>11, <1>12
  <2>2. frame'.done = TRUE /\ (frame'.crcs = <<>> \/ frame'.crcs = <<crc>>)
    <3>1. fits = TRUE
      <4>1. PICK x \in Nat, y \in Nat : x = TC!NNibbles(P, HeaderSize) /\ y = HeaderRoom(P)
        BY <1>5, <1>8, NibblesCounted
      <4>2. (x <= y) \in BOOLEAN
        OBVIOUS
      <4>3. fits \in BOOLEAN
        BY <4>1, <4>2, <1>5 DEF fits
      <4> QED  BY <4>3, <1>12, Zenon
    <3> QED  BY <1>4, <3>1, Zenon
  <2> QED  BY <1>2, <1>4, <1>7, <2>1, <2>2
<1>13. CASE ~fits
  <2>1. k = HeaderRoom(P) /\ currentState' = "sendingPayload"
    BY <1>2, <1>5, <1>11, <1>13
  <2>2. frame'.done = FALSE /\ frame'.crcs = <<>>
    <3>1. fits = FALSE
      <4>1. PICK x \in Nat, y \in Nat : x = TC!NNibbles(P, HeaderSize) /\ y = HeaderRoom(P)
        BY <1>5, <1>8, NibblesCounted
      <4>2. (x <= y) \in BOOLEAN
        OBVIOUS
      <4>3. fits \in BOOLEAN
        BY <4>1, <4>2, <1>5 DEF fits
      <4> QED  BY <4>3, <1>13, Zenon
    <3> QED  BY <1>4, <1>13, <3>1, Zenon
  <2> QED  BY <1>2, <1>4, <1>7, <2>1, <2>2
<1> QED  BY <1>12, <1>13

(* ... and one that ends it.                                               *)
LEMMA PayloadCall ==
  ASSUME PathInv, StartInv, Filled, Written, NEW k \in 0..Len(nibbles),
         nibbles' = SubSeq(nibbles, k + 1, Len(nibbles)), TC!SendPayload
  PROVE  /\ currentState = "sendingPayload" /\ currentState' = "sendingHeader"
         /\ Len(frames) + 1 \in Frames
         /\ payloadSize' = payloadSize /\ frame'.len = len[Len(frames) + 1]
         /\ frame'.crcs = <<>> \/ frame'.crcs = <<crc>>
         /\ frame'.done = TRUE /\ Len(body) + k = 2 * len[Len(frames) + 1]
<1>1. PathTypes /\ params = P
  BY DEF PathInv, PathTypes
<1>2. /\ currentState = "sendingPayload" /\ currentState' = "sendingHeader"
      /\ payloadSize' = payloadSize
      /\ Len(nibbles') = Len(nibbles) - (2 * payloadSize - TC!HeaderRoom(P))
  BY <1>1 DEF TC!SendPayload
<1>3. /\ Len(frames) + 1 \in Frames /\ Len(body) = HeaderRoom(P)
      /\ frame.len = payloadSize /\ payloadSize = len[Len(frames) + 1]
  BY <1>2 DEF Written
<1>4. PICK p, n, u, w, cs, dn, t, rs :
        frame = [p |-> p, len |-> n, payload |-> u, written |-> w, crcs |-> cs,
                 done |-> dn, tagged |-> t, resized |-> rs]
  BY Zenon DEF StartInv, StartTypes, IsFrame
<1>5. PICK a, b, c : /\ frame' = [frame EXCEPT !.payload = a, !.written = b, !.crcs = c, !.done = TRUE]
                     /\ c = <<>> \/ c = <<crc>>
  BY <1>1, Zenon DEF TC!SendPayload
<1>6. frame' = [p |-> p, len |-> n, payload |-> a, written |-> b, crcs |-> c,
                done |-> TRUE, tagged |-> t, resized |-> rs]
  BY <1>4, <1>5
<1>7. frame'.len = frame.len /\ frame'.crcs = c /\ frame'.done = TRUE
  BY <1>4, <1>6, Zenon
<1>8. HeaderRoom(P) \in Nat /\ TC!HeaderRoom(P) = HeaderRoom(P)
  BY SizesTyped DEF HeaderRoom, TC!HeaderRoom
<1>9. PICK m \in Nat : m = payloadSize
  BY <1>1, SizesTyped DEF PathTypes
<1>10. Len(nibbles') = Len(nibbles) - k /\ Len(nibbles) \in Nat
  <2>1. Len(nibbles') = Len(nibbles) - k
    BY <1>1, DropFirst DEF PathTypes
  <2> QED  BY <2>1, <1>1 DEF PathTypes
<1>11. HeaderRoom(P) + k = 2 * m
  <2>1. PICK h \in Nat, l \in Nat : h = HeaderRoom(P) /\ l = Len(nibbles)
    BY <1>8, <1>10
  <2>2. Len(nibbles') = l - (2 * m - h)
    BY <1>2, <1>8, <1>9, <2>1
  <2>3. Len(nibbles') = l - k
    BY <1>10, <2>1
  <2>4. k \in Nat
    BY <1>10
  <2>5. h + k = 2 * m
    <3>1. l - (2 * m - h) = l - k
      BY <2>2, <2>3
    <3>2. PICK j \in Nat : j = k
      BY <2>4
    <3>3. l - (2 * m - h) = l - j
      BY <3>1, <3>2
    <3>4. h + j = 2 * m
      BY <3>3
    <3> QED  BY <3>2, <3>4
  <2> QED  BY <2>1, <2>5
<1> QED  BY <1>2, <1>3, <1>5, <1>7, <1>9, <1>11

LEMMA WrittenNext ==
  ASSUME len' = len, NEW s, s = FrameStart', NEW b, b = body', NEW r, r = nibbles',
         NEW x, x = 2 * s, NEW y, y = 2 * s + Len(b),
         Len(frames') \in 0..NFrames, 2 * s + Len(b) + Len(r) = 2 * RndDone',
         NibblesPlaced(b, x), NibblesPlaced(r, y),
         currentState' = "sendingHeader" => b = <<>>,
         currentState' = "sendingPayload" =>
           /\ Len(frames') + 1 \in Frames /\ Len(b) = HeaderRoom(P)
           /\ frame'.len = payloadSize' /\ payloadSize' = len[Len(frames') + 1],
         source' = "spaced" => nextFrame' <= Len(frames') + 2
  PROVE  Written'
<1>1. NibblesPlaced(b, x)' /\ NibblesPlaced(r, y)'
  BY PlacesStay
<1>2. NibblesPlaced(body, 2 * FrameStart)' /\ NibblesPlaced(nibbles, 2 * FrameStart + Len(body))'
  BY <1>1 DEF NibblesPlaced
<1> QED  BY <1>2, Zenon DEF Written

LEMMA PathSequences ==
  ASSUME PathTypes, Written
  PROVE  /\ len \in [Frames -> Lengths] /\ nibbles \in Seq(Nibble) /\ body \in Seq(Nibble)
         /\ Len(nibbles) \in Nat /\ Len(body) \in Nat
         /\ FrameStart \in Nat /\ Len(frames) \in Nat /\ Len(frames) \in 0..NFrames
<1>1. len \in [Frames -> Lengths] /\ nibbles \in Seq(Nibble) /\ body \in Seq(Nibble)
  BY DEF PathTypes
<1>2. Len(frames) \in 0..NFrames
  BY DEF Written
<1>3. FrameStart \in Nat
  BY <1>1, <1>2, StartsUnfold DEF FrameStart
<1> QED  BY <1>1, <1>2, <1>3

(* The steps of the others.                                                *)
LEMMA WrittenArrive ==
  ASSUME PathTypes, Written, UNCHANGED <<len, source, body, frames, frame, currentState,
                                         payloadSize, nextFrame>>,
         NEW n \in Nat, RndDone' = RndDone + n, RndDone \in Nat,
         NEW more \in Seq(Nibble), nibbles' = nibbles \o more, Len(more) = 2 * n,
         NibblesPlaced(more, 2 * RndDone)
  PROVE  Written'
<1>1. /\ len \in [Frames -> Lengths] /\ nibbles \in Seq(Nibble) /\ body \in Seq(Nibble)
      /\ Len(nibbles) \in Nat /\ Len(body) \in Nat /\ FrameStart \in Nat
  BY PathSequences
<1>2. PICK s \in Nat : s = FrameStart
  BY <1>1
<1>3. s = FrameStart'
  BY <1>2, PlacesStay DEF FrameStart
<1>4. PICK y \in Nat : y = 2 * s + Len(body) /\ y + Len(nibbles) = 2 * RndDone
  <2>1. 2 * s + Len(body) + Len(nibbles) = 2 * RndDone
    BY <1>2 DEF Written
  <2>2. PICK y : y = 2 * s + Len(body)
    OBVIOUS
  <2> QED  BY <1>1, <2>1, <2>2
<1>5. PICK r \in Seq(Nibble) : r = nibbles \o more /\ Len(r) = Len(nibbles) + Len(more)
  BY <1>1, ConcatAt
<1>6. NibblesPlaced(r, y)
  <2>1. NibblesPlaced(nibbles, y)
    BY <1>2, <1>4 DEF Written
  <2> QED  BY <2>1, <1>1, <1>4, <1>5, NibblesConcat
<1>7. 2 * s + Len(body) + Len(r) = 2 * RndDone'
  <2>1. y + (Len(nibbles) + 2 * n) = 2 * (RndDone + n)
    <3>1. PICK l \in Nat, d \in Nat : l = Len(nibbles) /\ d = RndDone
      BY <1>1
    <3>2. y + l = 2 * d
      BY <3>1, <1>4
    <3>3. y + (l + 2 * n) = 2 * (d + n)
      BY <3>2
    <3> QED  BY <3>1, <3>3
  <2>2. 2 * s + Len(body) = y
    BY <1>4
  <2>3. Len(r) = Len(nibbles) + 2 * n
    BY <1>5
  <2> QED  BY <2>1, <2>2, <2>3
<1>8. PICK x \in Nat : x = 2 * s
  BY <1>2
<1>9. PICK b \in Seq(Nibble) : b = body
  BY <1>1
<1>10. /\ b = body' /\ r = nibbles' /\ y = 2 * s + Len(b) /\ 2 * s + Len(b) + Len(r) = 2 * RndDone'
       /\ NibblesPlaced(b, x)
  BY <1>2, <1>4, <1>5, <1>7, <1>8, <1>9 DEF Written
<1>11. /\ Len(frames') \in 0..NFrames
       /\ currentState' = "sendingHeader" => b = <<>>
       /\ currentState' = "sendingPayload" =>
            /\ Len(frames') + 1 \in Frames /\ Len(b) = HeaderRoom(P)
            /\ frame'.len = payloadSize' /\ payloadSize' = len[Len(frames') + 1]
       /\ source' = "spaced" => nextFrame' <= Len(frames') + 2
  BY <1>9 DEF Written
<1> QED  BY <1>3, <1>6, <1>8, <1>10, <1>11, WrittenNext

LEMMA WrittenUntouched ==
  ASSUME PathTypes, Written, UNCHANGED <<len, source, body, frames, frame, currentState,
                                         payloadSize, nibbles>>,
         RndDone' = RndDone, source = "spaced" => nextFrame' <= Len(frames) + 2
  PROVE  Written'
<1>1. /\ nibbles \in Seq(Nibble) /\ body \in Seq(Nibble) /\ FrameStart \in Nat
  BY PathSequences
<1>2. PICK s \in Nat, b \in Seq(Nibble), r \in Seq(Nibble) :
        s = FrameStart /\ b = body /\ r = nibbles
  BY <1>1
<1>3. s = FrameStart' /\ b = body' /\ r = nibbles'
  BY <1>2, PlacesStay DEF FrameStart
<1>4. PICK x, y : x = 2 * s /\ y = 2 * s + Len(b)
  OBVIOUS
<1>5. /\ NibblesPlaced(b, x) /\ NibblesPlaced(r, y)
      /\ 2 * s + Len(b) + Len(r) = 2 * RndDone'
      /\ Len(frames') \in 0..NFrames
      /\ currentState' = "sendingHeader" => b = <<>>
      /\ currentState' = "sendingPayload" =>
           /\ Len(frames') + 1 \in Frames /\ Len(b) = HeaderRoom(P)
           /\ frame'.len = payloadSize' /\ payloadSize' = len[Len(frames') + 1]
      /\ source' = "spaced" => nextFrame' <= Len(frames') + 2
  BY <1>2, <1>4 DEF Written
<1> QED  BY <1>3, <1>4, <1>5, WrittenNext

(* A call of the controller leaves the others' nibbles in their places.    *)
LEMMA CallMoves ==
  ASSUME PathTypes, Written, NEW k \in 0..Len(nibbles), 
         nibbles' = SubSeq(nibbles, k + 1, Len(nibbles))
  PROVE  /\ body \o SubSeq(nibbles, 1, k) \in Seq(Nibble)
         /\ Len(body \o SubSeq(nibbles, 1, k)) = Len(body) + k
         /\ NibblesPlaced(body \o SubSeq(nibbles, 1, k), 2 * FrameStart)
         /\ \E r \in Seq(Nibble) :
              /\ r = nibbles' /\ Len(r) = Len(nibbles) - k
              /\ NibblesPlaced(r, (2 * FrameStart + Len(body)) + k)
<1>1. /\ nibbles \in Seq(Nibble) /\ body \in Seq(Nibble) /\ FrameStart \in Nat
      /\ Len(body) \in Nat /\ Len(nibbles) \in Nat
  BY PathSequences
<1>2. PICK x \in Nat, y \in Nat : x = 2 * FrameStart /\ y = 2 * FrameStart + Len(body)
                                  /\ y = x + Len(body)
  <2>1. PICK s \in Nat, l \in Nat : s = FrameStart /\ l = Len(body)
    BY <1>1
  <2>2. 2 * s \in Nat /\ 2 * s + l \in Nat
    OBVIOUS
  <2> QED  BY <2>1, <2>2
<1>3. NibblesPlaced(body, x) /\ NibblesPlaced(nibbles, y)
  BY <1>2 DEF Written
<1>4. PICK a \in Seq(Nibble) : a = SubSeq(nibbles, 1, k) /\ Len(a) = k /\ NibblesPlaced(a, y)
  BY <1>1, <1>2, <1>3, NibblesTaken
<1>5. PICK r \in Seq(Nibble) : r = nibbles' /\ Len(r) = Len(nibbles) - k /\ NibblesPlaced(r, y + k)
  BY <1>1, <1>2, <1>3, NibblesTaken
<1>6. body \o a \in Seq(Nibble) /\ Len(body \o a) = Len(body) + k
  BY <1>1, <1>4, ConcatAt
<1>7. NibblesPlaced(body \o a, x)
  BY <1>1, <1>2, <1>3, <1>4, NibblesConcat
<1> QED  BY <1>2, <1>4, <1>5, <1>6, <1>7

LEMMA FrameStarts ==
  ASSUME PathTypes, Written, NEW k \in 0..Len(nibbles),
         nibbles' = SubSeq(nibbles, k + 1, Len(nibbles)), Write(k),
         UNCHANGED <<source, len, nextFrame>>, RndDone' = RndDone,
         currentState = "sendingHeader", currentState' = "sendingPayload",
         Len(frames) + 1 \in Frames, payloadSize' = len[Len(frames) + 1],
         frame'.len = len[Len(frames) + 1], frame'.done = FALSE, k = HeaderRoom(P)
  PROVE  Written' /\ frames' = frames
<1>1. /\ FrameStart \in Nat /\ Len(body) \in Nat /\ Len(nibbles) \in Nat /\ HeaderRoom(P) \in Nat
      /\ Len(frames) \in 0..NFrames
  BY PathSequences, SizesTyped
<1>2. frames' = frames /\ body' = body \o SubSeq(nibbles, 1, k)
  BY Zenon DEF Write
<1>3. PICK w \in Seq(Nibble) :
        /\ w = body \o SubSeq(nibbles, 1, k) /\ Len(w) = Len(body) + k
        /\ NibblesPlaced(w, 2 * FrameStart)
  BY CallMoves
<1>4. PICK r \in Seq(Nibble) : /\ r = nibbles' /\ Len(r) = Len(nibbles) - k
                               /\ NibblesPlaced(r, (2 * FrameStart + Len(body)) + k)
  BY CallMoves
<1>5. Len(body) = 0
  <2>1. body = <<>>
    BY DEF Written
  <2> QED  BY <2>1
<1>6. PICK s \in Nat : s = FrameStart
  BY <1>1
<1>7. s = FrameStart'
  BY <1>2, <1>6, PlacesStay DEF FrameStart
<1>8. PICK x \in Nat, y \in Nat : x = 2 * s /\ y = 2 * s + Len(w)
  <2>1. PICK l \in Nat : l = Len(w)
    BY <1>1, <1>3
  <2>2. 2 * s \in Nat /\ 2 * s + l \in Nat
    OBVIOUS
  <2> QED  BY <2>1, <2>2
<1>9. NibblesPlaced(w, x) /\ NibblesPlaced(r, y)
  <2>1. y = (2 * FrameStart + Len(body)) + k
    BY <1>1, <1>3, <1>6, <1>8
  <2> QED  BY <1>3, <1>4, <1>6, <1>8, <2>1
<1>10. 2 * s + Len(w) + Len(r) = 2 * RndDone'
  <2>1. 2 * s + Len(body) + Len(nibbles) = 2 * RndDone
    BY <1>6 DEF Written
  <2> QED  BY <2>1, <1>1, <1>3, <1>4
<1>11. Len(w) = HeaderRoom(P)
  BY <1>1, <1>3, <1>5
<1>12. source' = "spaced" => nextFrame' <= Len(frames') + 2
  BY <1>2 DEF Written
<1>13. currentState' # "sendingHeader"
  OBVIOUS
<1>14. Written'
  BY <1>1, <1>2, <1>3, <1>4, <1>7, <1>8, <1>9, <1>10, <1>11, <1>12, <1>13, WrittenNext
<1> QED  BY <1>2, <1>14

LEMMA FrameEnds ==
  ASSUME PathTypes, StartInv, Written, NEW k \in 0..Len(nibbles),
         nibbles' = SubSeq(nibbles, k + 1, Len(nibbles)), Write(k),
         UNCHANGED <<source, len, nextFrame>>, RndDone' = RndDone,
         currentState' = "sendingHeader", Len(frames) + 1 \in Frames,
         frame'.len = len[Len(frames) + 1], frame'.done = TRUE,
         Len(body) + k = 2 * len[Len(frames) + 1]
  PROVE  /\ Written'
         /\ frames' = Append(frames, [len |-> len[Len(frames) + 1],
                                      body |-> NibblesOf(Len(frames) + 1),
                                      crcs |-> frame'.crcs])
<1>1. /\ FrameStart \in Nat /\ Len(body) \in Nat /\ Len(nibbles) \in Nat /\ Len(frames) \in Nat
      /\ len \in [Frames -> Lengths] /\ Len(frames) \in 0..NFrames
  BY PathSequences
<1>2. PICK j \in Frames : j = Len(frames) + 1 /\ j - 1 = Len(frames)
  BY <1>1
<1>3. PICK w \in Seq(Nibble) :
        /\ w = body \o SubSeq(nibbles, 1, k) /\ Len(w) = Len(body) + k
        /\ NibblesPlaced(w, 2 * FrameStart)
  BY CallMoves
<1>4. PICK r \in Seq(Nibble) : /\ r = nibbles' /\ Len(r) = Len(nibbles) - k
                               /\ NibblesPlaced(r, (2 * FrameStart + Len(body)) + k)
  BY CallMoves
<1>5. w = NibblesOf(j)
  <2>1. Len(w) = 2 * len[j] /\ NibblesPlaced(w, 2 * Starts[j - 1])
    BY <1>2, <1>3 DEF FrameStart
  <2> QED  BY <1>1, <2>1, WholeFrameNibbles
<1>6. frames' = Append(frames, [len |-> len[j], body |-> NibblesOf(j), crcs |-> frame'.crcs])
  <2>1. frames' = Append(frames, [len |-> frame'.len, body |-> w, crcs |-> frame'.crcs])
    BY <1>3, Zenon DEF Write
  <2> QED  BY <2>1, <1>2, <1>5
<1>7. body' = <<>>
  BY Zenon DEF Write
<1>8. PICK l \in Nat : l = len[j]
  BY <1>1, LengthsTyped
<1>9. Len(frames') = j /\ j \in 0..NFrames
  <2>1. IsSequence(frames)
    BY DEF StartInv, StartTypes
  <2>2. Len(frames') = Len(frames) + 1
    BY <2>1, <1>6, HistoryGrows
  <2> QED  BY <2>2, <1>1, <1>2, SizesTyped DEF Frames
<1>10. PICK s \in Nat : s = Starts[j] /\ s = FrameStart + l
  <2>1. j \in 1..NFrames
    BY DEF Frames
  <2>2. Starts[j] = Starts[j - 1] + len[j] /\ Starts[j] \in Nat
    BY <1>1, <1>9, <2>1, StartsUnfold
  <2> QED  BY <2>2, <1>2, <1>8 DEF FrameStart
<1>11. s = FrameStart'
  <2>1. Starts' = Starts
    BY PlacesStay
  <2> QED  BY <2>1, <1>9, <1>10 DEF FrameStart
<1>12. PICK b : b = body' /\ b = <<>> /\ Len(b) = 0
  <2>1. PICK b : b = body' /\ b = <<>>
    BY <1>7
  <2>2. Len(b) = 0
    BY <2>1
  <2> QED  BY <2>1, <2>2
<1>13. PICK x \in Nat, y \in Nat : x = 2 * s /\ y = x /\ y = 2 * s + Len(b)
  <2>1. 2 * s \in Nat /\ 2 * s + 0 = 2 * s
    OBVIOUS
  <2> QED  BY <2>1, <1>12
<1>14. NibblesPlaced(b, x)
  BY <1>12 DEF NibblesPlaced
<1>15. NibblesPlaced(r, y)
  <2>1. PICK g \in Nat, d \in Nat : g = FrameStart /\ d = Len(body)
    BY <1>1
  <2>2. d + k = 2 * l /\ s = g + l /\ y = 2 * s
    BY <2>1, <1>2, <1>8, <1>10, <1>13
  <2>3. y = (2 * g + d) + k
    BY <2>2
  <2> QED  BY <2>1, <2>3, <1>4
<1>16. 2 * s + Len(b) + Len(r) = 2 * RndDone'
  <2>1. 2 * FrameStart + Len(body) + Len(nibbles) = 2 * RndDone
    BY DEF Written
  <2>2. PICK g \in Nat, d \in Nat, z \in Nat : g = FrameStart /\ d = Len(body) /\ z = Len(nibbles)
    BY <1>1
  <2>3. d + k = 2 * l /\ s = g + l /\ Len(r) = z - k /\ Len(b) = 0
    BY <2>2, <1>2, <1>4, <1>8, <1>10, <1>12
  <2>4. 2 * s + 0 + (z - k) = 2 * g + d + z
    BY <2>3
  <2> QED  BY <2>1, <2>2, <2>3, <2>4
<1>17. source' = "spaced" => nextFrame' <= Len(frames') + 2
  <2> SUFFICES ASSUME source = "spaced" PROVE nextFrame' <= Len(frames') + 2
    OBVIOUS
  <2>1. nextFrame <= Len(frames) + 2 /\ nextFrame \in Nat
    BY DEF Written, PathTypes
  <2> QED  BY <2>1, <1>1, <1>2, <1>9
<1>18. currentState' # "sendingPayload"
  OBVIOUS
<1>19. Written'
  BY <1>4, <1>9, <1>11, <1>12, <1>13, <1>14, <1>15, <1>16, <1>17, <1>18, WrittenNext
<1> QED  BY <1>2, <1>6, <1>19

(* The frames of the history stay what they are.                           *)
LEMMA HistoryStays ==
  ASSUME UNCHANGED <<len, source, frames>>
  PROVE  (FrameIntegrity => FrameIntegrity') /\ (CrcAtMostOneBehind => CrcAtMostOneBehind')
<1>1. \A j : NibblesOf(j)' = NibblesOf(j) /\ BytesOf(j)' = BytesOf(j)
  BY DEF NibblesOf, BytesOf
<1> QED  BY <1>1, Zenon DEF FrameIntegrity, CrcAtMostOneBehind

LEMMA HistoryContinues ==
  ASSUME UNCHANGED <<len, source>>, IsSequence(frames), FrameIntegrity, CrcAtMostOneBehind,
         NEW crcs, NEW j, j = Len(frames) + 1,
         frames' = Append(frames, [len |-> len[j], body |-> NibblesOf(j), crcs |-> crcs]),
         source = "spaced" /\ crcs # <<>> =>
           crcs[1] \in {BytesOf(j), IF j = 1 THEN <<>> ELSE BytesOf(j - 1)}
  PROVE  FrameIntegrity' /\ CrcAtMostOneBehind'
<1> DEFINE e == [len |-> len[j], body |-> NibblesOf(j), crcs |-> crcs]
<1>1. e.len = len[j] /\ e.body = NibblesOf(j) /\ e.crcs = crcs
  OBVIOUS
<1>2. frames' = Append(frames, e)
  OBVIOUS
<1> HIDE DEF e
<1>3. PICK S : frames \in Seq(S)
  BY Zenon DEF IsSequence
<1> DEFINE T == S \cup {e}
<1>4. frames \in Seq(T) /\ e \in T
  BY <1>3
<1> HIDE DEF T
<1>5. \A i \in DOMAIN frames' : (i \in DOMAIN frames /\ frames'[i] = frames[i])
                                \/ (i = j /\ frames'[i] = e)
  <2>1. /\ Append(frames, e) \in Seq(T) /\ Len(Append(frames, e)) = Len(frames) + 1
        /\ \A i \in 1..Len(frames) : Append(frames, e)[i] = frames[i]
        /\ Append(frames, e)[Len(frames) + 1] = e
    BY <1>4, AppendAt
  <2>2. DOMAIN frames = 1..Len(frames) /\ Len(frames) \in Nat
        /\ DOMAIN Append(frames, e) = 1..(Len(frames) + 1)
    BY <1>4, <2>1
  <2> QED  BY <1>2, <2>1, <2>2
<1>6. \A i : NibblesOf(i)' = NibblesOf(i) /\ BytesOf(i)' = BytesOf(i)
  BY DEF NibblesOf, BytesOf
<1>7. FrameIntegrity'
  <2>1. ASSUME NEW i \in DOMAIN frames'
        PROVE  frames'[i].len = len[i] /\ frames'[i].body = NibblesOf(i)
    BY <2>1, <1>1, <1>5, Zenon DEF FrameIntegrity
  <2> QED  BY <2>1, <1>6, Zenon DEF FrameIntegrity
<1>8. CrcAtMostOneBehind'
  <2>1. ASSUME NEW i \in DOMAIN frames', source = "spaced", frames'[i].crcs # <<>>
        PROVE  frames'[i].crcs[1] \in {BytesOf(i), IF i = 1 THEN <<>> ELSE BytesOf(i - 1)}
    <3>1. CASE i \in DOMAIN frames /\ frames'[i] = frames[i]
      BY <2>1, <3>1, Zenon DEF CrcAtMostOneBehind
    <3>2. CASE i = j /\ frames'[i] = e
      <4>1. frames'[i].crcs = crcs
        BY <1>1, <3>2, Zenon
      <4> QED  BY <2>1, <3>2, <4>1, Zenon
    <3> QED  BY <1>5, <3>1, <3>2
  <2> QED  BY <2>1, <1>6, Zenon DEF CrcAtMostOneBehind
<1> QED  BY <1>7, <1>8
-----------------------------------------------------------------------------
(* The CRC messages.                                                       *)

(* The CRC of the last frame the source has sent, and of the one before.   *)
Own == IF nextFrame = 1 THEN <<>> ELSE BytesOf(nextFrame - 1)
Previous == IF nextFrame <= 2 THEN <<>> ELSE BytesOf(nextFrame - 2)

(* Frames spaced: the message comes with the last byte of the frame and    *)
(* finds no other waiting.                                                 *)
CrcInTime ==
  source = "spaced" =>
    IF CrcDone < Sent
    THEN crcMsgs = <<>> /\ crc = Previous
    ELSE (crcMsgs = <<Own>> /\ crc = Previous) \/ (crcMsgs = <<>> /\ crc = Own)

LEMMA CrcStays ==
  ASSUME CrcInTime, UNCHANGED <<source, len, nextFrame, crcMsgs, crc>>, Sent' = Sent,
         CrcDone' = CrcDone
  PROVE  CrcInTime'
<1>1. Own' = Own /\ Previous' = Previous
  BY DEF Own, Previous, BytesOf
<1> QED  BY <1>1 DEF CrcInTime

LEMMA CrcSendPDU ==
  ASSUME PathTypes, CrcInTime, SendPDU, CrcDone \in Nat, CrcDone' = CrcDone,
         Sent' = Sent + len[nextFrame]
  PROVE  CrcInTime'
<1> SUFFICES ASSUME source = "spaced" PROVE CrcInTime'
  BY DEF SendPDU, given, CrcInTime
<1>1. /\ nextFrame \in Frames /\ crcIn = <<>> /\ crcMsgs = <<>> /\ nextFrame' = nextFrame + 1
      /\ UNCHANGED <<source, len, crcMsgs, crc>>
  BY DEF SendPDU, Idle, given, tcVars
<1>2. Sent \in Nat /\ len[nextFrame] \in Nat /\ len[nextFrame] > 0
  BY <1>1, SentTyped, LengthsTyped
<1>3. CrcDone = Sent
  <2>1. Len(crcIn) = 0
    BY <1>1
  <2> QED  BY <2>1, <1>2 DEF CrcDone
<1>4. crc = Own
  BY <1>1, <1>2, <1>3 DEF CrcInTime
<1>5. Previous' = Own
  <2>1. PICK n \in Nat : n = nextFrame /\ n >= 1
    BY DEF PathTypes
  <2>2. (n + 1 <= 2 <=> n = 1) /\ (n + 1) - 2 = n - 1
    BY <2>1
  <2> QED  BY <2>1, <2>2, <1>1 DEF Previous, Own, BytesOf
<1>6. CrcDone' < Sent'
  BY <1>2, <1>3
<1> QED  BY <1>1, <1>4, <1>5, <1>6 DEF CrcInTime

LEMMA CrcWork ==
  ASSUME PathTypes, CrcInTime, CrcDone \in Nat, NEW n \in Nat, n > 0, CrcDone + n <= Sent,
         UNCHANGED <<source, len, nextFrame, crc>>, Sent' = Sent, CrcDone' = CrcDone + n,
         source = "spaced" =>
           /\ nextFrame - 1 \in Frames
           /\ crcMsgs' = crcMsgs \o IF CrcDone + n = Sent THEN <<BytesOf(nextFrame - 1)>> ELSE <<>>
  PROVE  CrcInTime'
<1> SUFFICES ASSUME source = "spaced" PROVE CrcInTime'
  BY DEF CrcInTime
<1>1. Sent \in Nat
  BY SentTyped
<1>2. crcMsgs = <<>> /\ crc = Previous
  BY <1>1 DEF CrcInTime
<1>3. Own' = Own /\ Previous' = Previous
  BY DEF Own, Previous, BytesOf
<1>4. Own = BytesOf(nextFrame - 1)
  <2>1. nextFrame # 1
    BY SizesTyped DEF Frames
  <2> QED  BY <2>1 DEF Own
<1>5. CASE CrcDone + n = Sent
  <2>1. crcMsgs' = <<Own>>
    BY <1>2, <1>4, <1>5
  <2> QED  BY <2>1, <1>1, <1>2, <1>3, <1>5 DEF CrcInTime
<1>6. CASE CrcDone + n # Sent
  <2>1. crcMsgs' = <<>> /\ CrcDone' < Sent'
    BY <1>1, <1>2, <1>6
  <2> QED  BY <2>1, <1>2, <1>3 DEF CrcInTime
<1> QED  BY <1>5, <1>6

LEMMA CrcHandled ==
  ASSUME PathTypes, CrcInTime, HandleCrc, Sent' = Sent, CrcDone' = CrcDone
  PROVE  CrcInTime'
<1> SUFFICES ASSUME source = "spaced" PROVE CrcInTime'
  BY DEF HandleCrc, given, CrcInTime
<1>1. /\ crcMsgs # <<>> /\ crcMsgs' = Tail(crcMsgs) /\ crc' = Head(crcMsgs)
      /\ UNCHANGED <<source, len, nextFrame>>
  BY DEF HandleCrc, TC!SetCrc, given
<1>2. ~(CrcDone < Sent) /\ crcMsgs = <<Own>>
  BY <1>1 DEF CrcInTime
<1>3. crcMsgs' = <<>> /\ crc' = Own
  BY <1>1, <1>2
<1>4. Own' = Own
  BY <1>1 DEF Own, BytesOf
<1> QED  BY <1>1, <1>2, <1>3, <1>4 DEF CrcInTime

(* Frames spaced: a frame that ends is the last the source has sent.       *)
LEMMA LastSent ==
  ASSUME PathTypes, Inputs, Written, NEW k \in 0..Len(nibbles), Len(frames) + 1 \in Frames,
         Len(body) + k = 2 * len[Len(frames) + 1], source = "spaced"
  PROVE  Len(frames) + 1 = nextFrame - 1
<1>1. /\ len \in [Frames -> Lengths] /\ FrameStart \in Nat /\ Len(frames) \in Nat
      /\ Len(body) \in Nat /\ Len(nibbles) \in Nat
  BY PathSequences
<1>2. PICK j \in Nat : j = Len(frames) + 1 /\ j - 1 = Len(frames) /\ j \in 1..NFrames /\ j \in 0..NFrames
  BY <1>1, SizesTyped DEF Frames
<1>3. PICK g \in Nat : g = nextFrame - 1 /\ g \in 0..NFrames
  BY SentTyped, SizesTyped
<1>4. PICK s \in Nat, l \in Nat : s = FrameStart /\ l = len[j] /\ Starts[j] = s + l
  <2>1. Starts[j] = Starts[j - 1] + len[j]
    BY <1>1, <1>2, StartsUnfold
  <2>2. len[j] \in Nat
    BY <1>1, <1>2, LengthsTyped DEF Frames
  <2> QED  BY <2>1, <2>2, <1>1, <1>2 DEF FrameStart
<1>5. PICK t \in Nat : t = Starts[g] /\ t = Sent
  BY <1>3, SentTyped DEF Sent
<1>6. RndDone <= t /\ RndDone \in Nat
  BY <1>5, SentTyped DEF RndDone, Inputs
<1>7. s + l <= t
  <2>1. 2 * s + Len(body) + Len(nibbles) = 2 * RndDone
    BY <1>4 DEF Written
  <2>2. Len(body) + k = 2 * l /\ k <= Len(nibbles) /\ k \in Nat
    BY <1>1, <1>2, <1>4
  <2> QED  BY <2>1, <2>2, <1>1, <1>6
<1>8. ~(g < j)
  <2> SUFFICES ASSUME g < j PROVE FALSE
    OBVIOUS
  <2>1. Starts[g] < Starts[j]
    BY <1>1, <1>2, <1>3, StartsRise
  <2> QED  BY <2>1, <1>4, <1>5, <1>7
<1>9. g <= j
  <2>1. nextFrame <= Len(frames) + 2 /\ nextFrame \in Nat /\ nextFrame >= 1
    BY DEF Written, PathTypes
  <2> QED  BY <2>1, <1>1, <1>2, <1>3
<1> QED  BY <1>2, <1>3, <1>8, <1>9

LEMMA CrcOfFrame ==
  ASSUME PathTypes, CrcInTime, source = "spaced", NEW j \in Nat, j = nextFrame - 1, j >= 1
  PROVE  crc \in {BytesOf(j), IF j = 1 THEN <<>> ELSE BytesOf(j - 1)}
<1>1. PICK n \in Nat : n = nextFrame /\ n >= 1
  BY DEF PathTypes
<1>2. n # 1 /\ (n <= 2 <=> j = 1) /\ n - 2 = j - 1 /\ n - 1 = j
  BY <1>1
<1>3. Own = BytesOf(j) /\ Previous = IF j = 1 THEN <<>> ELSE BytesOf(j - 1)
  BY <1>1, <1>2 DEF Own, Previous
<1> QED  BY <1>3 DEF CrcInTime
-----------------------------------------------------------------------------
(* The whole path.                                                         *)

FrameChunk == [frame : Frames, last : BOOLEAN]

DataInv ==
  /\ Inputs /\ CrcCounter /\ RndCounter
  /\ Written /\ CrcInTime
  /\ FrameIntegrity /\ CrcAtMostOneBehind
  /\ chain \in Seq(FrameChunk) /\ samples \in Seq(FrameChunk)

WholeInv == PathInv /\ StartInv /\ DataInv

LEMMA DataInit == Init /\ PathTypes => DataInv
<1> SUFFICES ASSUME Init, PathTypes PROVE DataInv
  OBVIOUS
<1>1. /\ nextFrame = 1 /\ crcIn = <<>> /\ rndIn = <<>> /\ crcCount = 0 /\ crcBytes = <<>>
      /\ rndCount = 0 /\ lfsr = 1 /\ crcMsgs = <<>> /\ crc = <<>> /\ nibbles = <<>>
      /\ body = <<>> /\ frames = <<>> /\ chain = <<>> /\ samples = <<>>
      /\ currentState = "sendingHeader"
      /\ source = "uniform" => \A f, g \in Frames : len[f] = len[g]
  BY DEF Init
<1>2. len \in [Frames -> Lengths] /\ NFrames \in Nat
  BY SizesTyped DEF PathTypes
<1>3. Starts[0] = 0
  BY <1>2, StartsUnfold
<1>4. Len(crcIn) = 0 /\ Len(rndIn) = 0 /\ Len(nibbles) = 0 /\ Len(body) = 0 /\ Len(frames) = 0
  BY <1>1
<1>5. Sent = 0 /\ CrcDone = 0 /\ RndDone = 0 /\ FrameStart = 0
  <2>1. nextFrame - 1 = 0
    BY <1>1
  <2>2. Sent = 0
    BY <2>1, <1>3 DEF Sent
  <2> QED  BY <2>2, <1>3, <1>4 DEF CrcDone, RndDone, FrameStart
<1>6. Inputs
  <2>1. Placed(crcIn, CrcDone) /\ Placed(rndIn, RndDone)
    BY <1>4 DEF Placed
  <2>2. SameSizes
    BY <1>1, Zenon DEF SameSizes
  <2> QED  BY <1>4, <1>5, <2>1, <2>2 DEF Inputs
<1>7. Within(0, 1, 0)
  <2>1. 1 \in 1..(NFrames + 1) /\ 1 - 1 = 0
    BY <1>2
  <2>2. 1 \in Frames => 0 < len[1]
    BY <1>2, LengthsTyped
  <2> QED  BY <2>1, <2>2, <1>3 DEF Within
<1>8. CrcCounter
  <2>1. PICK s : s = [count |-> crcCount, bytes |-> crcBytes, msgs |-> <<>>]
    OBVIOUS
  <2>2. s.count = 0 /\ Len(s.bytes) = 0
    BY <2>1, <1>1
  <2>3. CrcCounts(s, 0)
    BY <2>2, <1>7 DEF CrcCounts
  <2> QED  BY <2>1, <2>3, <1>1, <1>5 DEF CrcCounter
<1>9. RndCounter
  <2>1. PICK s : s = [count |-> rndCount, lfsr |-> lfsr, out |-> <<>>]
    OBVIOUS
  <2>2. s.count = 0 /\ s.lfsr = 1
    BY <2>1, <1>1
  <2>3. RndCounts(s, 0)
    BY <2>2, <1>7 DEF RndCounts
  <2> QED  BY <2>1, <2>3, <1>1, <1>5 DEF RndCounter
<1>10. Written
  <2>1. NibblesPlaced(body, 2 * FrameStart) /\ NibblesPlaced(nibbles, 2 * FrameStart + Len(body))
    BY <1>4 DEF NibblesPlaced
  <2>2. Len(frames) \in 0..NFrames /\ nextFrame <= Len(frames) + 2
    BY <1>1, <1>2, <1>4
  <2>3. 2 * FrameStart + Len(body) + Len(nibbles) = 2 * RndDone
    BY <1>4, <1>5
  <2> QED  BY <1>1, <2>1, <2>2, <2>3 DEF Written
<1>11. CrcInTime
  BY <1>1, <1>5 DEF CrcInTime, Own
<1>12. FrameIntegrity /\ CrcAtMostOneBehind
  <2>1. DOMAIN frames = {}
    BY <1>1
  <2> QED  BY <2>1, Zenon DEF FrameIntegrity, CrcAtMostOneBehind
<1>13. chain \in Seq(FrameChunk) /\ samples \in Seq(FrameChunk)
  BY <1>1
<1> QED  BY <1>6, <1>8, <1>9, <1>10, <1>11, <1>12, <1>13 DEF DataInv

LEMMA DataSendPDU ==
  ASSUME WholeInv, SendPDU
  PROVE  DataInv'
<1>1. PathTypes /\ Inputs /\ CrcCounter /\ RndCounter /\ Written /\ CrcInTime
  BY DEF WholeInv, PathInv, DataInv
<1>2. /\ UNCHANGED <<len, source, body, nibbles, frames, frame, currentState, payloadSize,
                     chain, samples>>
      /\ nextFrame \in Frames /\ nextFrame' = nextFrame + 1
      /\ source = "spaced" => Idle
  BY DEF SendPDU, given, tcVars, silenceVars
<1>3. /\ Inputs' /\ CrcCounter' /\ RndCounter' /\ CrcDone' = CrcDone /\ RndDone' = RndDone
      /\ Sent' = Sent + len[nextFrame] /\ CrcDone \in Nat
  BY <1>1, SendPDUInputs DEF Inputs
<1>4. source = "spaced" => nextFrame' <= Len(frames) + 2
  <2> SUFFICES ASSUME source = "spaced" PROVE nextFrame' <= Len(frames) + 2
    OBVIOUS
  <2>1. rndIn = <<>> /\ nibbles = <<>> /\ body = <<>>
    BY <1>1, <1>2 DEF Idle, Written
  <2>2. Len(rndIn) = 0 /\ Len(nibbles) = 0 /\ Len(body) = 0
    BY <2>1
  <2>3. len \in [Frames -> Lengths] /\ FrameStart \in Nat /\ Len(frames) \in 0..NFrames
    BY <1>1, PathSequences
  <2>4. Sent \in Nat /\ nextFrame - 1 \in 0..NFrames
    BY <1>1, SentTyped
  <2>5. PICK g \in 0..NFrames, h \in 0..NFrames : g = nextFrame - 1 /\ h = Len(frames)
    BY <2>3, <2>4
  <2>6. Starts[g] = Starts[h]
    <3>1. 2 * FrameStart = 2 * Sent
      BY <2>2, <2>3, <2>4, <1>1 DEF Written, RndDone
    <3> QED  BY <3>1, <2>3, <2>4, <2>5 DEF FrameStart, Sent
  <2>7. ~(h < g)
    <3> SUFFICES ASSUME h < g PROVE FALSE
      OBVIOUS
    <3>1. Starts[h] < Starts[g] /\ Starts[h] \in Nat
      BY <2>3, StartsRise, StartsUnfold
    <3> QED  BY <3>1, <2>6
  <2> QED  BY <2>5, <2>7, <1>1, <1>2, SizesTyped DEF PathTypes
<1>5. Written'
  BY <1>1, <1>2, <1>3, <1>4, WrittenUntouched
<1>6. CrcInTime'
  BY <1>1, <1>3, CrcSendPDU
<1>7. FrameIntegrity' /\ CrcAtMostOneBehind'
  BY <1>2, HistoryStays DEF WholeInv, DataInv
<1>8. chain' \in Seq(FrameChunk) /\ samples' \in Seq(FrameChunk)
  BY <1>2 DEF WholeInv, DataInv
<1> QED  BY <1>3, <1>5, <1>6, <1>7, <1>8 DEF DataInv

LEMMA DataCRC16 ==
  ASSUME WholeInv, Regular, NEW n \in 1..Len(crcIn), CRC16Work(n)
  PROVE  DataInv'
<1>1. PathTypes /\ Inputs /\ CrcCounter /\ RndCounter /\ Written /\ CrcInTime
  BY DEF WholeInv, PathInv, DataInv
<1>2. UNCHANGED <<len, source, nextFrame, body, nibbles, frames, frame, currentState, payloadSize,
                  crc, chain, samples>>
  BY DEF CRC16Work, given, tcVars, silenceVars
<1>3. /\ Inputs' /\ CrcCounter' /\ RndCounter'
      /\ CrcDone' = CrcDone + n /\ RndDone' = RndDone /\ Sent' = Sent
      /\ CrcDone + n <= Sent /\ CrcDone \in Nat
      /\ source = "spaced" =>
           /\ nextFrame - 1 \in Frames
           /\ crcMsgs' = crcMsgs \o IF CrcDone + n = Sent THEN <<BytesOf(nextFrame - 1)>>
                                    ELSE <<>>
  BY <1>1, CRC16Inputs
<1>4. Written'
  <2>1. source = "spaced" => nextFrame' <= Len(frames) + 2
    BY <1>1, <1>2 DEF Written
  <2> QED  BY <1>1, <1>2, <1>3, <2>1, WrittenUntouched
<1>5. CrcInTime'
  <2>1. n \in Nat /\ n > 0
    BY <1>1 DEF PathTypes
  <2> QED  BY <1>1, <1>2, <1>3, <2>1, CrcWork
<1>6. FrameIntegrity' /\ CrcAtMostOneBehind'
  BY <1>2, HistoryStays DEF WholeInv, DataInv
<1>7. chain' \in Seq(FrameChunk) /\ samples' \in Seq(FrameChunk)
  BY <1>2 DEF WholeInv, DataInv
<1> QED  BY <1>3, <1>4, <1>5, <1>6, <1>7 DEF DataInv

LEMMA DataRandomize ==
  ASSUME WholeInv, Regular, NEW n \in 1..Len(rndIn), RandomizeWork(n)
  PROVE  DataInv'
<1>1. PathTypes /\ Inputs /\ CrcCounter /\ RndCounter /\ Written /\ CrcInTime
  BY DEF WholeInv, PathInv, DataInv
<1>2. UNCHANGED <<len, source, nextFrame, body, frames, frame, currentState, payloadSize,
                  crc, crcMsgs, chain, samples>>
  BY DEF RandomizeWork, given, tcVars, silenceVars
<1>3. /\ Inputs' /\ CrcCounter' /\ RndCounter'
      /\ RndDone' = RndDone + n /\ CrcDone' = CrcDone /\ Sent' = Sent /\ RndDone \in Nat
      /\ \E more \in Seq(Nibble) :
           nibbles' = nibbles \o more /\ Len(more) = 2 * n /\ NibblesPlaced(more, 2 * RndDone)
  BY <1>1, RandomizeInputs
<1>4. n \in Nat
  BY <1>1 DEF PathTypes
<1>5. PICK more \in Seq(Nibble) :
        nibbles' = nibbles \o more /\ Len(more) = 2 * n /\ NibblesPlaced(more, 2 * RndDone)
  BY <1>3
<1>6. Written'
  BY <1>1, <1>2, <1>3, <1>4, <1>5, WrittenArrive
<1>7. CrcInTime'
  BY <1>1, <1>2, <1>3, CrcStays
<1>8. FrameIntegrity' /\ CrcAtMostOneBehind'
  BY <1>2, HistoryStays DEF WholeInv, DataInv
<1>9. chain' \in Seq(FrameChunk) /\ samples' \in Seq(FrameChunk)
  BY <1>2 DEF WholeInv, DataInv
<1> QED  BY <1>3, <1>6, <1>7, <1>8, <1>9 DEF DataInv

LEMMA DataHandleCrc ==
  ASSUME WholeInv, HandleCrc
  PROVE  DataInv'
<1>1. PathTypes /\ Inputs /\ CrcCounter /\ RndCounter /\ Written /\ CrcInTime
  BY DEF WholeInv, PathInv, DataInv
<1>2. /\ UNCHANGED <<len, source, nextFrame, body, nibbles, frames, chain, samples, crcIn, crcSize,
                     crcCount, crcBytes, rndIn, rndSize, rndCount, lfsr>>
      /\ UNCHANGED <<frame, currentState, payloadSize>>
  BY DEF HandleCrc, TC!SetCrc, given, crcVars, rndVars, silenceVars
<1>3. /\ Inputs' /\ CrcCounter' /\ RndCounter'
      /\ Sent' = Sent /\ CrcDone' = CrcDone /\ RndDone' = RndDone
  BY <1>1, <1>2, InputsUntouched
<1>4. Written'
  <2>1. source = "spaced" => nextFrame' <= Len(frames) + 2
    BY <1>1, <1>2 DEF Written
  <2> QED  BY <1>1, <1>2, <1>3, <2>1, WrittenUntouched
<1>5. CrcInTime'
  BY <1>1, <1>3, CrcHandled
<1>6. FrameIntegrity' /\ CrcAtMostOneBehind'
  BY <1>2, HistoryStays DEF WholeInv, DataInv
<1>7. chain' \in Seq(FrameChunk) /\ samples' \in Seq(FrameChunk)
  BY <1>2 DEF WholeInv, DataInv
<1> QED  BY <1>3, <1>4, <1>5, <1>6, <1>7 DEF DataInv

(* A frame that ends, by a header call or a payload call.                  *)
LEMMA FrameFinished ==
  ASSUME WholeInv, NEW k \in 0..Len(nibbles),
         nibbles' = SubSeq(nibbles, k + 1, Len(nibbles)), Write(k),
         UNCHANGED <<source, len, nextFrame>>, RndDone' = RndDone,
         currentState' = "sendingHeader", Len(frames) + 1 \in Frames,
         frame'.len = len[Len(frames) + 1], frame'.done = TRUE,
         Len(body) + k = 2 * len[Len(frames) + 1], frame'.crcs = <<>> \/ frame'.crcs = <<crc>>
  PROVE  Written' /\ FrameIntegrity' /\ CrcAtMostOneBehind'
<1>1. PathTypes /\ Inputs /\ Written /\ CrcInTime /\ IsSequence(frames)
      /\ FrameIntegrity /\ CrcAtMostOneBehind
  BY DEF WholeInv, PathInv, DataInv, StartInv, StartTypes
<1>2. PICK crcs : crcs = frame'.crcs
  OBVIOUS
<1>3. PICK j \in Nat : j = Len(frames) + 1 /\ j >= 1
  BY <1>1, PathSequences
<1>4. /\ Written'
      /\ frames' = Append(frames, [len |-> len[j], body |-> NibblesOf(j), crcs |-> crcs])
  BY <1>1, <1>2, <1>3, FrameEnds DEF WholeInv
<1>5. ASSUME source = "spaced", crcs # <<>>
      PROVE  crcs[1] \in {BytesOf(j), IF j = 1 THEN <<>> ELSE BytesOf(j - 1)}
  <2>1. j = nextFrame - 1
    BY <1>1, <1>3, <1>5, LastSent
  <2>2. crc \in {BytesOf(j), IF j = 1 THEN <<>> ELSE BytesOf(j - 1)}
    BY <1>1, <1>3, <1>5, <2>1, CrcOfFrame
  <2>3. crcs[1] = crc
    BY <1>2, <1>5
  <2> QED  BY <2>2, <2>3
<1>6. FrameIntegrity' /\ CrcAtMostOneBehind'
  BY <1>1, <1>3, <1>4, <1>5, HistoryContinues
<1> QED  BY <1>4, <1>6

LEMMA DataSendHeader ==
  ASSUME WholeInv, Filled, HeaderRoom(P) > 0, SendHeader, fault' = "none"
  PROVE  DataInv'
<1>1. PathTypes /\ PathInv /\ StartInv /\ Inputs /\ CrcCounter /\ RndCounter /\ Written
      /\ CrcInTime /\ FrameIntegrity /\ CrcAtMostOneBehind
  BY DEF WholeInv, PathInv, DataInv
<1>2. PICK k \in 0..Len(nibbles) :
        /\ nibbles' = SubSeq(nibbles, k + 1, Len(nibbles))
        /\ TC!SendHeader(SizeTag, <<>>) /\ Write(k)
  BY DEF SendHeader
<1>3. /\ UNCHANGED <<len, source, nextFrame, crcMsgs, samples, crcIn, crcSize,
                     crcCount, crcBytes, rndIn, rndSize, rndCount, lfsr>>
      /\ UNCHANGED crc
  BY <1>2 DEF SendHeader, TC!SendHeader, given, crcVars, rndVars
<1>4. /\ Inputs' /\ CrcCounter' /\ RndCounter'
      /\ Sent' = Sent /\ CrcDone' = CrcDone /\ RndDone' = RndDone
  BY <1>1, <1>3, InputsUntouched
<1>5. /\ currentState = "sendingHeader" /\ Len(frames) + 1 \in Frames
      /\ payloadSize' = len[Len(frames) + 1] /\ frame'.len = len[Len(frames) + 1]
      /\ frame'.crcs = <<>> \/ frame'.crcs = <<crc>>
      /\ \/ /\ frame'.done = TRUE /\ k = 2 * len[Len(frames) + 1]
            /\ currentState' = "sendingHeader"
         \/ /\ frame'.done = FALSE /\ k = HeaderRoom(P)
            /\ currentState' = "sendingPayload"
  BY <1>1, <1>2, HeaderCall
<1>6. Written' /\ FrameIntegrity' /\ CrcAtMostOneBehind'
  <2>1. CASE /\ frame'.done = TRUE /\ k = 2 * len[Len(frames) + 1]
             /\ currentState' = "sendingHeader"
    <3>1. Len(body) = 0
      <4>1. body = <<>>
        BY <1>1, <1>5 DEF Written
      <4> QED  BY <4>1
    <3>2. Len(body) + k = 2 * len[Len(frames) + 1]
      BY <2>1, <3>1
    <3> QED  BY <1>2, <1>3, <1>4, <1>5, <2>1, <3>2, FrameFinished
  <2>2. CASE /\ frame'.done = FALSE /\ k = HeaderRoom(P) /\ currentState' = "sendingPayload"
    <3>1. Written' /\ frames' = frames
      BY <1>1, <1>2, <1>3, <1>4, <1>5, <2>2, FrameStarts
    <3> QED  BY <1>1, <1>3, <3>1, HistoryStays
  <2> QED  BY <1>5, <2>1, <2>2
<1>7. CrcInTime'
  BY <1>1, <1>3, <1>4, CrcStays
<1>8. chain' \in Seq(FrameChunk) /\ samples' \in Seq(FrameChunk)
  <2>1. PICK d \in BOOLEAN : chain' = Append(chain, [frame |-> Len(frames) + 1, last |-> d])
    BY <1>1, HeaderStart
  <2>2. chain \in Seq(FrameChunk) /\ samples \in Seq(FrameChunk)
    BY DEF WholeInv, DataInv
  <2>3. PICK e \in FrameChunk : e = [frame |-> Len(frames) + 1, last |-> d]
    BY <1>5 DEF FrameChunk
  <2> QED  BY <1>3, <2>1, <2>2, <2>3, AppendAt
<1> QED  BY <1>4, <1>6, <1>7, <1>8 DEF DataInv

LEMMA DataSendPayload ==
  ASSUME WholeInv, Filled, SendPayload
  PROVE  DataInv'
<1>1. PathTypes /\ PathInv /\ StartInv /\ Inputs /\ CrcCounter /\ RndCounter /\ Written
      /\ CrcInTime
  BY DEF WholeInv, PathInv, DataInv
<1>2. PICK k \in 0..Len(nibbles) :
        /\ nibbles' = SubSeq(nibbles, k + 1, Len(nibbles))
        /\ TC!SendPayload /\ Write(k)
  BY DEF SendPayload
<1>3. /\ UNCHANGED <<len, source, nextFrame, crcMsgs, samples, crcIn, crcSize,
                     crcCount, crcBytes, rndIn, rndSize, rndCount, lfsr>>
      /\ UNCHANGED crc
  BY <1>2 DEF SendPayload, TC!SendPayload, given, crcVars, rndVars, silenceVars
<1>4. /\ Inputs' /\ CrcCounter' /\ RndCounter'
      /\ Sent' = Sent /\ CrcDone' = CrcDone /\ RndDone' = RndDone
  BY <1>1, <1>3, InputsUntouched
<1>5. /\ currentState' = "sendingHeader" /\ Len(frames) + 1 \in Frames
      /\ frame'.len = len[Len(frames) + 1] /\ (frame'.crcs = <<>> \/ frame'.crcs = <<crc>>)
      /\ frame'.done = TRUE /\ Len(body) + k = 2 * len[Len(frames) + 1]
  BY <1>1, <1>2, PayloadCall
<1>6. Written' /\ FrameIntegrity' /\ CrcAtMostOneBehind'
  BY <1>2, <1>3, <1>4, <1>5, FrameFinished
<1>7. CrcInTime'
  BY <1>1, <1>3, <1>4, CrcStays
<1>8. chain' \in Seq(FrameChunk) /\ samples' \in Seq(FrameChunk)
  <2>1. chain' = Append(chain, [frame |-> Len(frames) + 1, last |-> TRUE])
    BY <1>1, PayloadStart
  <2>2. chain \in Seq(FrameChunk) /\ samples \in Seq(FrameChunk)
    BY DEF WholeInv, DataInv
  <2>3. PICK e \in FrameChunk : e = [frame |-> Len(frames) + 1, last |-> TRUE]
    BY <1>5 DEF FrameChunk
  <2> QED  BY <1>3, <2>1, <2>2, <2>3, AppendAt
<1> QED  BY <1>4, <1>6, <1>7, <1>8 DEF DataInv

(* The blocks behind the controller.                                       *)
LEMMA DataBehind ==
  ASSUME WholeInv, Modulate \/ AppendSilence \/ UNCHANGED vars
  PROVE  DataInv'
<1>1. PathTypes /\ Inputs /\ CrcCounter /\ RndCounter /\ Written /\ CrcInTime
      /\ chain \in Seq(FrameChunk) /\ samples \in Seq(FrameChunk)
  BY DEF WholeInv, PathInv, DataInv
<1> USE DEF given, crcVars, rndVars, tcVars, silenceVars
<1>2. /\ UNCHANGED <<len, source, nextFrame, crcIn, crcSize, crcCount, crcBytes, rndIn, rndSize,
                     rndCount, lfsr>>
      /\ UNCHANGED <<crcMsgs, crc, body, nibbles, frames, frame, currentState, payloadSize>>
  <2>1. CASE Modulate
    BY <2>1 DEF Modulate
  <2>2. CASE AppendSilence
    BY <2>2 DEF AppendSilence, HandleStart, PassChunk, PassSilence
  <2>3. CASE UNCHANGED vars
    BY <2>3 DEF vars
  <2> QED  BY <2>1, <2>2, <2>3
<1>3. /\ Inputs' /\ CrcCounter' /\ RndCounter'
      /\ Sent' = Sent /\ CrcDone' = CrcDone /\ RndDone' = RndDone
  BY <1>1, <1>2, InputsUntouched
<1>4. Written'
  <2>1. source = "spaced" => nextFrame' <= Len(frames) + 2
    BY <1>1, <1>2 DEF Written
  <2> QED  BY <1>1, <1>2, <1>3, <2>1, WrittenUntouched
<1>5. CrcInTime'
  BY <1>1, <1>2, <1>3, CrcStays
<1>6. FrameIntegrity' /\ CrcAtMostOneBehind'
  BY <1>2, HistoryStays DEF WholeInv, DataInv
<1>7. chain' \in Seq(FrameChunk) /\ samples' \in Seq(FrameChunk)
  <2>1. CASE Modulate
    <3>1. chain # <<>> /\ chain' = Tail(chain) /\ samples' = Append(samples, Head(chain))
      BY <2>1 DEF Modulate
    <3>2. Tail(chain) \in Seq(FrameChunk) /\ Head(chain) \in FrameChunk
      BY <1>1, <3>1, TailOf
    <3> QED  BY <1>1, <3>1, <3>2, AppendAt
  <2>2. CASE HandleStart \/ PassSilence
    BY <1>1, <2>2 DEF HandleStart, PassSilence
  <2>3. CASE PassChunk
    <3>1. samples # <<>> /\ samples' = Tail(samples) /\ chain' = chain
      BY <2>3 DEF PassChunk
    <3> QED  BY <1>1, <3>1, TailOf
  <2>4. CASE UNCHANGED vars
    BY <1>1, <2>4 DEF vars
  <2> QED  BY <2>1, <2>2, <2>3, <2>4 DEF AppendSilence
<1> QED  BY <1>3, <1>4, <1>5, <1>6, <1>7 DEF DataInv

LEMMA WholeStep ==
  ASSUME Filled, Regular, HeaderRoom(P) > 0, WholeInv, [Next]_vars
  PROVE  WholeInv'
<1>1. PathInv' /\ StartInv'
  BY PathInvStep, StartStep DEF WholeInv, PathInv
<1>2. fault' = "none"
  BY <1>1 DEF PathInv, ControllerInv, TCP!NoFault
<1>3. DataInv'
  BY <1>2, DataSendPDU, DataCRC16, DataRandomize, DataHandleCrc, DataSendHeader,
     DataSendPayload, DataBehind DEF Next, CRC16, Randomize, Controller
<1> QED  BY <1>1, <1>3 DEF WholeInv

LEMMA WholeTyped ==
  ASSUME WholeInv
  PROVE  TypeOK
<1>1. PathTypes /\ StartInv /\ Inputs /\ CrcCounter /\ RndCounter /\ Written
      /\ chain \in Seq(FrameChunk) /\ samples \in Seq(FrameChunk)
  BY DEF WholeInv, PathInv, DataInv
<1>2. nextFrame \in 1..(NFrames + 1) /\ {crcSize, rndSize, payloadSize} \subseteq Lengths
  BY <1>1 DEF PathTypes
<1>3. crcCount \in 0..(crcSize - 1) /\ crcCount = Len(crcBytes)
  <2>1. PICK f : Within(CrcDone, f, crcCount) /\ Len(crcBytes) = crcCount
    BY <1>1 DEF CrcCounter, CrcCounts
  <2>2. crcCount \in Nat /\ crcSize \in Nat /\ crcSize > 0
    BY <1>1, SizesTyped DEF PathTypes
  <2>3. crcCount > 0 => crcCount < crcSize
    <3> SUFFICES ASSUME crcCount > 0 PROVE crcCount < crcSize
      OBVIOUS
    <3>1. crcSize = len[f]
      BY <1>1, <2>1 DEF CrcCounter
    <3>2. crcCount # 0
      BY <2>2
    <3> QED  BY <2>1, <3>1, <3>2 DEF Within
  <2> QED  BY <2>1, <2>2, <2>3
<1>4. lfsr = rndCount + 1
  BY <1>1 DEF RndCounter, RndCounts
<1>5. fault = "none"
  BY DEF WholeInv, PathInv, ControllerInv, TCP!NoFault
<1>6. \A q \in {chain, samples} : \A i \in DOMAIN q : q[i] \in [frame : Frames, last : BOOLEAN]
  <2>1. \A q \in Seq(FrameChunk) : \A i \in DOMAIN q : q[i] \in FrameChunk
    BY ItemsOf
  <2> QED  BY <1>1, <2>1, Zenon DEF FrameChunk
<1>7. /\ startMsgs \in Nat /\ absorbed \in Nat /\ transmittingFrame \in BOOLEAN
      /\ Ended \in Nat
      /\ Ended + absorbed + startMsgs + (IF transmittingFrame THEN 1 ELSE 0) = Started
  BY <1>1 DEF StartInv, StartTypes, Counted
<1>8. Started <= NFrames /\ Started \in Nat /\ NFrames \in Nat
  <2>1. Len(frames) \in 0..NFrames /\ NFrames \in Nat /\ Len(frames) \in Nat
    BY <1>1, SizesTyped, PathSequences
  <2>2. CASE currentState = "sendingPayload"
    <3>1. Len(frames) + 1 \in 1..NFrames
      BY <1>1, <2>2 DEF Written, Frames
    <3> QED  BY <2>1, <2>2, <3>1 DEF Started
  <2>3. CASE currentState # "sendingPayload"
    BY <2>1, <2>3 DEF Started
  <2> QED  BY <2>1, <2>2, <2>3
<1>9. startMsgs \in 0..NFrames /\ absorbed \in 0..NFrames
  <2>1. PICK b \in Nat : b = IF transmittingFrame THEN 1 ELSE 0
    OBVIOUS
  <2> QED  BY <2>1, <1>7, <1>8
<1> QED  BY <1>2, <1>3, <1>4, <1>5, <1>6, <1>7, <1>9 DEF TypeOK

LEMMA WholeCorrect ==
  ASSUME Filled, Regular, HeaderRoom(P) > 0
  PROVE  Spec => []WholeInv
<1>1. Init => WholeInv
  BY PathInvInit, StartInit, DataInit DEF WholeInv, PathInv
<1>2. WholeInv /\ [Next]_vars => WholeInv'
  BY WholeStep
<1> QED  BY <1>1, <1>2, PTL DEF Spec

(* For every number and length of frames that fill a header block with     *)
(* room for payload, the source sending one size or waiting between        *)
(* frames: byteCount never reaches payloadSize between calls and counts    *)
(* the bytes kept (CRC16_impl.cc:122-145), the LFSR state is that of the   *)
(* byte's place (randomize_impl.cc:99-117), no chunk belongs to a frame    *)
(* that was not sent, and no call of the controller reads past its input.  *)
THEOREM PathTyped ==
  ASSUME Filled, Regular, HeaderRoom(P) > 0
  PROVE  Spec => []TypeOK
<1>1. WholeInv => TypeOK
  BY WholeTyped
<1> QED  BY <1>1, WholeCorrect, PTL

(* Under the same conditions the j-th frame the controller writes is the   *)
(* j-th PDU, under its own length and with every nibble whitened in its    *)
(* place, however the bytes are cut into calls of randomize and whenever   *)
(* each block runs (TransmitterController_impl.cc:119-250).                *)
THEOREM FramesWritten ==
  ASSUME Filled, Regular, HeaderRoom(P) > 0
  PROVE  Spec => []FrameIntegrity
<1>1. WholeInv => FrameIntegrity
  BY DEF WholeInv, DataInv
<1> QED  BY <1>1, WholeCorrect, PTL

(* Under the same conditions a spaced frame that carries a CRC carries its *)
(* own or the one of the frame before, complete: the setCRC message was    *)
(* handled in time or not (TransmitterController_impl.cc:75, :172, :211).  *)
THEOREM CrcLateByOne ==
  ASSUME Filled, Regular, HeaderRoom(P) > 0
  PROVE  Spec => []CrcAtMostOneBehind
<1>1. WholeInv => CrcAtMostOneBehind
  BY DEF WholeInv, DataInv
<1> QED  BY <1>1, WholeCorrect, PTL
=============================================================================
