-------------------------- MODULE ReceiverTailProofs --------------------------
(***************************************************************************)
(* Proofs about ReceiverTail, for any number of frames of any length, cut  *)
(* off, empty or without CRC, back to back or spaced.  The invariant rests *)
(* on one function of the scenario, Ends: byte i of frame f is item        *)
(* Ends[f - 1] + i of the stream, and the tag of frame f is on the item    *)
(* after Ends[f - 1], whether or not that is a byte of frame f.            *)
(***************************************************************************)
EXTENDS ReceiverTail, Basics

SizeOf(f) == IF frames[f].cut THEN 0 ELSE frames[f].len

(* The last frame whose payload was sent or given up.                      *)
SentUpTo == IF receiving THEN accepted - 1 ELSE accepted

(* Item k of the stream is byte i of frame f.                              *)
At(f, i, k) ==
  /\ f \in 1..SentUpTo /\ ~frames[f].cut /\ i \in 1..frames[f].len
  /\ k = Ends[f - 1] + i

TagRecord == [at : Nat, frame : Nat]
CrcMsg == [port : {"setPayloadSize", "setXorOut"}, frame : Nat]
Byte == Nat \X Nat
PlainByte == Nat \X Nat \X Nat
RndState == [lfsr : Nat, payloadSize : 0..255, byteCount : Nat]
CrcState == [covers : Seq(PlainByte), xorOut : Nat, payloadSize : 0..255, byteCount : Nat]
Check == [covers : Seq(PlainByte), xorOut : Nat]

TailType ==
  /\ scenario \in Scenarios
  /\ accepted \in 0..Len(frames) /\ receiving \in BOOLEAN
  /\ receiving => accepted > 0
  /\ tags \in Seq(TagRecord) /\ lfsrMsgs \in Seq(Nat) /\ crcMsgs \in Seq(CrcMsg)
  /\ white \in Seq(Byte) /\ whiteRead \in Nat
  /\ rnd \in RndState
  /\ plain \in Seq(PlainByte) /\ plainRead \in Nat
  /\ crc \in CrcState
  /\ bytesOut \in Seq(PlainByte) /\ crcOut \in Seq(Check)
  /\ disturbed \subseteq {"randomize", "CRC16"}

(* Every byte is in its place, before randomize and behind it, and the tag *)
(* of a frame where its first byte is, or would have been.                 *)
Streams ==
  /\ Written = Ends[SentUpTo]
  /\ \A k \in 1..Len(white) : At(white[k][1], white[k][2], whiteRead + k)
  /\ Len(bytesOut) = whiteRead
  /\ \A k \in 1..whiteRead : At(bytesOut[k][1], bytesOut[k][2], k)
  /\ whiteRead = plainRead + Len(plain)
  /\ \A k \in 1..Len(plain) : plain[k] = bytesOut[plainRead + k]
  /\ Len(tags) = accepted
  /\ \A j \in 1..accepted : tags[j] = [at |-> Ends[j - 1], frame |-> j]
-----------------------------------------------------------------------------
LEMMA FramesTyped ==
  ASSUME scenario \in Scenarios
  PROVE  /\ scenario.spaced \in BOOLEAN
         /\ frames \in Seq(Frame)
         /\ Len(frames) \in Nat
         /\ \A f \in 1..Len(frames) :
              frames[f].len \in 0..255 /\ frames[f].crc \in BOOLEAN /\ frames[f].cut \in BOOLEAN
<1>1. scenario.spaced \in BOOLEAN /\ frames \in Seq(Frame)
  BY ScenariosAssumption DEF frames
<1>2. \A f \in 1..Len(frames) : frames[f] \in Frame
  BY <1>1
<1> QED  BY <1>1, <1>2 DEF Frame

LEMMA SizesTyped ==
  ASSUME scenario \in Scenarios
  PROVE  Len(frames) \in Nat /\ \A f \in 1..Len(frames) : SizeOf(f) \in Nat
<1>1. ASSUME NEW f \in 1..Len(frames)
      PROVE  SizeOf(f) \in Nat
  <2>1. PICK l \in 0..255 : l = frames[f].len
    BY FramesTyped
  <2>2. SizeOf(f) = l \/ SizeOf(f) = 0
    BY <2>1 DEF SizeOf
  <2> QED  BY <2>2
<1> QED  BY <1>1, FramesTyped

(* Ends, unfolded ...                                                      *)
LEMMA EndsUnfold ==
  ASSUME scenario \in Scenarios
  PROVE  /\ Ends \in [0..Len(frames) -> Nat]
         /\ Ends[0] = 0
         /\ \A f \in 1..Len(frames) : Ends[f] = Ends[f - 1] + SizeOf(f)
<1> DEFINE n == Len(frames)
           step == [f \in 1..n |-> [e \in Nat |-> e + SizeOf(f)]]
           Unfolds(g) == g = [f \in 0..n |-> IF f = 0 THEN 0 ELSE g[f - 1] + SizeOf(f)]
<1>1. n \in Nat /\ \A f \in 1..n : SizeOf(f) \in Nat
  BY SizesTyped
<1>2. step \in [1..n -> [Nat -> Nat]]
  BY <1>1
<1>3. PICK g \in [0..n -> Nat] : SolvesRecursion(g, n, 0, step)
  <2> HIDE DEF n, step
  <2>1. 0 \in Nat
    OBVIOUS
  <2> QED  BY <1>1, <1>2, <2>1, RecursionExists
<1>4. Unfolds(g)
  <2>1. ASSUME NEW f \in 0..n, f # 0
        PROVE  step[f][g[f - 1]] = g[f - 1] + SizeOf(f)
    <3>1. f \in 1..n /\ g[f - 1] \in Nat
      BY <2>1, <1>1
    <3> QED  BY <3>1
  <2> HIDE DEF n, step
  <2> QED  BY <1>3, <2>1 DEF SolvesRecursion
<1>5. Unfolds(Ends)
  <2>1. Ends = CHOOSE e : Unfolds(e)
    BY DEF Ends, SizeOf
  <2> HIDE DEF Unfolds
  <2> QED  BY <1>4, <2>1
<1> DEFINE T == {f \in 0..n : Ends[f] \in Nat}
<1>6. \A f \in 0..n : Ends[f] = IF f = 0 THEN 0 ELSE Ends[f - 1] + SizeOf(f)
  BY <1>5
<1>7. 0..n \subseteq T
  <2>1. 0 \in T
    BY <1>1, <1>6
  <2>2. ASSUME NEW f \in 0..n, f \in T, f < n
        PROVE  f + 1 \in T
    <3>1. f + 1 \in 1..n /\ f + 1 \in 0..n /\ (f + 1) - 1 = f /\ f + 1 # 0
      BY <2>2, <1>1
    <3>2. Ends[f + 1] = Ends[f] + SizeOf(f + 1)
      BY <3>1, <1>6
    <3> QED  BY <3>1, <3>2, <2>2, <1>1
  <2> HIDE DEF T, n
  <2> QED  BY <1>1, <2>1, <2>2, InductTo
<1>8. Ends \in [0..n -> Nat]
  <2>1. Ends = [f \in 0..n |-> Ends[f]]
    BY <1>5
  <2>2. \A f \in 0..n : Ends[f] \in Nat
    BY <1>7
  <2> QED  BY <2>1, <2>2
<1> QED  BY <1>1, <1>6, <1>8

(* ... never falls.                                                        *)
LEMMA EndsMonotone ==
  ASSUME scenario \in Scenarios, NEW f \in 0..Len(frames), NEW g \in 0..Len(frames), f <= g
  PROVE  Ends[f] <= Ends[g]
<1> DEFINE n == Len(frames)
           T == {h \in 0..n : \A e \in 0..h : Ends[e] <= Ends[h]}
<1>1. n \in Nat /\ \A h \in 1..n : SizeOf(h) \in Nat
  BY SizesTyped
<1>2. /\ \A h \in 0..n : Ends[h] \in Nat
      /\ \A h \in 1..n : Ends[h] = Ends[h - 1] + SizeOf(h)
  BY EndsUnfold
<1> HIDE DEF n
<1>3. 0 \in T
  BY <1>1, <1>2
<1>4. ASSUME NEW h \in 0..n, h \in T, h < n
      PROVE  h + 1 \in T
  <2>1. h + 1 \in 1..n /\ h + 1 \in 0..n /\ (h + 1) - 1 = h
    BY <1>4, <1>1
  <2>2. Ends[h + 1] = Ends[h] + SizeOf(h + 1)
    BY <2>1, <1>2
  <2>3. Ends[h] <= Ends[h + 1]
    BY <2>1, <2>2, <1>1, <1>2
  <2>4. ASSUME NEW e \in 0..(h + 1)
        PROVE  Ends[e] <= Ends[h + 1]
    <3>1. CASE e = h + 1
      BY <3>1, <1>2, <2>1
    <3>2. CASE e \in 0..h
      <4>1. Ends[e] <= Ends[h]
        BY <3>2, <1>4
      <4>2. e \in 0..n
        BY <3>2, <1>4, <1>1
      <4> QED  BY <4>1, <4>2, <2>3, <1>2, <2>1
    <3> QED  BY <3>1, <3>2, <1>4
  <2> QED  BY <2>1, <2>4
<1>5. 0..n \subseteq T
  <2> HIDE DEF T
  <2> QED  BY <1>1, <1>3, <1>4, InductTo
<1>6. f \in 0..n /\ g \in 0..n /\ f \in 0..g
  BY DEF n
<1> QED  BY <1>5, <1>6

LEMMA SentRange ==
  ASSUME TailType
  PROVE  SentUpTo \in 0..Len(frames) /\ SentUpTo <= accepted /\ Len(frames) \in Nat
<1>1. Len(frames) \in Nat
  BY FramesTyped DEF TailType
<1> QED  BY <1>1 DEF TailType, SentUpTo

LEMMA PlaceTyped ==
  ASSUME TailType, NEW f, NEW i, NEW k, At(f, i, k)
  PROVE  /\ f \in 1..Len(frames) /\ f - 1 \in 0..Len(frames) /\ f \in 0..Len(frames)
         /\ f <= SentUpTo
         /\ frames[f].len \in 0..255 /\ i \in Nat /\ i >= 1 /\ i <= frames[f].len
         /\ k = Ends[f - 1] + i /\ Ends[f] = Ends[f - 1] + frames[f].len
         /\ Ends[f - 1] + i <= Ends[f]
<1>1. f \in 1..SentUpTo /\ i \in 1..frames[f].len /\ k = Ends[f - 1] + i
      /\ SizeOf(f) = frames[f].len
  BY DEF At, SizeOf
<1>2. f \in 1..Len(frames) /\ f - 1 \in 0..Len(frames) /\ f \in 0..Len(frames) /\ f <= SentUpTo
  BY <1>1, SentRange
<1>3. scenario \in Scenarios
  BY DEF TailType
<1>4. frames[f].len \in 0..255
  BY <1>2, <1>3, FramesTyped
<1>5. Ends[f] = Ends[f - 1] + frames[f].len /\ Ends[f - 1] \in Nat
  BY <1>1, <1>2, <1>3, EndsUnfold
<1>6. i \in Nat /\ i >= 1 /\ i <= frames[f].len
  BY <1>1, <1>4
<1>7. Ends[f - 1] + i <= Ends[f]
  BY <1>4, <1>5, <1>6
<1> QED  BY <1>1, <1>2, <1>4, <1>5, <1>6, <1>7

(* A frame whose byte comes later in the stream is not an earlier frame,   *)
(* and within a frame bytes are in order.                                  *)
LEMMA PlacesOrdered ==
  ASSUME TailType,
         NEW f, NEW i, NEW k \in Nat, At(f, i, k),
         NEW g, NEW j, NEW m \in Nat, At(g, j, m), k <= m
  PROVE  f <= g /\ (f = g => j = i + (m - k))
<1>1. /\ f \in 1..Len(frames) /\ f - 1 \in 0..Len(frames) /\ f \in 0..Len(frames)
      /\ g \in 1..Len(frames) /\ g - 1 \in 0..Len(frames) /\ g \in 0..Len(frames)
      /\ i \in Nat /\ i >= 1 /\ j \in Nat /\ j >= 1
      /\ Ends[f - 1] + i <= Ends[f] /\ Ends[g - 1] + j <= Ends[g]
      /\ k = Ends[f - 1] + i /\ m = Ends[g - 1] + j
  BY PlaceTyped
<1>2. /\ Ends[f] \in Nat /\ Ends[g] \in Nat /\ Ends[f - 1] \in Nat /\ Ends[g - 1] \in Nat
  BY <1>1, EndsUnfold DEF TailType
<1>3. CASE g < f
  <2>1. g <= f - 1 /\ scenario \in Scenarios
    BY <1>1, <1>3 DEF TailType
  <2>2. Ends[g] <= Ends[f - 1]
    BY <1>1, <2>1, EndsMonotone
  <2>3. PICK e \in Nat, d \in Nat : e = Ends[g] /\ d = Ends[f - 1]
    BY <1>2
  <2>4. m <= e /\ e <= d /\ k = d + i
    BY <2>2, <2>3, <1>1
  <2> QED  BY <2>4, <1>1
<1>4. CASE f <= g
  <2>1. ASSUME f = g PROVE j = i + (m - k)
    <3>1. PICK e \in Nat : e = Ends[f - 1] /\ e = Ends[g - 1]
      BY <1>2, <2>1
    <3>2. k = e + i /\ m = e + j
      BY <1>1, <3>1
    <3> QED  BY <1>1, <3>2
  <2> QED  BY <2>1, <1>4
<1> QED  BY <1>1, <1>3, <1>4
-----------------------------------------------------------------------------
(* The tags on an item.                                                    *)
LEMMA TagOnIs ==
  ASSUME tags \in Seq(TagRecord), NEW item
  PROVE  /\ TagOn(item) \in 0..Len(tags)
         /\ TagOn(item) = 0 => \A j \in 1..Len(tags) : tags[j].at # item
         /\ TagOn(item) # 0 => tags[TagOn(item)].at = item
         /\ \A j \in 1..Len(tags) : tags[j].at = item => TagOn(item) # 0 /\ TagOn(item) <= j
<1> DEFINE I == {j \in 1..Len(tags) : tags[j].at = item}
<1>1. TagOn(item) = IF I # {} THEN Min(I) ELSE 0
  BY Zenon DEF TagOn, SelectInSeq
<1>2. CASE I = {}
  BY <1>1, <1>2
<1>3. CASE I # {}
  <2>1. \E x \in I : \A y \in I : x <= y
    <3>1. I \subseteq Nat
      OBVIOUS
    <3> HIDE DEF I
    <3> QED  BY <3>1, <1>3, NatMin
  <2>2. Min(I) \in I /\ \A y \in I : Min(I) <= y
    <3> HIDE DEF I
    <3> QED  BY <2>1 DEF Min
  <2>3. TagOn(item) = Min(I)
    BY <1>1, <1>3
  <2> HIDE DEF TagOn
  <2>4. TagOn(item) \in I /\ \A y \in I : TagOn(item) <= y
    BY <2>2, <2>3
  <2>5. TagOn(item) \in 1..Len(tags) /\ tags[TagOn(item)].at = item
    BY <2>4
  <2> QED  BY <2>4, <2>5
<1> QED  BY <1>2, <1>3

(* Only a frame's first byte carries tags: its own, and before it those    *)
(* that frames without bytes left there.                                   *)
LEMMA TagOfByte ==
  ASSUME TailType, Streams, NEW f, NEW i, NEW k \in Nat, At(f, i, k + 1)
  PROVE  /\ i > 1 => TagOn(k) = 0
         /\ i = 1 => /\ TagOn(k) \in 1..f /\ f \in 1..accepted
                     /\ tags[TagOn(k)].frame = TagOn(k)
                     /\ tags[TagOn(k)].at = k /\ tags[f].at = k
<1>1. /\ f \in 1..Len(frames) /\ f - 1 \in 0..Len(frames) /\ f \in 0..Len(frames)
      /\ f <= SentUpTo
      /\ i \in Nat /\ i >= 1 /\ i <= frames[f].len
      /\ k + 1 = Ends[f - 1] + i /\ Ends[f] = Ends[f - 1] + frames[f].len
      /\ frames[f].len \in 0..255
  BY PlaceTyped
<1>2. /\ Len(tags) = accepted
      /\ \A j \in 1..accepted : tags[j].at = Ends[j - 1] /\ tags[j].frame = j
  BY DEF Streams
<1>3. /\ accepted \in 0..Len(frames) /\ scenario \in Scenarios /\ tags \in Seq(TagRecord)
      /\ f <= accepted /\ Len(frames) \in Nat
  BY <1>1, SentRange, FramesTyped DEF TailType
<1>4. \A h \in 0..Len(frames) : Ends[h] \in Nat
  BY <1>3, EndsUnfold
<1>5. ASSUME NEW j \in 1..accepted, tags[j].at = k
      PROVE  i = 1 /\ j <= f
  <2>1. j - 1 \in 0..Len(frames) /\ j \in Nat /\ f \in Nat
    BY <1>1, <1>3
  <2>2. Ends[j - 1] = k
    BY <1>2, <1>5
  <2>3. CASE f < j
    <3>1. f <= j - 1
      BY <2>1, <2>3
    <3>2. Ends[f] <= Ends[j - 1]
      BY <3>1, <2>1, <1>1, <1>3, EndsMonotone
    <3>3. PICK n \in 0..255 : n = frames[f].len
      BY <1>1
    <3> QED  BY <3>2, <3>3, <2>2, <1>1, <1>4, SMTT(30)
  <2>4. CASE j <= f
    <3>1. j - 1 <= f - 1
      BY <2>1, <2>4
    <3>2. Ends[j - 1] <= Ends[f - 1]
      BY <3>1, <2>1, <1>1, <1>3, EndsMonotone
    <3>3. i = 1
      BY <3>2, <2>2, <1>1, <1>4
    <3> QED  BY <3>3, <2>4
  <2> QED  BY <2>1, <2>3, <2>4
<1>6. /\ TagOn(k) \in 0..accepted
      /\ TagOn(k) # 0 => tags[TagOn(k)].at = k
      /\ \A j \in 1..accepted : tags[j].at = k => TagOn(k) # 0 /\ TagOn(k) <= j
  BY <1>2, <1>3, TagOnIs
<1>7. ASSUME i > 1 PROVE TagOn(k) = 0
  BY <1>1, <1>3, <1>5, <1>6, <1>7
<1>8. ASSUME i = 1
      PROVE  /\ TagOn(k) \in 1..f /\ f \in 1..accepted
             /\ tags[TagOn(k)].frame = TagOn(k)
             /\ tags[TagOn(k)].at = k /\ tags[f].at = k
  <2>1. f \in 1..accepted
    BY <1>1, <1>3
  <2>2. k = Ends[f - 1]
    BY <1>1, <1>4, <1>8
  <2>3. tags[f].at = k
    BY <2>1, <2>2, <1>2
  <2>4. TagOn(k) # 0 /\ TagOn(k) <= f
    BY <2>1, <2>3, <1>6
  <2>5. TagOn(k) \in 1..f /\ TagOn(k) \in 1..accepted
    BY <2>1, <2>4, <1>3, <1>6
  <2> QED  BY <2>1, <2>3, <2>4, <2>5, <1>2, <1>6
<1> QED  BY <1>7, <1>8

(* The size a block has after it looked for tags.                          *)
LEMMA SizeOfByte ==
  ASSUME TailType, Streams, NEW f, NEW i, NEW k \in Nat, At(f, i, k + 1),
         ~ForeignTag(k, f), NEW size
  PROVE  TaggedSize(k, size) = IF i = 1 THEN frames[f].len ELSE size
<1>1. i = 1 \/ i > 1
  BY PlaceTyped
<1>2. CASE i > 1
  <2>1. TagOn(k) = 0 /\ i # 1
    BY <1>2, TagOfByte
  <2> QED  BY <2>1 DEF TaggedSize
<1>3. CASE i = 1
  <2>1. TagOn(k) # 0
    BY <1>3, TagOfByte
  <2>2. tags[TagOn(k)].frame = f
    BY <2>1 DEF ForeignTag
  <2> QED  BY <2>1, <2>2, <1>3 DEF TaggedSize
<1> QED  BY <1>1, <1>2, <1>3

(* A tag of another frame was left by a frame without bytes.               *)
LEMMA ForeignTagExplained ==
  ASSUME TailType, Streams, NEW f, NEW i, NEW k \in Nat, At(f, i, k + 1), ForeignTag(k, f)
  PROVE  \E a, b \in DOMAIN tags :
           /\ a < b /\ tags[a].at = tags[b].at
           /\ frames[tags[a].frame].cut \/ frames[tags[a].frame].len = 0
<1> DEFINE a == TagOn(k)
<1>1. a # 0 /\ tags[a].frame # f
  BY DEF ForeignTag
<1>2. i = 1
  <2>1. i = 1 \/ i > 1
    BY PlaceTyped
  <2>2. ~(i > 1)
    BY <1>1, TagOfByte
  <2> QED  BY <2>1, <2>2
<1>3. /\ a \in 1..f /\ f \in 1..accepted /\ tags[a].frame = a
      /\ tags[a].at = k /\ tags[f].at = k
  BY <1>2, TagOfByte
<1> HIDE DEF a
<1>4. accepted \in 0..Len(frames) /\ Len(frames) \in Nat /\ scenario \in Scenarios
      /\ DOMAIN tags = 1..accepted
  BY FramesTyped DEF TailType, Streams
<1>5. /\ a \in 1..accepted /\ a < f /\ a <= f - 1
      /\ a \in 0..Len(frames) /\ a - 1 \in 0..Len(frames) /\ f - 1 \in 0..Len(frames)
      /\ a \in 1..Len(frames)
  BY <1>1, <1>3, <1>4
<1>6. Ends[a - 1] = k /\ Ends[f - 1] = k
  BY <1>3, <1>5 DEF Streams
<1>7. Ends[a] <= Ends[f - 1]
  BY <1>4, <1>5, EndsMonotone
<1>8. Ends[a] = Ends[a - 1] + SizeOf(a) /\ SizeOf(a) \in Nat
  BY <1>4, <1>5, EndsUnfold, SizesTyped
<1>9. SizeOf(a) = 0
  BY <1>6, <1>7, <1>8
<1>10. frames[a].cut \/ frames[a].len = 0
  BY <1>9 DEF SizeOf
<1> QED  BY <1>3, <1>4, <1>5, <1>10
-----------------------------------------------------------------------------
(* The states of randomize within one call.                                *)
LEMMA RandomizeByteTyped ==
  ASSUME NEW r \in RndState
  PROVE  RandomizeByte(r) \in RndState
<1>1. r.lfsr \in Nat /\ r.byteCount \in Nat
  BY DEF RndState
<1>2. Shifted(r.lfsr) \in Nat /\ Off \in Nat /\ r.byteCount + 1 \in Nat
  BY <1>1 DEF Shifted, Off
<1> QED  BY <1>2 DEF RndState, RandomizeByte

LEMMA RandomizeStatesUnfold ==
  ASSUME NEW start \in RndState, NEW n \in Nat
  PROVE  LET state == RandomizeStates(start, n)
         IN  /\ state \in [0..n -> RndState]
             /\ state[0] = start
             /\ \A i \in 1..n : state[i] = RandomizeByte(state[i - 1])
<1> DEFINE step == [i \in 1..n |-> [r \in RndState |-> RandomizeByte(r)]]
           Unfolds(g) == g = [i \in 0..n |-> IF i = 0 THEN start ELSE RandomizeByte(g[i - 1])]
           state == RandomizeStates(start, n)
<1>1. step \in [1..n -> [RndState -> RndState]]
  BY RandomizeByteTyped
<1>2. PICK g \in [0..n -> RndState] : SolvesRecursion(g, n, start, step)
  <2> HIDE DEF step
  <2> QED  BY <1>1, RecursionExists
<1>3. Unfolds(g)
  <2>1. ASSUME NEW i \in 0..n, i # 0
        PROVE  step[i][g[i - 1]] = RandomizeByte(g[i - 1])
    <3>1. i \in 1..n /\ g[i - 1] \in RndState
      BY <2>1
    <3> QED  BY <3>1
  <2> HIDE DEF step
  <2> QED  BY <1>2, <2>1 DEF SolvesRecursion
<1>4. Unfolds(state)
  <2>1. state = CHOOSE e : Unfolds(e)
    BY DEF RandomizeStates
  <2> HIDE DEF Unfolds, state
  <2> QED  BY <1>3, <2>1
<1> HIDE DEF state
<1>5. \A i \in 0..n : state[i] = IF i = 0 THEN start ELSE RandomizeByte(state[i - 1])
  BY <1>4
<1> DEFINE T == {i \in 0..n : state[i] \in RndState}
<1>6. 0..n \subseteq T
  <2>1. 0 \in T
    BY <1>5
  <2>2. ASSUME NEW i \in 0..n, i \in T, i < n
        PROVE  i + 1 \in T
    <3>1. i + 1 \in 0..n /\ (i + 1) - 1 = i /\ i + 1 # 0
      BY <2>2
    <3>2. state[i + 1] = RandomizeByte(state[i])
      BY <3>1, <1>5
    <3> QED  BY <3>1, <3>2, <2>2, RandomizeByteTyped
  <2> HIDE DEF T
  <2> QED  BY <2>1, <2>2, InductTo
<1>7. state \in [0..n -> RndState]
  <2>1. state = [i \in 0..n |-> state[i]]
    BY <1>4
  <2>2. \A i \in 0..n : state[i] \in RndState
    BY <1>6
  <2> QED  BY <2>1, <2>2
<1>8. \A i \in 1..n : state[i] = RandomizeByte(state[i - 1])
  BY <1>5
<1> QED  BY <1>5, <1>7, <1>8 DEF state

(* From byte i of a frame of a known length on it counts to the end.       *)
RandomizeCounting(state, start, n, i, len) ==
  \A m \in 0..n :
    /\ state[m].payloadSize = len
    /\ i + m < len => state[m].byteCount = i + m /\ state[m].lfsr = start.lfsr + m
    /\ m > 0 /\ i + m = len => state[m].byteCount = 0

LEMMA RandomizeCounts ==
  ASSUME NEW start \in RndState, NEW n \in Nat, NEW i \in Nat, NEW len \in 1..255,
         start.payloadSize = len, start.byteCount = i, i + n <= len, start.lfsr # 0
  PROVE  RandomizeCounting(RandomizeStates(start, n), start, n, i, len)
<1> DEFINE state == RandomizeStates(start, n)
           Counted(m) ==
             /\ state[m].payloadSize = len
             /\ i + m < len => state[m].byteCount = i + m /\ state[m].lfsr = start.lfsr + m
             /\ m > 0 /\ i + m = len => state[m].byteCount = 0
           T == {m \in 0..n : Counted(m)}
<1>1. /\ state[0] = start /\ \A m \in 0..n : state[m] \in RndState
      /\ \A m \in 1..n : state[m] = RandomizeByte(state[m - 1])
  BY RandomizeStatesUnfold
<1> HIDE DEF state
<1>2. 0 \in T
  <2>1. start.lfsr + 0 = start.lfsr /\ i + 0 = i
    BY DEF RndState
  <2> QED  BY <1>1, <2>1
<1>3. ASSUME NEW m \in 0..n, m \in T, m < n
      PROVE  m + 1 \in T
  <2>1. m + 1 \in 1..n /\ m + 1 \in 0..n /\ (m + 1) - 1 = m /\ i + m < len
    <3> HIDE DEF T
    <3> QED  BY <1>3
  <2>2. state[m + 1] = RandomizeByte(state[m])
    BY <1>1, <2>1
  <2>3. PICK r \in RndState : r = state[m]
    BY <1>1
  <2>4. r.payloadSize = len /\ r.byteCount = i + m /\ r.lfsr = start.lfsr + m
    BY <1>3, <2>1, <2>3
  <2>5. r.lfsr # 0 /\ r.lfsr \in Nat /\ start.lfsr \in Nat
    BY <2>4 DEF RndState
  <2>6. /\ state[m + 1].payloadSize = len
        /\ state[m + 1].byteCount = IF i + m + 1 = len THEN 0 ELSE i + m + 1
        /\ i + m + 1 # len => state[m + 1].lfsr = start.lfsr + m + 1
    BY <2>2, <2>3, <2>4, <2>5 DEF RandomizeByte, Shifted, Off, RndState
  <2> QED  BY <2>1, <2>5, <2>6
<1>4. 0..n \subseteq T
  <2> HIDE DEF T
  <2> QED  BY <1>2, <1>3, InductTo
<1> QED  BY <1>4 DEF state, RandomizeCounting
-----------------------------------------------------------------------------
(* The states of CRC16 within one call.                                    *)
CallState == [crc : CrcState, outs : Seq(Check)]

LEMMA CRCByteTyped ==
  ASSUME NEW s \in CallState, NEW b \in PlainByte
  PROVE  CRCByte(s, b) \in CallState
<1>1. /\ s.crc \in CrcState /\ s.outs \in Seq(Check)
      /\ s.crc.covers \in Seq(PlainByte) /\ s.crc.xorOut \in Nat
      /\ s.crc.payloadSize \in 0..255 /\ s.crc.byteCount \in Nat
  BY DEF CallState, CrcState
<1> DEFINE covers == Append(s.crc.covers, b)
           check == [covers |-> covers, xorOut |-> s.crc.xorOut]
           end == s.crc.byteCount + 1 = s.crc.payloadSize
           newCovers == IF end THEN <<>> ELSE covers
           newCount == IF end THEN 0 ELSE s.crc.byteCount + 1
           newOuts == IF end THEN Append(s.outs, check) ELSE s.outs
<1>2. covers \in Seq(PlainByte) /\ <<>> \in Seq(PlainByte)
  BY <1>1
<1>3. newCovers \in Seq(PlainByte)
  BY <1>2
<1>4. newCount \in Nat
  BY <1>1
<1>5. newOuts \in Seq(Check)
  <2>1. check \in Check
    BY <1>1, <1>2 DEF Check
  <2> QED  BY <1>1, <2>1
<1>6. CRCByte(s, b) = [crc |-> [s.crc EXCEPT !.covers = newCovers, !.byteCount = newCount],
                       outs |-> newOuts]
  BY DEF CRCByte
<1> HIDE DEF newCovers, newCount, newOuts
<1>7. [s.crc EXCEPT !.covers = newCovers, !.byteCount = newCount] \in CrcState
  BY <1>1, <1>3, <1>4 DEF CrcState
<1> QED  BY <1>5, <1>6, <1>7 DEF CallState

LEMMA CRCStatesUnfold ==
  ASSUME NEW start \in CallState, NEW bytes \in Seq(PlainByte), NEW n \in 0..Len(bytes)
  PROVE  LET state == CRCStates(start, bytes, n)
         IN  /\ state \in [0..n -> CallState]
             /\ state[0] = start
             /\ \A i \in 1..n : state[i] = CRCByte(state[i - 1], bytes[i])
<1> DEFINE step == [i \in 1..n |-> [s \in CallState |-> CRCByte(s, bytes[i])]]
           Unfolds(g) == g = [i \in 0..n |-> IF i = 0 THEN start ELSE CRCByte(g[i - 1], bytes[i])]
           state == CRCStates(start, bytes, n)
<1>1. n \in Nat /\ \A i \in 1..n : bytes[i] \in PlainByte
  BY ItemsOf
<1>2. step \in [1..n -> [CallState -> CallState]]
  BY <1>1, CRCByteTyped
<1>3. PICK g \in [0..n -> CallState] : SolvesRecursion(g, n, start, step)
  <2> HIDE DEF step
  <2> QED  BY <1>1, <1>2, RecursionExists
<1>4. Unfolds(g)
  <2>1. ASSUME NEW i \in 0..n, i # 0
        PROVE  step[i][g[i - 1]] = CRCByte(g[i - 1], bytes[i])
    <3>1. i \in 1..n /\ g[i - 1] \in CallState
      BY <2>1
    <3> QED  BY <3>1
  <2> HIDE DEF step
  <2> QED  BY <1>3, <2>1 DEF SolvesRecursion
<1>5. Unfolds(state)
  <2>1. state = CHOOSE e : Unfolds(e)
    BY DEF CRCStates
  <2> HIDE DEF Unfolds, state
  <2> QED  BY <1>4, <2>1
<1> HIDE DEF state
<1>6. \A i \in 0..n : state[i] = IF i = 0 THEN start ELSE CRCByte(state[i - 1], bytes[i])
  BY <1>5
<1> DEFINE T == {i \in 0..n : state[i] \in CallState}
<1>7. 0..n \subseteq T
  <2>1. 0 \in T
    BY <1>6
  <2>2. ASSUME NEW i \in 0..n, i \in T, i < n
        PROVE  i + 1 \in T
    <3>1. i + 1 \in 0..n /\ i + 1 \in 1..n /\ (i + 1) - 1 = i /\ i + 1 # 0
      BY <2>2
    <3>2. state[i + 1] = CRCByte(state[i], bytes[i + 1])
      BY <3>1, <1>6
    <3> QED  BY <3>1, <3>2, <2>2, <1>1, CRCByteTyped
  <2> HIDE DEF T
  <2> QED  BY <2>1, <2>2, <1>1, InductTo
<1>8. state \in [0..n -> CallState]
  <2>1. state = [i \in 0..n |-> state[i]]
    BY <1>5
  <2>2. \A i \in 0..n : state[i] \in CallState
    BY <1>7
  <2> QED  BY <2>1, <2>2
<1>9. \A i \in 1..n : state[i] = CRCByte(state[i - 1], bytes[i])
  BY <1>6
<1> QED  BY <1>6, <1>8, <1>9 DEF state

(* What CRC16 covers after i bytes of frame f, dewhitened in their places. *)
DueUpTo(f, i) == [q \in 1..i |-> <<f, q, q>>]

LEMMA DueNext ==
  ASSUME NEW f \in Nat, NEW i \in Nat
  PROVE  /\ DueUpTo(f, i) \in Seq(PlainByte)
         /\ Append(DueUpTo(f, i), <<f, i + 1, i + 1>>) = DueUpTo(f, i + 1)
<1> DEFINE d == DueUpTo(f, i)
           e == DueUpTo(f, i + 1)
           b == <<f, i + 1, i + 1>>
<1>1. d \in Seq(PlainByte) /\ Len(d) = i /\ \A q \in 1..i : d[q] = <<f, q, q>>
  <2>1. d \in [1..i -> PlainByte]
    BY DEF DueUpTo, PlainByte
  <2>2. d \in Seq(PlainByte) /\ Len(d) = i
    BY <2>1, FunctionIsSeq
  <2> QED  BY <2>2 DEF DueUpTo
<1>2. e \in Seq(PlainByte) /\ Len(e) = i + 1 /\ \A q \in 1..(i + 1) : e[q] = <<f, q, q>>
  <2>1. e \in [1..(i + 1) -> PlainByte]
    BY DEF DueUpTo, PlainByte
  <2>2. e \in Seq(PlainByte) /\ Len(e) = i + 1
    BY <2>1, FunctionIsSeq
  <2> QED  BY <2>2 DEF DueUpTo
<1>3. b \in PlainByte
  BY DEF PlainByte
<1> HIDE DEF d, e, b
<1>4. /\ Append(d, b) \in Seq(PlainByte) /\ Len(Append(d, b)) = i + 1
      /\ \A q \in 1..i : Append(d, b)[q] = d[q]
      /\ Append(d, b)[i + 1] = b
  BY <1>1, <1>3, AppendAt
<1>5. ASSUME NEW q \in 1..(i + 1) PROVE Append(d, b)[q] = e[q]
  <2>1. CASE q = i + 1
    BY <2>1, <1>2, <1>4 DEF b
  <2>2. CASE q \in 1..i
    BY <2>2, <1>1, <1>2, <1>4
  <2>3. q = i + 1 \/ q \in 1..i
    OBVIOUS
  <2> QED  BY <2>1, <2>2, <2>3
<1>6. Append(d, b) = e
  BY <1>2, <1>4, <1>5, SameSeq
<1> QED  BY <1>1, <1>6 DEF d, e, b

(* The states of a call that starts after i bytes of a frame of length len.*)
Counting(state, start, n, i, len) ==
  \A m \in 0..n :
    /\ state[m].crc.payloadSize = len
    /\ state[m].crc.xorOut = start.crc.xorOut
    /\ i + m < len => state[m].crc.byteCount = i + m /\ state[m].outs = start.outs
    /\ m > 0 /\ i + m = len =>
         /\ state[m].crc.byteCount = 0
         /\ state[m].crc.covers = <<>>

LEMMA CRCCounts ==
  ASSUME NEW start \in CallState, NEW bytes \in Seq(PlainByte), NEW n \in 0..Len(bytes),
         NEW i \in Nat, NEW len \in 1..255,
         start.crc.payloadSize = len, start.crc.byteCount = i, i + n <= len
  PROVE  Counting(CRCStates(start, bytes, n), start, n, i, len)
<1> DEFINE state == CRCStates(start, bytes, n)
           Counted(m) ==
               /\ state[m].crc.payloadSize = len
               /\ state[m].crc.xorOut = start.crc.xorOut
               /\ i + m < len => state[m].crc.byteCount = i + m /\ state[m].outs = start.outs
               /\ m > 0 /\ i + m = len =>
                    /\ state[m].crc.byteCount = 0
                    /\ state[m].crc.covers = <<>>
           T == {m \in 0..n : Counted(m)}
<1>1. /\ state[0] = start /\ \A m \in 0..n : state[m] \in CallState
      /\ \A m \in 1..n : state[m] = CRCByte(state[m - 1], bytes[m])
  BY CRCStatesUnfold
<1> HIDE DEF state
<1>2. 0 \in T
  BY <1>1
<1>3. ASSUME NEW m \in 0..n, m \in T, m < n
      PROVE  m + 1 \in T
  <2>1. m + 1 \in 1..n /\ m + 1 \in 0..n /\ (m + 1) - 1 = m /\ i + m < len
    <3> HIDE DEF T
    <3> QED  BY <1>3
  <2>2. state[m + 1] = CRCByte(state[m], bytes[m + 1])
    BY <1>1, <2>1
  <2>3. PICK s \in CallState : s = state[m]
    BY <1>1
  <2>4. s.crc.payloadSize = len /\ s.crc.byteCount = i + m /\ s.outs = start.outs
        /\ s.crc.xorOut = start.crc.xorOut
    BY <1>3, <2>1, <2>3
  <2>5. s.crc \in CrcState
    BY DEF CallState
  <2> DEFINE end == s.crc.byteCount + 1 = s.crc.payloadSize
  <2>6. /\ CRCByte(s, bytes[m + 1]).crc.payloadSize = s.crc.payloadSize
        /\ CRCByte(s, bytes[m + 1]).crc.xorOut = s.crc.xorOut
        /\ CRCByte(s, bytes[m + 1]).crc.byteCount = IF end THEN 0 ELSE s.crc.byteCount + 1
        /\ end => CRCByte(s, bytes[m + 1]).crc.covers = <<>>
        /\ ~end => CRCByte(s, bytes[m + 1]).outs = s.outs
    BY <2>5 DEF CRCByte, CrcState
  <2>7. end <=> i + m + 1 = len
    BY <2>4
  <2> HIDE DEF end
  <2>8. /\ state[m + 1].crc.payloadSize = len
        /\ state[m + 1].crc.xorOut = start.crc.xorOut
        /\ state[m + 1].crc.byteCount = IF end THEN 0 ELSE i + m + 1
        /\ end => state[m + 1].crc.covers = <<>>
        /\ ~end => state[m + 1].outs = start.outs
    BY <2>2, <2>3, <2>4, <2>6
  <2>9. ASSUME i + (m + 1) < len
        PROVE  state[m + 1].crc.byteCount = i + (m + 1) /\ state[m + 1].outs = start.outs
    <3>1. ~end
      BY <2>7, <2>9
    <3> QED  BY <2>8, <3>1
  <2>10. ASSUME i + (m + 1) = len
         PROVE  state[m + 1].crc.byteCount = 0 /\ state[m + 1].crc.covers = <<>>
    <3>1. end
      BY <2>7, <2>10
    <3> QED  BY <2>8, <3>1
  <2> QED  BY <2>1, <2>8, <2>9, <2>10
<1>4. 0..n \subseteq T
  <2> HIDE DEF T
  <2> QED  BY <1>2, <1>3, InductTo, SMTT(30)
<1> QED  BY <1>4 DEF state, Counting

(* ... and, when the bytes are dewhitened in their places, covers them.    *)
CRCCovering(state, start, n, i, len, f) ==
  \A m \in 0..n :
    /\ i + m < len => state[m].crc.covers = DueUpTo(f, i + m)
    /\ m > 0 /\ i + m = len =>
         state[m].outs = Append(start.outs, [covers |-> DueUpTo(f, len),
                                             xorOut |-> start.crc.xorOut])

LEMMA CRCCovers ==
  ASSUME NEW start \in CallState, NEW bytes \in Seq(PlainByte), NEW n \in 0..Len(bytes),
         NEW i \in Nat, NEW len \in 1..255, NEW f \in Nat,
         start.crc.payloadSize = len, start.crc.byteCount = i, i + n <= len,
         start.crc.covers = DueUpTo(f, i),
         \A q \in 1..n : bytes[q] = <<f, i + q, i + q>>
  PROVE  CRCCovering(CRCStates(start, bytes, n), start, n, i, len, f)
<1> DEFINE state == CRCStates(start, bytes, n)
           Covered(m) ==
               /\ i + m < len => state[m].crc.covers = DueUpTo(f, i + m)
               /\ m > 0 /\ i + m = len =>
                    state[m].outs = Append(start.outs, [covers |-> DueUpTo(f, len),
                                                        xorOut |-> start.crc.xorOut])
           T == {m \in 0..n : Covered(m)}
<1>1. /\ state[0] = start /\ \A m \in 0..n : state[m] \in CallState
      /\ \A m \in 1..n : state[m] = CRCByte(state[m - 1], bytes[m])
  BY CRCStatesUnfold
<1>2. \A m \in 0..n :
        /\ state[m].crc.payloadSize = len
        /\ state[m].crc.xorOut = start.crc.xorOut
        /\ i + m < len => state[m].crc.byteCount = i + m /\ state[m].outs = start.outs
  <2>1. Counting(state, start, n, i, len)
    <3> HIDE DEF T
    <3> QED  BY CRCCounts
  <2> HIDE DEF state
  <2> QED  BY <2>1 DEF Counting
<1> HIDE DEF state
<1>3. 0 \in T
  <2>1. i + 0 = i
    OBVIOUS
  <2> QED  BY <1>1, <2>1
<1>4. ASSUME NEW m \in 0..n, m \in T, m < n
      PROVE  m + 1 \in T
  <2>1. m + 1 \in 1..n /\ m + 1 \in 0..n /\ (m + 1) - 1 = m /\ i + m < len
        /\ i + (m + 1) = i + m + 1
    <3> HIDE DEF T
    <3> QED  BY <1>4
  <2>2. state[m + 1] = CRCByte(state[m], bytes[m + 1])
    BY <1>1, <2>1
  <2>3. PICK s \in CallState : s = state[m]
    BY <1>1
  <2>4. s.crc.payloadSize = len /\ s.crc.byteCount = i + m /\ s.outs = start.outs
        /\ s.crc.xorOut = start.crc.xorOut /\ s.crc.covers = DueUpTo(f, i + m)
    BY <1>2, <1>4, <2>1, <2>3
  <2>5. Append(s.crc.covers, bytes[m + 1]) = DueUpTo(f, i + m + 1)
    <3>1. bytes[m + 1] = <<f, i + m + 1, i + m + 1>>
      BY <2>1
    <3>2. i + m \in Nat
      OBVIOUS
    <3> QED  BY <2>4, <3>1, <3>2, DueNext
  <2>6. s.crc \in CrcState
    BY DEF CallState
  <2> DEFINE end == s.crc.byteCount + 1 = s.crc.payloadSize
             covers == Append(s.crc.covers, bytes[m + 1])
  <2>7. /\ ~end => CRCByte(s, bytes[m + 1]).crc.covers = covers
        /\ end => CRCByte(s, bytes[m + 1]).outs
                    = Append(s.outs, [covers |-> covers, xorOut |-> s.crc.xorOut])
    BY <2>6 DEF CRCByte, CrcState
  <2>8. end <=> i + m + 1 = len
    BY <2>4
  <2>9. covers = DueUpTo(f, i + m + 1)
    BY <2>5
  <2> HIDE DEF end, covers
  <2>10. ASSUME i + (m + 1) < len
         PROVE  state[m + 1].crc.covers = DueUpTo(f, i + (m + 1))
    <3>1. ~end
      BY <2>1, <2>8, <2>10
    <3> QED  BY <3>1, <2>1, <2>2, <2>3, <2>7, <2>9
  <2>11. ASSUME i + (m + 1) = len
         PROVE  state[m + 1].outs = Append(start.outs, [covers |-> DueUpTo(f, len),
                                                        xorOut |-> start.crc.xorOut])
    <3>1. end /\ covers = DueUpTo(f, len)
      BY <2>1, <2>8, <2>9, <2>11
    <3> QED  BY <3>1, <2>2, <2>3, <2>4, <2>7
  <2> QED  BY <2>1, <2>10, <2>11
<1>5. 0..n \subseteq T
  <2> HIDE DEF T
  <2> QED  BY <1>3, <1>4, InductTo
<1> QED  BY <1>5 DEF state, CRCCovering
-----------------------------------------------------------------------------
(* The frame of the last message setLfsrState that was handled.            *)
Handled == accepted - Len(lfsrMsgs)

Waits(port, f) == \E i \in 1..Len(crcMsgs) : crcMsgs[i].port = port /\ crcMsgs[i].frame = f

(* Messages wait in the order of the frames, none is lost.                 *)
Messages ==
  /\ Len(lfsrMsgs) <= accepted
  /\ \A q \in 1..Len(lfsrMsgs) : lfsrMsgs[q] = Handled + q
  /\ \A i \in 1..Len(crcMsgs) :
       /\ crcMsgs[i].frame \in 1..accepted
       /\ crcMsgs[i].port = "setXorOut" => crcMsgs[i].frame <= SentUpTo
  /\ \A i, j \in 1..Len(crcMsgs) :
       i < j /\ crcMsgs[i].port = crcMsgs[j].port => crcMsgs[i].frame < crcMsgs[j].frame
  /\ crc.xorOut \in 0..accepted
  /\ \A i \in 1..Len(crcMsgs) :
       crcMsgs[i].port = "setPayloadSize" => Waits("setPayloadSize", accepted)
  /\ ~receiving /\ accepted > 0 /\ frames[accepted].crc =>
       \/ Waits("setXorOut", accepted)
       \/ crc.xorOut = accepted /\ \A i \in 1..Len(crcMsgs) : crcMsgs[i].port # "setXorOut"

(* Undisturbed, randomize is where the next byte is in its frame, and has  *)
(* been started for that frame before its second byte comes.               *)
RandomizeInPlace ==
  "randomize" \notin disturbed =>
    /\ \A k \in 1..whiteRead : bytesOut[k][3] = bytesOut[k][2]
    /\ \A f, i \in Nat :
         At(f, i, whiteRead + 1) =>
           /\ rnd.byteCount = i - 1
           /\ Handled <= f
           /\ Handled = f => rnd.lfsr = i
           /\ i > 1 => Handled = f /\ rnd.payloadSize = frames[f].len
    /\ white = <<>> =>
         /\ rnd.byteCount = 0
         /\ receiving /\ Handled = accepted => rnd.lfsr = 1

(* Undisturbed, CRC16 is where its next byte is in its frame; once it has  *)
(* the size of the last frame, only bytes of that frame are on their way.  *)
CRC16InPlace ==
  "CRC16" \notin disturbed =>
    /\ accepted > 0 /\ ~Waits("setPayloadSize", accepted) =>
         /\ crc.payloadSize = frames[accepted].len
         /\ \A k \in 1..Len(white) : white[k][1] = accepted
         /\ \A k \in 1..Len(plain) : plain[k][1] = accepted
    /\ \A f, i \in Nat :
         At(f, i, plainRead + 1) =>
           /\ crc.byteCount = i - 1
           /\ i > 1 => /\ crc.payloadSize = frames[f].len
                       /\ \A q \in 1..Len(crcMsgs) : crcMsgs[q].frame > f
    /\ plainRead = Written => crc.byteCount = 0

(* With neither disturbed, what the CRC covers is in its place too.        *)
Covering ==
  disturbed = {} =>
    /\ \A f, i \in Nat : At(f, i, plainRead + 1) => crc.covers = DueUpTo(f, i - 1)
    /\ plainRead = Written => crc.covers = <<>>
    /\ \A k \in 1..Len(crcOut) :
         \E f \in 1..accepted :
           /\ frames[f].len > 0
           /\ crcOut[k].covers = DueUpTo(f, frames[f].len)
           /\ frames[f].crc => crcOut[k].xorOut = f

(* A pause leaves only one frame in the tail.                              *)
OneFrame ==
  scenario.spaced =>
    /\ \A k \in 1..Len(white) : white[k][1] = accepted
    /\ \A k \in 1..Len(plain) : plain[k][1] = accepted
    /\ \A q \in 1..Len(lfsrMsgs) : lfsrMsgs[q] = accepted
    /\ \A q \in 1..Len(crcMsgs) : crcMsgs[q].frame = accepted

TailInv ==
  TailType /\ Streams /\ Messages /\ RandomizeInPlace /\ CRC16InPlace /\ Covering
  /\ OneFrame /\ SpacedDisturbance
-----------------------------------------------------------------------------
LEMMA SamePlaces ==
  ASSUME scenario' = scenario
  PROVE  frames' = frames /\ Ends' = Ends /\ Len(frames)' = Len(frames)
BY DEF frames, Ends

LEMMA InitTail ==
  ASSUME Init
  PROVE  TailInv
<1> USE DEF Init
<1>1. scenario \in Scenarios /\ Len(frames) \in Nat /\ Ends[0] = 0
  BY FramesTyped, EndsUnfold
<1>2. SentUpTo = 0 /\ Written = 0
  BY DEF SentUpTo, Written
<1>3. TailType
  <2>1. rnd \in RndState
    BY DEF RndState, Off
  <2>2. crc \in CrcState
    BY DEF CrcState
  <2>3. \A S : <<>> \in Seq(S)
    OBVIOUS
  <2>4. accepted \in 0..Len(frames) /\ whiteRead \in Nat /\ plainRead \in Nat
    BY <1>1
  <2>6. receiving \in BOOLEAN /\ ~receiving
    BY Zenon
  <2>5. disturbed \subseteq {"randomize", "CRC16"}
    OBVIOUS
  <2> QED  BY <1>1, <2>1, <2>2, <2>3, <2>4, <2>5, <2>6, Zenon DEF TailType
<1>4. Streams
  BY <1>1, <1>2 DEF Streams
<1>5. \A f, i, k : ~At(f, i, k)
  BY <1>2 DEF At
<1>6. Messages
  BY DEF Messages, Handled
<1>7. RandomizeInPlace
  BY <1>5 DEF RandomizeInPlace
<1>8. CRC16InPlace
  BY <1>5 DEF CRC16InPlace
<1>9. Covering
  BY <1>5 DEF Covering
<1>10. OneFrame /\ SpacedDisturbance
  BY DEF OneFrame, SpacedDisturbance
<1> QED  BY <1>3, <1>4, <1>6, <1>7, <1>8, <1>9, <1>10 DEF TailInv

(* Accepting a header moves no byte: the frame before it was sent, or has  *)
(* been given up and takes no room.                                        *)
LEMMA AcceptPlaces ==
  ASSUME TailType, AcceptHeader
  PROVE  /\ SentUpTo' = accepted /\ accepted \in Nat
         /\ Ends[accepted] = Ends[SentUpTo]
         /\ \A f, i, k : At(f, i, k)' <=> At(f, i, k)
<1>1. /\ accepted \in 0..Len(frames) /\ Len(frames) \in Nat /\ scenario \in Scenarios
      /\ scenario' = scenario /\ accepted' = accepted + 1 /\ receiving' = TRUE
  BY FramesTyped DEF TailType, AcceptHeader
<1>2. SentUpTo' = accepted
  BY <1>1 DEF SentUpTo
<1>3. CASE ~receiving
  <2>1. SentUpTo = accepted
    BY <1>3 DEF SentUpTo
  <2> QED  BY <2>1, <1>1, <1>2, SamePlaces DEF At
<1>4. CASE receiving
  <2>1. SentUpTo = accepted - 1 /\ accepted \in 1..Len(frames) /\ frames[accepted].cut
    BY <1>1, <1>4 DEF SentUpTo, TailType, AcceptHeader
  <2>2. SizeOf(accepted) = 0
    BY <2>1 DEF SizeOf
  <2>3. Ends[accepted] = Ends[accepted - 1]
    <3>1. Ends[accepted] = Ends[accepted - 1] + SizeOf(accepted) /\ Ends[accepted - 1] \in Nat
      BY <2>1, <1>1, EndsUnfold
    <3> QED  BY <3>1, <2>2
  <2>4. \A f : f \in 1..accepted /\ ~frames[f].cut <=> f \in 1..SentUpTo /\ ~frames[f].cut
    BY <2>1, <1>1
  <2>5. ASSUME NEW f, NEW i, NEW k
        PROVE  At(f, i, k)' <=> At(f, i, k)
    <3>1. At(f, i, k)' <=> /\ f \in 1..accepted /\ ~frames[f].cut /\ i \in 1..frames[f].len
                           /\ k = Ends[f - 1] + i
      BY <1>1, <1>2, SamePlaces DEF At
    <3> QED  BY <2>4, <3>1 DEF At
  <2> QED  BY <1>1, <1>2, <2>1, <2>3, <2>5
<1> QED  BY <1>3, <1>4

LEMMA AcceptHeaderStep ==
  ASSUME TailInv, AcceptHeader
  PROVE  TailInv'
<1> USE DEF TailInv
<1> DEFINE tag == [at |-> Written, frame |-> accepted + 1]
           msg == [port |-> "setPayloadSize", frame |-> accepted + 1]
<1>1. /\ scenario' = scenario /\ frames' = frames /\ Ends' = Ends
      /\ scenario \in Scenarios /\ Len(frames) \in Nat
      /\ accepted \in 0..Len(frames) /\ accepted < Len(frames)
      /\ accepted' = accepted + 1 /\ receiving' = TRUE
      /\ UNCHANGED <<white, whiteRead, plain, plainRead, rnd, crc, bytesOut, crcOut, disturbed>>
  BY SamePlaces, FramesTyped DEF AcceptHeader, TailType, tailVars
<1>2. /\ tags' = Append(tags, tag) /\ lfsrMsgs' = Append(lfsrMsgs, accepted + 1)
      /\ crcMsgs' = Append(crcMsgs, msg)
  BY DEF AcceptHeader, TagAt
<1>3. /\ SentUpTo' = accepted /\ accepted \in Nat /\ Ends[accepted] = Ends[SentUpTo]
      /\ \A f, i, k : At(f, i, k)' <=> At(f, i, k)
  BY AcceptPlaces
<1>4. Written' = Written /\ Written \in Nat
  BY <1>1 DEF Written, TailType
<1>5. tag \in TagRecord /\ msg \in CrcMsg
  BY <1>1, <1>4 DEF TagRecord, CrcMsg
<1> HIDE DEF tag, msg
<1>6. /\ tags' \in Seq(TagRecord) /\ Len(tags') = accepted + 1
      /\ \A j \in 1..accepted : tags'[j] = tags[j]
      /\ tags'[accepted + 1] = tag
  BY <1>2, <1>5, AppendAt DEF TailType, Streams
<1>7. /\ lfsrMsgs' \in Seq(Nat) /\ Len(lfsrMsgs') = Len(lfsrMsgs) + 1
      /\ \A q \in 1..Len(lfsrMsgs) : lfsrMsgs'[q] = lfsrMsgs[q]
      /\ lfsrMsgs'[Len(lfsrMsgs) + 1] = accepted + 1
      /\ Len(lfsrMsgs) \in Nat
  BY <1>2, <1>3, AppendAt DEF TailType
<1>8. /\ crcMsgs' \in Seq(CrcMsg) /\ Len(crcMsgs') = Len(crcMsgs) + 1
      /\ \A q \in 1..Len(crcMsgs) : crcMsgs'[q] = crcMsgs[q]
      /\ crcMsgs'[Len(crcMsgs) + 1] = msg
      /\ Len(crcMsgs) \in Nat
  BY <1>2, <1>5, AppendAt DEF TailType
<1>9. TailType'
  BY <1>1, <1>6, <1>7, <1>8 DEF TailType
<1>10. Streams'
  <2>1. Written' = Ends'[SentUpTo']
    BY <1>1, <1>3, <1>4 DEF Streams
  <2>2. \A k \in 1..Len(white') : At(white[k][1], white[k][2], whiteRead + k)'
    BY <1>1, <1>3 DEF Streams
  <2>3. \A k \in 1..whiteRead' : At(bytesOut[k][1], bytesOut[k][2], k)'
    BY <1>1, <1>3 DEF Streams
  <2>4. \A j \in 1..accepted' : tags'[j] = [at |-> Ends'[j - 1], frame |-> j]
    <3>1. ASSUME NEW j \in 1..(accepted + 1)
          PROVE  tags'[j] = [at |-> Ends[j - 1], frame |-> j]
      <4>1. CASE j = accepted + 1
        <5>1. j - 1 = accepted
          BY <4>1, <1>3
        <5>2. Written = Ends[accepted]
          BY <1>3 DEF Streams
        <5> QED  BY <4>1, <5>1, <5>2, <1>6 DEF tag
      <4>2. CASE j \in 1..accepted
        BY <4>2, <1>6 DEF Streams
      <4>3. j = accepted + 1 \/ j \in 1..accepted
        BY <1>3
      <4> QED  BY <4>1, <4>2, <4>3
    <3> QED  BY <3>1, <1>1
  <2> QED  BY <2>1, <2>2, <2>3, <2>4, <1>1, <1>6 DEF Streams
<1>11. Messages'
  <2>1. Handled' = Handled /\ Handled \in 0..accepted
    BY <1>1, <1>7 DEF Handled, Messages
  <2>2. Len(lfsrMsgs') <= accepted' /\ \A q \in 1..Len(lfsrMsgs') : lfsrMsgs'[q] = Handled' + q
    <3>1. Len(lfsrMsgs') <= accepted' /\ accepted + 1 = Handled + (Len(lfsrMsgs) + 1)
      BY <1>1, <1>7 DEF Messages, Handled
    <3>2. \A q \in 1..Len(lfsrMsgs) : lfsrMsgs'[q] = Handled + q
      BY <1>7 DEF Messages
    <3>3. \A q \in 1..Len(lfsrMsgs') : q = Len(lfsrMsgs) + 1 \/ q \in 1..Len(lfsrMsgs)
      BY <1>7
    <3> QED  BY <2>1, <3>1, <3>2, <3>3, <1>7
  <2>3. \A i \in 1..Len(crcMsgs') : i = Len(crcMsgs) + 1 \/ i \in 1..Len(crcMsgs)
    BY <1>8
  <2>4. msg.port = "setPayloadSize" /\ msg.frame = accepted + 1
    BY DEF msg
  <2>5. SentUpTo <= accepted /\ SentUpTo \in Nat
    BY SentRange
  <2>6. ASSUME NEW i \in 1..Len(crcMsgs')
        PROVE  /\ crcMsgs'[i].frame \in 1..(accepted + 1)
               /\ crcMsgs'[i].port = "setXorOut" => crcMsgs'[i].frame <= accepted
    <3>1. CASE i = Len(crcMsgs) + 1
      BY <3>1, <1>3, <1>8, <2>4
    <3>2. CASE i \in 1..Len(crcMsgs)
      <4>1. crcMsgs[i].frame \in 1..accepted
            /\ (crcMsgs[i].port = "setXorOut" => crcMsgs[i].frame <= SentUpTo)
        BY <3>2 DEF Messages
      <4> QED  BY <3>2, <4>1, <1>3, <1>8, <2>5
    <3> QED  BY <2>3, <3>1, <3>2
  <2>7. ASSUME NEW i \in 1..Len(crcMsgs'), NEW j \in 1..Len(crcMsgs'),
               i < j, crcMsgs'[i].port = crcMsgs'[j].port
        PROVE  crcMsgs'[i].frame < crcMsgs'[j].frame
    <3>1. i \in 1..Len(crcMsgs)
      BY <2>7, <1>8
    <3>2. crcMsgs[i].frame \in 1..accepted
      BY <3>1 DEF Messages
    <3>3. CASE j = Len(crcMsgs) + 1
      BY <3>1, <3>2, <3>3, <1>3, <1>8, <2>4
    <3>4. CASE j \in 1..Len(crcMsgs)
      BY <3>1, <3>4, <1>8, <2>7 DEF Messages
    <3> QED  BY <2>3, <3>3, <3>4
  <2>8. Waits("setPayloadSize", accepted)'
    <3>1. Len(crcMsgs) + 1 \in 1..Len(crcMsgs')
      BY <1>8
    <3> QED  BY <3>1, <1>1, <1>8, <2>4 DEF Waits
  <2>9. crc.xorOut' \in 0..accepted'
    BY <1>1 DEF Messages
  <2> QED  BY <2>2, <2>6, <2>7, <2>8, <2>9, <1>1, <1>3 DEF Messages
<1>12. Handled' = Handled /\ Handled \in 0..accepted
  BY <1>1, <1>7 DEF Handled, Messages
<1>13. RandomizeInPlace'
  <2>1. Handled' # accepted'
    BY <1>1, <1>12
  <2> QED  BY <2>1, <1>1, <1>3, <1>12 DEF RandomizeInPlace
<1>14. CRC16InPlace'
  <2>1. Waits("setPayloadSize", accepted)'
    <3>1. Len(crcMsgs) + 1 \in 1..Len(crcMsgs')
      BY <1>8
    <3> QED  BY <3>1, <1>1, <1>8 DEF Waits, msg
  <2>2. ASSUME NEW f, NEW i, At(f, i, plainRead + 1),
               \A q \in 1..Len(crcMsgs) : crcMsgs[q].frame > f
        PROVE  \A q \in 1..Len(crcMsgs') : crcMsgs'[q].frame > f
    <3>1. f \in Nat /\ f < accepted + 1
      BY <2>2, <1>3, PlaceTyped, SentRange
    <3>2. msg.frame > f
      BY <3>1, <1>3 DEF msg
    <3>3. \A q \in 1..Len(crcMsgs') : q = Len(crcMsgs) + 1 \/ q \in 1..Len(crcMsgs)
      BY <1>8
    <3> QED  BY <2>2, <3>2, <3>3, <1>8
  <2> QED  BY <2>1, <2>2, <1>1, <1>3, <1>4 DEF CRC16InPlace
<1>15. Covering'
  BY <1>1, <1>3, <1>4 DEF Covering
<1>16. OneFrame'
  <2>1. ASSUME scenario.spaced PROVE white = <<>> /\ plain = <<>> /\ lfsrMsgs = <<>> /\ crcMsgs = <<>>
    BY <2>1 DEF AcceptHeader, Idle
  <2>2. ASSUME scenario.spaced
        PROVE  /\ \A q \in 1..Len(lfsrMsgs') : lfsrMsgs'[q] = accepted + 1
               /\ \A q \in 1..Len(crcMsgs') : crcMsgs'[q].frame = accepted + 1
    <3>1. Len(lfsrMsgs) = 0 /\ Len(crcMsgs) = 0
      BY <2>1, <2>2
    <3>2. \A q : (q \in 1..Len(lfsrMsgs') => q = Len(lfsrMsgs) + 1)
                 /\ (q \in 1..Len(crcMsgs') => q = Len(crcMsgs) + 1)
      BY <3>1, <1>7, <1>8
    <3> QED  BY <3>2, <1>7, <1>8 DEF msg
  <2> QED  BY <2>1, <2>2, <1>1 DEF OneFrame
<1>17. SpacedDisturbance'
  <2>1. ASSUME scenario.spaced, disturbed # {}
        PROVE  \E i, j \in DOMAIN tags' :
                 /\ i < j /\ tags'[i].at = tags'[j].at
                 /\ frames[tags'[i].frame].cut \/ frames[tags'[i].frame].len = 0
    <3>1. PICK i \in DOMAIN tags, j \in DOMAIN tags :
                 /\ i < j /\ tags[i].at = tags[j].at
                 /\ frames[tags[i].frame].cut \/ frames[tags[i].frame].len = 0
      BY <2>1 DEF SpacedDisturbance
    <3>2. DOMAIN tags = 1..accepted /\ DOMAIN tags' = 1..(accepted + 1)
      BY <1>6 DEF TailType, Streams
    <3>3. i \in 1..accepted /\ j \in 1..accepted /\ i \in DOMAIN tags' /\ j \in DOMAIN tags'
      BY <3>2, <1>3
    <3> QED  BY <3>1, <3>3, <1>6
  <2> QED  BY <2>1, <1>1 DEF SpacedDisturbance
<1> QED  BY <1>9, <1>10, <1>11, <1>13, <1>14, <1>15, <1>16, <1>17
-----------------------------------------------------------------------------
(* An item of the stream is one byte of one frame.                         *)
LEMMA PlaceUnique ==
  ASSUME TailType, NEW k \in Nat,
         NEW f, NEW i, At(f, i, k), NEW g, NEW j, At(g, j, k)
  PROVE  f = g /\ i = j
<1>1. f <= g /\ (f = g => j = i + (k - k)) /\ g <= f
  BY PlacesOrdered
<1>2. f \in Nat /\ g \in Nat /\ i \in Nat /\ j \in Nat
  BY PlaceTyped
<1> QED  BY <1>1, <1>2

LEMMA PlaceWritten ==
  ASSUME TailType, Streams, NEW f, NEW i, NEW k \in Nat, At(f, i, k)
  PROVE  k <= Written /\ Written \in Nat /\ f \in Nat /\ i \in Nat /\ i >= 1
<1>1. f \in 0..Len(frames) /\ k <= Ends[f] /\ i \in Nat /\ i >= 1 /\ f <= SentUpTo
  BY PlaceTyped
<1>2. SentUpTo \in 0..Len(frames) /\ scenario \in Scenarios
  BY SentRange DEF TailType
<1>3. Ends[f] <= Ends[SentUpTo]
  BY <1>1, <1>2, EndsMonotone
<1>4. Ends[f] \in Nat /\ Ends[SentUpTo] \in Nat
  BY <1>1, <1>2, EndsUnfold
<1>5. Written = Ends[SentUpTo]
  BY DEF Streams
<1>6. f \in Nat
  BY <1>1
<1> QED  BY <1>1, <1>3, <1>4, <1>5, <1>6

(* The byte randomize reads next ...                                       *)
LEMMA NextWhite ==
  ASSUME TailType, Streams, NEW f, NEW i, At(f, i, whiteRead + 1)
  PROVE  white # <<>> /\ Len(white) >= 1 /\ white[1][1] = f /\ white[1][2] = i
<1>1. whiteRead + 1 \in Nat /\ Len(white) \in Nat /\ whiteRead \in Nat
  BY DEF TailType
<1>2. whiteRead + 1 <= whiteRead + Len(white)
  BY <1>1, PlaceWritten DEF Written
<1>3. Len(white) >= 1 /\ 1 \in 1..Len(white)
  BY <1>1, <1>2
<1>4. At(white[1][1], white[1][2], whiteRead + 1)
  BY <1>3 DEF Streams
<1>5. white # <<>>
  BY <1>3
<1> QED  BY <1>1, <1>3, <1>4, <1>5, PlaceUnique

(* ... and the one CRC16 reads next, which may not be dewhitened yet.      *)
LEMMA NextPlain ==
  ASSUME TailType, Streams, NEW f, NEW i, At(f, i, plainRead + 1)
  PROVE  \/ 1 \in 1..Len(plain) /\ plain[1][1] = f /\ plain[1][2] = i
         \/ 1 \in 1..Len(white) /\ white[1][1] = f /\ white[1][2] = i
<1>1. /\ plainRead \in Nat /\ Len(plain) \in Nat /\ whiteRead \in Nat /\ Len(white) \in Nat
      /\ whiteRead = plainRead + Len(plain)
  BY DEF TailType, Streams
<1>2. CASE Len(plain) = 0
  <2>1. whiteRead = plainRead
    BY <1>1, <1>2
  <2>2. Len(white) >= 1 /\ white[1][1] = f /\ white[1][2] = i
    BY <2>1, NextWhite
  <2> QED  BY <2>2, <1>1
<1>3. CASE Len(plain) # 0
  <2>1. 1 \in 1..Len(plain) /\ plainRead + 1 \in 1..whiteRead /\ plainRead + 1 \in Nat
    BY <1>1, <1>3
  <2>2. plain[1] = bytesOut[plainRead + 1]
    BY <2>1 DEF Streams
  <2>3. At(plain[1][1], plain[1][2], plainRead + 1)
    BY <2>1, <2>2 DEF Streams
  <2> QED  BY <2>1, <2>3, PlaceUnique
<1> QED  BY <1>2, <1>3

(* Frames on their way are frames that were sent.                          *)
LEMMA OnTheWay ==
  ASSUME TailType, Streams
  PROVE  /\ \A k \in 1..Len(white) : white[k][1] \in Nat /\ white[k][1] <= SentUpTo
         /\ \A k \in 1..Len(plain) : plain[k][1] \in Nat /\ plain[k][1] <= SentUpTo
<1>1. /\ plainRead \in Nat /\ Len(plain) \in Nat /\ whiteRead \in Nat
      /\ whiteRead = plainRead + Len(plain) /\ SentUpTo \in Nat
  BY SentRange DEF TailType, Streams
<1>2. \A k \in 1..Len(white) : white[k][1] \in 1..SentUpTo
  BY DEF Streams, At
<1>3. ASSUME NEW k \in 1..Len(plain)
      PROVE  plain[k][1] \in 1..SentUpTo
  <2>1. plainRead + k \in 1..whiteRead
    BY <1>1
  <2>2. bytesOut[plainRead + k][1] \in 1..SentUpTo
    BY <2>1 DEF Streams, At
  <2> QED  BY <2>2 DEF Streams
<1> QED  BY <1>1, <1>2, <1>3
-----------------------------------------------------------------------------
LEMMA HandleLfsrStep ==
  ASSUME TailInv, HandleLfsr
  PROVE  TailInv'
<1> USE DEF TailInv
<1> DEFINE noise == IF white # <<>> /\ white[1][1] < lfsrMsgs[1] THEN {"randomize"} ELSE {}
<1>1. /\ scenario' = scenario /\ frames' = frames /\ Ends' = Ends
      /\ UNCHANGED <<accepted, receiving, tags, crcMsgs, white, whiteRead,
                     plain, plainRead, crc, bytesOut, crcOut>>
      /\ lfsrMsgs # <<>> /\ lfsrMsgs' = Tail(lfsrMsgs)
      /\ rnd' = [rnd EXCEPT !.lfsr = 1]
  BY SamePlaces DEF HandleLfsr
<1>2. disturbed' = disturbed \union noise
  BY DEF HandleLfsr
<1>3. /\ lfsrMsgs' \in Seq(Nat) /\ Len(lfsrMsgs') = Len(lfsrMsgs) - 1
      /\ \A q \in 1..(Len(lfsrMsgs) - 1) : lfsrMsgs'[q] = lfsrMsgs[q + 1]
      /\ Len(lfsrMsgs) > 0 /\ Len(lfsrMsgs) \in Nat /\ accepted \in Nat
  BY <1>1, TailOf, FramesTyped DEF TailType
<1>4. SentUpTo' = SentUpTo /\ Written' = Written
      /\ \A f, i, k : At(f, i, k)' <=> At(f, i, k)
  BY <1>1 DEF SentUpTo, Written, At
<1>5. Handled' = Handled + 1 /\ Handled \in Nat /\ lfsrMsgs[1] = Handled + 1 /\ Handled < accepted
  BY <1>1, <1>3 DEF Handled, Messages
<1>6. rnd' \in RndState /\ rnd'.lfsr = 1 /\ rnd'.byteCount = rnd.byteCount
  BY <1>1 DEF TailType, RndState
<1>7. TailType'
  <2>1. disturbed' \subseteq {"randomize", "CRC16"}
    BY <1>2 DEF TailType
  <2> QED  BY <2>1, <1>1, <1>3, <1>6 DEF TailType
<1>8. Streams'
  BY <1>1, <1>4 DEF Streams
<1>9. Messages'
  <2>1. Len(lfsrMsgs') <= accepted'
    BY <1>1, <1>3 DEF Messages
  <2>2. ASSUME NEW q \in 1..Len(lfsrMsgs')
        PROVE  lfsrMsgs'[q] = Handled' + q
    <3>1. q + 1 \in 1..Len(lfsrMsgs) /\ q \in 1..(Len(lfsrMsgs) - 1)
      BY <1>3
    <3>2. lfsrMsgs'[q] = Handled + (q + 1)
      BY <3>1, <1>3 DEF Messages
    <3> QED  BY <3>2, <1>5
  <2>3. \A port : Waits(port, accepted)' <=> Waits(port, accepted)
    BY <1>1 DEF Waits
  <2> QED  BY <2>1, <2>2, <2>3, <1>1, <1>4 DEF Messages
<1>10. RandomizeInPlace'
  <2> SUFFICES ASSUME "randomize" \notin disturbed'
               PROVE  RandomizeInPlace'
    BY DEF RandomizeInPlace
  <2>1. "randomize" \notin disturbed /\ ~(white # <<>> /\ white[1][1] < Handled + 1)
    BY <1>2, <1>5
  <2>2. ASSUME NEW f \in Nat, NEW i \in Nat, At(f, i, whiteRead + 1)
        PROVE  rnd'.byteCount = i - 1 /\ Handled + 1 <= f /\ i = 1
    <3>1. white # <<>> /\ white[1][1] = f
      BY <2>2, NextWhite
    <3>2. Handled + 1 <= f
      BY <2>1, <3>1, <1>5
    <3>3. rnd.byteCount = i - 1 /\ (i > 1 => Handled = f)
      BY <2>1, <2>2 DEF RandomizeInPlace
    <3>4. i >= 1
      BY <2>2, PlaceTyped
    <3>5. i = 1
      BY <3>2, <3>3, <3>4, <1>5
    <3> QED  BY <3>2, <3>3, <3>5, <1>6
  <2>3. white' = <<>> => rnd'.byteCount = 0
    BY <2>1, <1>1, <1>6 DEF RandomizeInPlace
  <2>4. \A k \in 1..whiteRead : bytesOut[k][3] = bytesOut[k][2]
    BY <2>1 DEF RandomizeInPlace
  <2>5. \A f, i \in Nat :
         At(f, i, whiteRead + 1) =>
           /\ rnd'.byteCount = i - 1
           /\ Handled + 1 <= f
           /\ rnd'.lfsr = i
           /\ ~(i > 1)
    BY <2>2, <1>6
  <2> QED  BY <2>3, <2>4, <2>5, <1>1, <1>4, <1>5, <1>6 DEF RandomizeInPlace
<1>11. CRC16InPlace'
  <2>1. "CRC16" \notin disturbed' => "CRC16" \notin disturbed
    BY <1>2
  <2>2. Waits("setPayloadSize", accepted)' <=> Waits("setPayloadSize", accepted)
    BY <1>1 DEF Waits
  <2> QED  BY <2>1, <2>2, <1>1, <1>4 DEF CRC16InPlace
<1>12. Covering'
  <2>1. disturbed' = {} => disturbed = {}
    BY <1>2
  <2> QED  BY <2>1, <1>1, <1>4 DEF Covering
<1>13. OneFrame'
  <2>1. ASSUME scenario.spaced
        PROVE  \A q \in 1..Len(lfsrMsgs') : lfsrMsgs'[q] = accepted
    <3>1. \A q \in 1..Len(lfsrMsgs') : q + 1 \in 1..Len(lfsrMsgs) /\ q \in 1..(Len(lfsrMsgs) - 1)
      BY <1>3
    <3> QED  BY <2>1, <3>1, <1>3 DEF OneFrame
  <2> QED  BY <2>1, <1>1 DEF OneFrame
<1>14. SpacedDisturbance'
  <2>1. scenario.spaced => disturbed' = disturbed
    <3>1. ASSUME scenario.spaced, white # <<>> PROVE ~(white[1][1] < lfsrMsgs[1])
      <4>1. 1 \in 1..Len(white) /\ 1 \in 1..Len(lfsrMsgs)
        BY <3>1, <1>3 DEF TailType
      <4>2. white[1][1] = accepted /\ lfsrMsgs[1] = accepted
        BY <3>1, <4>1 DEF OneFrame
      <4> QED  BY <4>2, <1>3
    <3> QED  BY <3>1, <1>2
  <2> QED  BY <2>1, <1>1 DEF SpacedDisturbance
<1> QED  BY <1>7, <1>8, <1>9, <1>10, <1>11, <1>12, <1>13, <1>14
-----------------------------------------------------------------------------
(* Sending a payload adds its bytes at the end of the stream.              *)
LEMMA SendPlaces ==
  ASSUME TailType, Streams, SendPayload
  PROVE  /\ accepted \in 1..Len(frames) /\ SentUpTo = accepted - 1 /\ SentUpTo' = accepted
         /\ frames[accepted].len \in 0..255
         /\ Written = Ends[accepted - 1] /\ Written \in Nat
         /\ Ends[accepted] = Written + frames[accepted].len
         /\ \A f, i, k :
              At(f, i, k)' <=> \/ At(f, i, k)
                               \/ /\ f = accepted /\ i \in 1..frames[accepted].len
                                  /\ k = Written + i
<1>1. /\ accepted \in 0..Len(frames) /\ Len(frames) \in Nat /\ scenario \in Scenarios
      /\ receiving /\ receiving' = FALSE /\ accepted' = accepted /\ ~frames[accepted].cut
      /\ scenario' = scenario /\ accepted > 0
  BY FramesTyped DEF TailType, SendPayload
<1>2. accepted \in 1..Len(frames)
  BY <1>1
<1>3. SentUpTo = accepted - 1 /\ SentUpTo' = accepted
  BY <1>1 DEF SentUpTo
<1>4. Written = Ends[accepted - 1]
  BY <1>3 DEF Streams
<1>5. Ends[accepted] = Ends[accepted - 1] + SizeOf(accepted) /\ Ends[accepted - 1] \in Nat
  BY <1>1, <1>2, EndsUnfold
<1>6. SizeOf(accepted) = frames[accepted].len /\ frames[accepted].len \in 0..255
  BY <1>1, <1>2, FramesTyped DEF SizeOf
<1>7. ASSUME NEW f, NEW i, NEW k
      PROVE  At(f, i, k)' <=> \/ At(f, i, k)
                              \/ /\ f = accepted /\ i \in 1..frames[accepted].len
                                 /\ k = Written + i
  <2>1. At(f, i, k)' <=> /\ f \in 1..accepted /\ ~frames[f].cut /\ i \in 1..frames[f].len
                         /\ k = Ends[f - 1] + i
    BY <1>1, <1>3, SamePlaces DEF At
  <2>2. f \in 1..accepted <=> f \in 1..(accepted - 1) \/ f = accepted
    BY <1>2
  <2> QED  BY <2>1, <2>2, <1>1, <1>3, <1>4 DEF At
<1> QED  BY <1>2, <1>3, <1>4, <1>5, <1>6, <1>7

LEMMA SendPayloadStep ==
  ASSUME TailInv, SendPayload
  PROVE  TailInv'
<1> USE DEF TailInv
<1> DEFINE n == frames[accepted].len
           bytes == BytesOf(accepted)
           msg == [port |-> "setXorOut", frame |-> accepted]
           R == Len(crcMsgs)
<1>1. /\ scenario' = scenario /\ frames' = frames /\ Ends' = Ends
      /\ receiving' = FALSE
      /\ UNCHANGED <<accepted, tags, lfsrMsgs, whiteRead, plain, plainRead,
                     rnd, crc, bytesOut, crcOut, disturbed>>
      /\ receiving /\ ~frames[accepted].cut /\ scenario \in Scenarios
  BY SamePlaces DEF SendPayload, tailVars, TailType
<1>2. /\ accepted \in 1..Len(frames) /\ SentUpTo = accepted - 1 /\ SentUpTo' = accepted
      /\ n \in 0..255 /\ Len(frames) \in Nat /\ accepted \in Nat /\ n \in Nat
      /\ Written = Ends[accepted - 1] /\ Written \in Nat /\ Ends[accepted] = Written + n
  <2>1. n \in 0..255
    BY <1>1, SendPlaces
  <2>2. n \in Nat
    <3> HIDE DEF n
    <3> QED  BY <2>1
  <2>3. Len(frames) \in Nat /\ accepted \in 1..Len(frames)
    BY <1>1, SendPlaces, FramesTyped
  <2> QED  BY <2>1, <2>2, <2>3, SendPlaces
<1>3. \A f, i, k :
        At(f, i, k)' <=> \/ At(f, i, k)
                         \/ f = accepted /\ i \in 1..n /\ k = Written + i
  BY SendPlaces
<1>4. bytes \in Seq(Byte) /\ Len(bytes) = n /\ \A i \in 1..n : bytes[i] = <<accepted, i>>
  <2>1. n \in Nat /\ accepted \in Nat
    BY <1>2
  <2>2. bytes = [i \in 1..n |-> <<accepted, i>>]
    BY DEF BytesOf
  <2> HIDE DEF n
  <2>3. bytes \in [1..n -> Byte]
    BY <2>1, <2>2 DEF Byte
  <2> HIDE DEF bytes
  <2> QED  BY <2>1, <2>2, <2>3, FunctionIsSeq
<1>5. white' = white \o bytes
  BY DEF SendPayload
<1> HIDE DEF n, bytes
<1>6. /\ white' \in Seq(Byte) /\ Len(white') = Len(white) + n
      /\ \A k \in 1..Len(white) : white'[k] = white[k]
      /\ \A k \in 1..n : white'[Len(white) + k] = <<accepted, k>>
      /\ Len(white) \in Nat /\ n \in Nat /\ whiteRead \in Nat /\ plainRead \in Nat
      /\ Len(plain) \in Nat
  <2>1. white \in Seq(Byte) /\ whiteRead \in Nat /\ plainRead \in Nat
        /\ plain \in Seq(PlainByte)
    BY DEF TailType
  <2>2. /\ white \o bytes \in Seq(Byte) /\ Len(white \o bytes) = Len(white) + Len(bytes)
        /\ \A k \in 1..Len(white) : (white \o bytes)[k] = white[k]
        /\ \A k \in 1..Len(bytes) : (white \o bytes)[Len(white) + k] = bytes[k]
    <3>1. bytes \in Seq(Byte)
      BY <1>4
    <3> QED  BY <2>1, <3>1, ConcatAt
  <2>3. Len(bytes) = n /\ \A k \in 1..n : bytes[k] = <<accepted, k>>
    BY <1>4
  <2>4. Len(white) \in Nat /\ Len(plain) \in Nat /\ n \in Nat
    BY <2>1, <1>2, <1>4
  <2> QED  BY <2>1, <2>2, <2>3, <2>4, <1>5
<1>7. Written' = Written + n /\ Written = whiteRead + Len(white)
  BY <1>1, <1>6 DEF Written
<1>8. ASSUME NEW k \in 1..Len(white')
      PROVE  k \in 1..Len(white) \/ \E i \in 1..n : k = Len(white) + i
  <2>1. k \in Nat /\ k >= 1 /\ k <= Len(white) + n
    BY <1>6
  <2>2. CASE k > Len(white)
    <3>1. k - Len(white) \in 1..n /\ k = Len(white) + (k - Len(white))
      BY <2>1, <2>2, <1>6
    <3> QED  BY <3>1
  <2>3. CASE k <= Len(white)
    BY <2>1, <2>3, <1>6
  <2> QED  BY <2>1, <2>2, <2>3, <1>6
<1>9. /\ msg \in CrcMsg
      /\ crcMsgs' = IF frames[accepted].crc THEN Append(crcMsgs, msg) ELSE crcMsgs
  BY <1>2 DEF SendPayload, CrcMsg
<1> HIDE DEF msg
<1>10. /\ crcMsgs' \in Seq(CrcMsg) /\ R \in Nat
       /\ Len(crcMsgs') = R \/ Len(crcMsgs') = R + 1
       /\ \A q \in 1..R : crcMsgs'[q] = crcMsgs[q]
       /\ Len(crcMsgs') = R + 1 => crcMsgs'[R + 1] = msg
       /\ frames[accepted].crc => Len(crcMsgs') = R + 1
  <2>1. crcMsgs \in Seq(CrcMsg) /\ R \in Nat
    BY DEF TailType
  <2>2. CASE frames[accepted].crc
    <3>1. crcMsgs' = Append(crcMsgs, msg)
      BY <1>9, <2>2
    <3> QED  BY <2>1, <3>1, <1>9, AppendAt
  <2>3. CASE ~frames[accepted].crc
    <3>1. crcMsgs' = crcMsgs
      BY <1>9, <2>3
    <3> QED  BY <2>1, <2>3, <3>1
  <2> QED  BY <2>2, <2>3
<1>11. \A q \in 1..Len(crcMsgs') : q \in 1..R \/ (q = R + 1 /\ Len(crcMsgs') = R + 1)
  BY <1>10
<1>12. msg.port = "setXorOut" /\ msg.frame = accepted
  BY DEF msg
<1>13. TailType'
  BY <1>1, <1>6, <1>10 DEF TailType
<1>14. Streams'
  <2>1. Written' = Ends'[SentUpTo']
    BY <1>1, <1>2, <1>7
  <2>2. ASSUME NEW k \in 1..Len(white')
        PROVE  At(white[k][1], white[k][2], whiteRead + k)'
    <3>1. CASE k \in 1..Len(white)
      <4>1. At(white[k][1], white[k][2], whiteRead + k)
        BY <3>1 DEF Streams
      <4>2. white'[k] = white[k]
        BY <3>1, <1>6
      <4>3. PICK f \in Nat, i \in Nat : white[k] = <<f, i>>
        <5>1. white[k] \in Byte
          BY <3>1 DEF TailType
        <5> QED  BY <5>1 DEF Byte
      <4>4. At(f, i, whiteRead + k)'
        BY <4>1, <4>3, <1>1, <1>3
      <4> QED  BY <4>2, <4>3, <4>4
    <3>2. CASE \E i \in 1..n : k = Len(white) + i
      <4>1. PICK i \in 1..n : k = Len(white) + i
        BY <3>2, <1>6
      <4>2. white'[k] = <<accepted, i>> /\ whiteRead + k = Written + i
        BY <4>1, <1>6, <1>7
      <4>3. PICK f : f = accepted
        OBVIOUS
      <4>4. At(f, i, whiteRead + k)'
        BY <4>2, <4>3, <1>1, <1>3
      <4> QED  BY <4>2, <4>3, <4>4
    <3> QED  BY <3>1, <3>2, <1>8
  <2>3. \A k \in 1..whiteRead' : At(bytesOut[k][1], bytesOut[k][2], k)'
    BY <1>1, <1>3 DEF Streams
  <2> QED  BY <2>1, <2>2, <2>3, <1>1 DEF Streams
<1>15. Messages'
  <2>1. ASSUME NEW i \in 1..Len(crcMsgs')
        PROVE  /\ crcMsgs'[i].frame \in 1..accepted
               /\ crcMsgs'[i].port = "setXorOut" => crcMsgs'[i].frame <= accepted
    <3>1. CASE i \in 1..R
      <4>1. crcMsgs[i].frame \in 1..accepted
        BY <3>1 DEF Messages
      <4> QED  BY <3>1, <4>1, <1>2, <1>10
    <3>2. CASE i = R + 1 /\ Len(crcMsgs') = R + 1
      BY <3>2, <1>2, <1>10, <1>12
    <3> QED  BY <3>1, <3>2, <1>11
  <2>2. ASSUME NEW i \in 1..Len(crcMsgs'), NEW j \in 1..Len(crcMsgs'),
               i < j, crcMsgs'[i].port = crcMsgs'[j].port
        PROVE  crcMsgs'[i].frame < crcMsgs'[j].frame
    <3>1. i \in 1..R
      BY <2>2, <1>10, <1>11
    <3>2. CASE j \in 1..R
      BY <2>2, <3>1, <3>2, <1>10 DEF Messages
    <3>3. CASE j = R + 1 /\ Len(crcMsgs') = R + 1
      <4>1. crcMsgs[i].port = "setXorOut" /\ crcMsgs'[j].frame = accepted
        BY <2>2, <3>1, <3>3, <1>10, <1>12
      <4>2. crcMsgs[i].frame <= accepted - 1 /\ crcMsgs[i].frame \in 1..accepted
        BY <3>1, <4>1, <1>2 DEF Messages
      <4> QED  BY <3>1, <4>1, <4>2, <1>2, <1>10
    <3> QED  BY <3>2, <3>3, <1>11
  <2>3. \A port, f : Waits(port, f) => Waits(port, f)'
    <3>1. \A q \in 1..R : q \in 1..Len(crcMsgs')
      BY <1>10
    <3> QED  BY <3>1, <1>10 DEF Waits
  <2>4. ASSUME NEW i \in 1..Len(crcMsgs'), crcMsgs'[i].port = "setPayloadSize"
        PROVE  Waits("setPayloadSize", accepted)'
    <3>1. i \in 1..R
      BY <2>4, <1>10, <1>11, <1>12
    <3>2. Waits("setPayloadSize", accepted)
      BY <2>4, <3>1, <1>10 DEF Messages
    <3>3. accepted' = accepted
      BY <1>1
    <3> QED  BY <2>3, <3>2, <3>3
  <2>5. frames[accepted].crc => Waits("setXorOut", accepted)'
    <3>1. ASSUME frames[accepted].crc
          PROVE  R + 1 \in 1..Len(crcMsgs') /\ crcMsgs'[R + 1] = msg
      BY <3>1, <1>10
    <3> QED  BY <3>1, <1>1, <1>12 DEF Waits
  <2>6. Handled' = Handled
    BY <1>1 DEF Handled
  <2> QED  BY <2>1, <2>2, <2>4, <2>5, <2>6, <1>1, <1>2 DEF Messages
<1>16. Handled' = Handled /\ Handled <= accepted /\ Handled \in Nat
  <2>1. Len(lfsrMsgs) \in Nat
    BY DEF TailType
  <2> QED  BY <2>1, <1>1, <1>2 DEF Handled, Messages
(* A new byte is next only when it is the frame's first and nothing is     *)
(* left before it.                                                         *)
<1>17. ASSUME NEW f \in Nat, NEW i \in Nat, NEW k \in Nat, k <= Written,
              At(f, i, k + 1)', ~At(f, i, k + 1)
       PROVE  f = accepted /\ i = 1 /\ k = Written
  <2>1. f = accepted /\ i \in 1..n /\ k + 1 = Written + i
    BY <1>3, <1>17
  <2>2. Written \in Nat /\ n \in Nat
    BY <1>2, <1>6
  <2> QED  BY <2>1, <2>2, <1>17
<1>18. RandomizeInPlace'
  <2> SUFFICES ASSUME "randomize" \notin disturbed
               PROVE  RandomizeInPlace'
    BY <1>1 DEF RandomizeInPlace
  <2>1. ASSUME NEW f \in Nat, NEW i \in Nat, At(f, i, whiteRead + 1)'
        PROVE  /\ rnd.byteCount = i - 1 /\ Handled <= f
               /\ Handled = f => rnd.lfsr = i
               /\ i > 1 => Handled = f /\ rnd.payloadSize = frames[f].len
    <3>1. CASE At(f, i, whiteRead + 1)
      BY <3>1 DEF RandomizeInPlace
    <3>2. CASE ~At(f, i, whiteRead + 1)
      <4>1. f = accepted /\ i = 1 /\ whiteRead = Written
        <5>1. whiteRead \in Nat /\ whiteRead <= Written
          BY <1>6, <1>7
        <5>2. PICK k \in Nat : k = whiteRead /\ k <= Written
          BY <5>1
        <5>3. At(f, i, k + 1)'
          BY <2>1, <5>2, <1>1
        <5>4. ~At(f, i, k + 1)
          BY <3>2, <5>2
        <5> QED  BY <5>2, <5>3, <5>4, <1>17
      <4>2. white = <<>>
        BY <4>1, <1>6, <1>7 DEF TailType
      <4>3. rnd.byteCount = 0 /\ (Handled = accepted => rnd.lfsr = 1)
        BY <4>2, <1>1 DEF RandomizeInPlace
      <4> QED  BY <4>1, <4>3, <1>16
    <3> QED  BY <3>1, <3>2
  <2>2. white' = <<>> => rnd.byteCount = 0
    <3>1. white' = <<>> => Len(white) = 0
      BY <1>6
    <3>2. Len(white) = 0 => white = <<>>
      BY DEF TailType
    <3> QED  BY <3>1, <3>2 DEF RandomizeInPlace
  <2>3. whiteRead' + 1 = whiteRead + 1
    BY <1>1
  <2> QED  BY <2>1, <2>2, <2>3, <1>1, <1>16 DEF RandomizeInPlace
<1>19. /\ whiteRead = plainRead + Len(plain) /\ plainRead <= Written
       /\ plainRead = Written' => plainRead = Written
  <2>1. whiteRead = plainRead + Len(plain)
    BY DEF Streams
  <2>2. plainRead <= Written
    BY <2>1, <1>6, <1>7
  <2>3. plainRead \in Nat /\ n \in Nat /\ Written \in Nat /\ Written' = Written + n
    BY <1>2, <1>6, <1>7
  <2>4. plainRead = Written + n => plainRead = Written
    BY <2>2, <2>3
  <2> QED  BY <2>1, <2>2, <2>3, <2>4
<1>20. CRC16InPlace'
  <2> SUFFICES ASSUME "CRC16" \notin disturbed
               PROVE  CRC16InPlace'
    BY <1>1 DEF CRC16InPlace
  <2>1. Waits("setPayloadSize", accepted) => Waits("setPayloadSize", accepted)'
    <3>1. \A q \in 1..R : q \in 1..Len(crcMsgs')
      BY <1>10
    <3> QED  BY <3>1, <1>1, <1>10 DEF Waits
  <2>2. ASSUME ~Waits("setPayloadSize", accepted)'
        PROVE  /\ crc.payloadSize = frames[accepted].len
               /\ \A k \in 1..Len(white') : white'[k][1] = accepted
               /\ \A k \in 1..Len(plain) : plain[k][1] = accepted
    <3>1. /\ crc.payloadSize = frames[accepted].len
          /\ \A k \in 1..Len(white) : white[k][1] = accepted
          /\ \A k \in 1..Len(plain) : plain[k][1] = accepted
      BY <2>1, <2>2, <1>2 DEF CRC16InPlace
    <3>2. ASSUME NEW k \in 1..Len(white')
          PROVE  white'[k][1] = accepted
      <4>1. CASE k \in 1..Len(white)
        BY <3>1, <4>1, <1>6
      <4>2. CASE \E i \in 1..n : k = Len(white) + i
        <5>1. PICK i \in 1..n : k = Len(white) + i
          BY <4>2
        <5>2. white'[k] = <<accepted, i>>
          BY <5>1, <1>6
        <5> QED  BY <5>2
      <4> QED  BY <4>1, <4>2, <1>8
    <3> QED  BY <3>1, <3>2
  <2>3. ASSUME NEW f \in Nat, NEW i \in Nat, At(f, i, plainRead + 1)'
        PROVE  /\ crc.byteCount = i - 1
               /\ i > 1 => /\ crc.payloadSize = frames[f].len
                           /\ \A q \in 1..Len(crcMsgs') : crcMsgs'[q].frame > f
    <3>1. CASE At(f, i, plainRead + 1)
      <4>1. f <= accepted - 1
        BY <3>1, <1>2, PlaceTyped
      <4>2. msg.frame > f
        BY <4>1, <1>2, <1>12
      <4>3. /\ crc.byteCount = i - 1
            /\ i > 1 => /\ crc.payloadSize = frames[f].len
                        /\ \A q \in 1..R : crcMsgs[q].frame > f
        BY <3>1 DEF CRC16InPlace
      <4> QED  BY <4>2, <4>3, <1>10, <1>11
    <3>2. CASE ~At(f, i, plainRead + 1)
      <4>1. i = 1 /\ plainRead = Written
        BY <2>3, <3>2, <1>1, <1>6, <1>17, <1>19
      <4>2. crc.byteCount = 0
        BY <4>1 DEF CRC16InPlace
      <4> QED  BY <4>1, <4>2
    <3> QED  BY <3>1, <3>2
  <2>4. plainRead = Written' => crc.byteCount = 0
    BY <1>19 DEF CRC16InPlace
  <2> QED  BY <2>2, <2>3, <2>4, <1>1, <1>2 DEF CRC16InPlace
<1>21. Covering'
  <2> SUFFICES ASSUME disturbed = {}
               PROVE  Covering'
    BY <1>1 DEF Covering
  <2>1. ASSUME NEW f \in Nat, NEW i \in Nat, At(f, i, plainRead + 1)'
        PROVE  crc.covers = DueUpTo(f, i - 1)
    <3>1. CASE At(f, i, plainRead + 1)
      BY <3>1 DEF Covering
    <3>2. CASE ~At(f, i, plainRead + 1)
      <4>1. i = 1 /\ plainRead = Written
        BY <2>1, <3>2, <1>1, <1>6, <1>17, <1>19
      <4>2. crc.covers = <<>>
        BY <4>1 DEF Covering
      <4>3. DueUpTo(f, 0) = <<>>
        BY DEF DueUpTo
      <4> QED  BY <4>1, <4>2, <4>3
    <3> QED  BY <3>1, <3>2
  <2>2. plainRead = Written' => crc.covers = <<>>
    BY <1>19 DEF Covering
  <2> QED  BY <2>1, <2>2, <1>1 DEF Covering
<1>22. OneFrame'
  <2>1. ASSUME scenario.spaced
        PROVE  /\ \A k \in 1..Len(white') : white'[k][1] = accepted
               /\ \A q \in 1..Len(crcMsgs') : crcMsgs'[q].frame = accepted
    <3>1. ASSUME NEW k \in 1..Len(white')
          PROVE  white'[k][1] = accepted
      <4>1. CASE k \in 1..Len(white)
        BY <2>1, <4>1, <1>6 DEF OneFrame
      <4>2. CASE \E i \in 1..n : k = Len(white) + i
        <5>1. PICK i \in 1..n : k = Len(white) + i
          BY <4>2
        <5>2. white'[k] = <<accepted, i>>
          BY <5>1, <1>6
        <5> QED  BY <5>2
      <4> QED  BY <4>1, <4>2, <1>8
    <3>2. \A q \in 1..Len(crcMsgs') : crcMsgs'[q].frame = accepted
      BY <2>1, <1>10, <1>11, <1>12 DEF OneFrame
    <3> QED  BY <3>1, <3>2
  <2> QED  BY <2>1, <1>1 DEF OneFrame
<1>23. SpacedDisturbance'
  BY <1>1 DEF SpacedDisturbance
<1> QED  BY <1>13, <1>14, <1>15, <1>18, <1>20, <1>21, <1>22, <1>23
-----------------------------------------------------------------------------
(* What is left of a queue when item i is taken out.                       *)
LEMMA RemovedAt ==
  ASSUME NEW S, NEW s \in Seq(S), NEW i \in 1..Len(s)
  PROVE  /\ RemoveAt(s, i) \in Seq(S)
         /\ Len(RemoveAt(s, i)) = Len(s) - 1
         /\ \A j \in 1..(Len(s) - 1) : RemoveAt(s, i)[j] = s[IF j < i THEN j ELSE j + 1]
<1> DEFINE a == SubSeq(s, 1, i - 1)
           b == SubSeq(s, i + 1, Len(s))
<1>1. i - 1 \in 0..Len(s) /\ i \in 0..Len(s) /\ Len(s) \in Nat
  OBVIOUS
<1>2. a \in Seq(S) /\ Len(a) = i - 1 /\ \A j \in 1..(i - 1) : a[j] = s[j]
  BY <1>1, TakeFirst
<1>3. b \in Seq(S) /\ Len(b) = Len(s) - i /\ \A j \in 1..Len(b) : b[j] = s[i + j]
  BY <1>1, DropFirst
<1>4. RemoveAt(s, i) = a \o b
  BY DEF RemoveAt
<1> HIDE DEF a, b
<1>5. /\ a \o b \in Seq(S) /\ Len(a \o b) = Len(a) + Len(b)
      /\ \A j \in 1..Len(a) : (a \o b)[j] = a[j]
      /\ \A j \in 1..Len(b) : (a \o b)[Len(a) + j] = b[j]
  <2>1. a \in Seq(S) /\ b \in Seq(S)
    BY <1>2, <1>3
  <2> QED  BY <2>1, ConcatAt
<1>6. ASSUME NEW j \in 1..(Len(s) - 1)
      PROVE  (a \o b)[j] = s[IF j < i THEN j ELSE j + 1]
  <2>1. CASE j < i
    <3>1. j \in 1..(i - 1) /\ j \in 1..Len(a)
      BY <2>1, <1>1, <1>2
    <3> QED  BY <2>1, <3>1, <1>2, <1>5
  <2>2. CASE ~(j < i)
    <3>1. j - (i - 1) \in 1..Len(b) /\ j = Len(a) + (j - (i - 1)) /\ i + (j - (i - 1)) = j + 1
      BY <2>2, <1>1, <1>2, <1>3
    <3>2. (a \o b)[j] = b[j - (i - 1)]
      BY <3>1, <1>5
    <3>3. b[j - (i - 1)] = s[j + 1]
      BY <3>1, <1>3
    <3> QED  BY <2>2, <3>2, <3>3
  <2> QED  BY <2>1, <2>2
<1>7. Len(a) + Len(b) = Len(s) - 1
  BY <1>1, <1>2, <1>3
<1> QED  BY <1>4, <1>5, <1>6, <1>7

LEMMA HandleCrcMsgStep ==
  ASSUME TailInv, HandleCrcMsg
  PROVE  TailInv'
<1> USE DEF TailInv
<1> DEFINE Meets(m) == IF \E b \in Range(white) \union Range(plain) : b[1] < m.frame
                       THEN {"CRC16"} ELSE {}
           R == Len(crcMsgs)
           Old(j, i) == IF j < i THEN j ELSE j + 1
<1>1. PICK i \in DOMAIN crcMsgs :
        /\ \A j \in 1..(i - 1) : crcMsgs[j].port # crcMsgs[i].port
        /\ crc' = IF crcMsgs[i].port = "setXorOut" THEN [crc EXCEPT !.xorOut = crcMsgs[i].frame]
                  ELSE [crc EXCEPT !.payloadSize = frames[crcMsgs[i].frame].len]
        /\ crcMsgs' = RemoveAt(crcMsgs, i)
        /\ disturbed' = disturbed \union Meets(crcMsgs[i])
        /\ UNCHANGED <<scenario, accepted, receiving, tags, lfsrMsgs, white, whiteRead,
                       plain, plainRead, rnd, bytesOut, crcOut>>
  BY DEF HandleCrcMsg
<1>2. scenario' = scenario /\ frames' = frames /\ Ends' = Ends /\ scenario \in Scenarios
      /\ accepted' = accepted /\ receiving' = receiving /\ white' = white
      /\ whiteRead' = whiteRead /\ plain' = plain /\ plainRead' = plainRead
      /\ lfsrMsgs' = lfsrMsgs /\ tags' = tags /\ rnd' = rnd /\ bytesOut' = bytesOut
      /\ crcOut' = crcOut
  BY <1>1, SamePlaces DEF TailType
<1> DEFINE m == crcMsgs[i]
<1>3. /\ crcMsgs \in Seq(CrcMsg) /\ R \in Nat /\ i \in 1..R
      /\ m \in CrcMsg /\ m.port \in {"setPayloadSize", "setXorOut"}
      /\ m.frame \in 1..accepted /\ accepted \in 0..Len(frames) /\ Len(frames) \in Nat
  <2>1. crcMsgs \in Seq(CrcMsg) /\ R \in Nat /\ i \in 1..R
    BY DEF TailType
  <2>2. m \in CrcMsg
    BY <2>1
  <2>3. m.frame \in 1..accepted
    BY <2>1 DEF Messages
  <2>4. accepted \in 0..Len(frames) /\ Len(frames) \in Nat
    BY <1>2, FramesTyped DEF TailType
  <2> QED  BY <2>1, <2>2, <2>3, <2>4 DEF CrcMsg
<1>4. /\ crcMsgs' \in Seq(CrcMsg) /\ Len(crcMsgs') = R - 1
      /\ \A j \in 1..(R - 1) : crcMsgs'[j] = crcMsgs[Old(j, i)]
  BY <1>1, <1>3, RemovedAt
<1>5. \A j \in 1..(R - 1) : Old(j, i) \in 1..R /\ Old(j, i) # i
  BY <1>3
<1>6. \A j, k \in 1..(R - 1) : j < k => Old(j, i) < Old(k, i)
  BY <1>3
<1>7. \A q \in 1..R : q # i => \E j \in 1..(R - 1) : q = Old(j, i)
  <2> SUFFICES ASSUME NEW q \in 1..R, q # i
               PROVE  \E j \in 1..(R - 1) : q = Old(j, i)
    OBVIOUS
  <2>1. CASE q < i
    <3>1. q \in 1..(R - 1) /\ q = Old(q, i)
      BY <2>1, <1>3
    <3> QED  BY <3>1
  <2>2. CASE ~(q < i)
    <3>1. q - 1 \in 1..(R - 1) /\ q = Old(q - 1, i)
      BY <2>2, <1>3
    <3> QED  BY <3>1
  <2> QED  BY <2>1, <2>2
<1> HIDE DEF Old
<1>8. /\ crc' \in CrcState /\ crc'.covers = crc.covers /\ crc'.byteCount = crc.byteCount
      /\ m.port = "setXorOut" => crc'.xorOut = m.frame /\ crc'.payloadSize = crc.payloadSize
      /\ m.port # "setXorOut" => crc'.xorOut = crc.xorOut /\ crc'.payloadSize = frames[m.frame].len
  <2>1. crc \in CrcState /\ m.frame \in Nat /\ m.frame \in 1..Len(frames)
    BY <1>3 DEF TailType
  <2>2. PICK l \in 0..255 : l = frames[m.frame].len
    BY <2>1, <1>2, FramesTyped
  <2>3. crc' = IF m.port = "setXorOut" THEN [crc EXCEPT !.xorOut = m.frame]
               ELSE [crc EXCEPT !.payloadSize = l]
    BY <1>1, <2>2
  <2> HIDE DEF m
  <2>4. CASE m.port = "setXorOut"
    <3>1. crc' = [crc EXCEPT !.xorOut = m.frame]
      BY <2>3, <2>4
    <3> QED  BY <2>1, <2>4, <3>1 DEF CrcState
  <2>5. CASE m.port # "setXorOut"
    <3>1. crc' = [crc EXCEPT !.payloadSize = l]
      BY <2>3, <2>5
    <3> QED  BY <2>1, <2>2, <2>5, <3>1 DEF CrcState
  <2> QED  BY <2>4, <2>5
<1> DEFINE meets == Meets(m)
<1>9. disturbed' = disturbed \union meets
  BY <1>1
<1>10. meets \subseteq {"CRC16"} /\
       ("CRC16" \notin meets => \A b \in Range(white) \union Range(plain) : ~(b[1] < m.frame))
  OBVIOUS
<1>11. /\ \A k \in 1..Len(white) : white[k] \in Range(white)
       /\ \A k \in 1..Len(plain) : plain[k] \in Range(plain)
  BY DEF Range, TailType
<1>12. SentUpTo' = SentUpTo /\ Written' = Written
       /\ \A f, j, k : At(f, j, k)' <=> At(f, j, k)
  BY <1>2 DEF SentUpTo, Written, At
<1>13. ASSUME NEW p, NEW f, Waits(p, f), ~(m.port = p /\ m.frame = f)
       PROVE  Waits(p, f)'
  <2>1. PICK q \in 1..R : crcMsgs[q].port = p /\ crcMsgs[q].frame = f
    BY <1>13 DEF Waits
  <2>2. q # i
    BY <2>1, <1>13
  <2>3. PICK j \in 1..(R - 1) : q = Old(j, i)
    BY <2>2, <1>7
  <2>4. j \in 1..Len(crcMsgs') /\ crcMsgs'[j].port = p /\ crcMsgs'[j].frame = f
    BY <2>1, <2>3, <1>4
  <2> QED  BY <2>4 DEF Waits
(* The frame's last message of a port is the last one that waits there.    *)
<1>14. ASSUME m.frame = accepted, NEW j \in 1..(R - 1)
       PROVE  crcMsgs'[j].port # m.port
  <2> DEFINE q == Old(j, i)
  <2>1. q \in 1..R /\ q # i /\ crcMsgs'[j] = crcMsgs[q]
    BY <1>4, <1>5
  <2> HIDE DEF q
  <2>2. CASE q < i
    <3>1. q \in 1..(i - 1)
      BY <2>1, <2>2, <1>3
    <3> QED  BY <3>1, <2>1, <1>1
  <2>3. CASE i < q
    <3>1. crcMsgs[q].port = m.port => m.frame < crcMsgs[q].frame
      BY <2>1, <2>3, <1>3 DEF Messages
    <3>2. crcMsgs[q].frame \in 1..accepted
      BY <2>1 DEF Messages
    <3> QED  BY <2>1, <3>1, <3>2, <1>3, <1>14
  <2> QED  BY <2>1, <2>2, <2>3, <1>3
<1>15. TailType'
  <2>1. disturbed' \subseteq {"randomize", "CRC16"}
    BY <1>9, <1>10 DEF TailType
  <2> QED  BY <2>1, <1>2, <1>4, <1>8 DEF TailType
<1>16. Streams'
  BY <1>2, <1>12 DEF Streams
<1> HIDE DEF m, Meets, meets
<1>17. Messages'
  <2>1. \A j \in 1..(R - 1) :
          /\ crcMsgs'[j].frame \in 1..accepted
          /\ crcMsgs'[j].port = "setXorOut" => crcMsgs'[j].frame <= SentUpTo
    BY <1>4, <1>5 DEF Messages
  <2>2. \A j, k \in 1..(R - 1) :
          j < k /\ crcMsgs'[j].port = crcMsgs'[k].port => crcMsgs'[j].frame < crcMsgs'[k].frame
    BY <1>4, <1>5, <1>6 DEF Messages
  <2>3. crc'.xorOut \in 0..accepted
    BY <1>3, <1>8 DEF Messages
  <2>4. ASSUME NEW j \in 1..(R - 1), crcMsgs'[j].port = "setPayloadSize"
        PROVE  Waits("setPayloadSize", accepted)'
    <3>1. Waits("setPayloadSize", accepted)
      BY <2>4, <1>4, <1>5 DEF Messages
    <3>2. PICK a : a = accepted
      OBVIOUS
    <3>3. ~(m.port = "setPayloadSize" /\ m.frame = a)
      BY <2>4, <3>2, <1>14
    <3>4. Waits("setPayloadSize", a)'
      BY <3>1, <3>2, <3>3, <1>13
    <3> QED  BY <3>2, <3>4, <1>2
  <2>5. ASSUME ~receiving, accepted > 0, frames[accepted].crc
        PROVE  \/ Waits("setXorOut", accepted)'
               \/ crc'.xorOut = accepted /\ \A j \in 1..(R - 1) : crcMsgs'[j].port # "setXorOut"
    <3>1. CASE Waits("setXorOut", accepted)
      <4>1. CASE m.port = "setXorOut" /\ m.frame = accepted
        BY <4>1, <1>8, <1>14
      <4>2. CASE ~(m.port = "setXorOut" /\ m.frame = accepted)
        <5>1. PICK a : a = accepted
          OBVIOUS
        <5>2. Waits("setXorOut", a)'
          BY <3>1, <4>2, <5>1, <1>13
        <5> QED  BY <5>1, <5>2, <1>2
      <4> QED  BY <4>1, <4>2
    <3>2. CASE ~Waits("setXorOut", accepted)
      <4>1. crc.xorOut = accepted /\ \A q \in 1..R : crcMsgs[q].port # "setXorOut"
        BY <2>5, <3>2 DEF Messages
      <4>2. m.port # "setXorOut"
        BY <4>1, <1>3 DEF m
      <4> QED  BY <4>1, <4>2, <1>4, <1>5, <1>8
    <3> QED  BY <3>1, <3>2
  <2>6. Handled' = Handled
    BY <1>2 DEF Handled
  <2> QED  BY <2>1, <2>2, <2>3, <2>4, <2>5, <2>6, <1>2, <1>4, <1>12 DEF Messages
<1>18. RandomizeInPlace'
  <2>1. "randomize" \notin disturbed' => "randomize" \notin disturbed
    BY <1>9
  <2>2. Handled' = Handled
    BY <1>2 DEF Handled
  <2> QED  BY <2>1, <2>2, <1>2, <1>12 DEF RandomizeInPlace
<1>19. CRC16InPlace'
  <2> SUFFICES ASSUME "CRC16" \notin disturbed'
               PROVE  CRC16InPlace'
    BY DEF CRC16InPlace
  <2>1. "CRC16" \notin disturbed /\ "CRC16" \notin meets
    BY <1>9
  <2>2. /\ \A k \in 1..Len(white) : ~(white[k][1] < m.frame)
        /\ \A k \in 1..Len(plain) : ~(plain[k][1] < m.frame)
    BY <2>1, <1>10, <1>11
  <2>3. ASSUME accepted > 0, ~Waits("setPayloadSize", accepted)'
        PROVE  /\ crc'.payloadSize = frames[accepted].len
               /\ \A k \in 1..Len(white) : white[k][1] = accepted
               /\ \A k \in 1..Len(plain) : plain[k][1] = accepted
    <3>1. CASE m.port = "setPayloadSize" /\ m.frame = accepted
      <4>1. crc'.payloadSize = frames[accepted].len
        BY <3>1, <1>8
      <4>2. accepted \in Nat /\ SentUpTo \in Nat /\ SentUpTo <= accepted
        BY <1>3, SentRange
      <4>3. /\ \A k \in 1..Len(white) : white[k][1] \in Nat /\ white[k][1] <= SentUpTo
            /\ \A k \in 1..Len(plain) : plain[k][1] \in Nat /\ plain[k][1] <= SentUpTo
        BY OnTheWay
      <4> QED  BY <2>2, <3>1, <4>1, <4>2, <4>3
    <3>2. CASE ~(m.port = "setPayloadSize" /\ m.frame = accepted)
      <4>1. PICK a : a = accepted
        OBVIOUS
      <4>2. ~Waits("setPayloadSize", a)'
        BY <2>3, <4>1, <1>2
      <4>3. ~Waits("setPayloadSize", accepted)
        BY <3>2, <4>1, <4>2, <1>13
      <4>4. m.port # "setPayloadSize"
        BY <4>3, <1>3 DEF Messages, m
      <4>5. crc'.payloadSize = crc.payloadSize
        BY <4>4, <1>3, <1>8 DEF m
      <4> QED  BY <2>1, <2>3, <4>3, <4>5 DEF CRC16InPlace
    <3> QED  BY <3>1, <3>2
  <2>4. ASSUME NEW f \in Nat, NEW j \in Nat, At(f, j, plainRead + 1)
        PROVE  /\ crc'.byteCount = j - 1
               /\ ~(j > 1)
    <3>1. crc.byteCount = j - 1
      BY <2>1, <2>4 DEF CRC16InPlace
    <3>2. ASSUME j > 1 PROVE FALSE
      <4>1. m.frame > f
        BY <2>1, <2>4, <3>2, <1>3 DEF CRC16InPlace, m
      <4>2. ~(f < m.frame)
        BY <2>2, <2>4, NextPlain
      <4>3. m.frame \in Nat
        BY <1>3 DEF m
      <4> QED  BY <4>1, <4>2, <4>3
    <3> QED  BY <3>1, <3>2, <1>8
  <2>5. plainRead = Written => crc'.byteCount = 0
    BY <2>1, <1>8 DEF CRC16InPlace
  <2> QED  BY <2>3, <2>4, <2>5, <1>2, <1>12 DEF CRC16InPlace
<1>20. Covering'
  <2>1. disturbed' = {} => disturbed = {}
    BY <1>9
  <2> QED  BY <2>1, <1>2, <1>8, <1>12 DEF Covering
<1>21. OneFrame'
  <2>1. scenario.spaced => \A q \in 1..(R - 1) : crcMsgs'[q].frame = accepted
    BY <1>4, <1>5 DEF OneFrame
  <2> QED  BY <2>1, <1>2, <1>4 DEF OneFrame
<1>22. SpacedDisturbance'
  <2>1. ASSUME scenario.spaced PROVE disturbed' = disturbed
    <3>1. m.frame = accepted /\ accepted \in Nat
      BY <2>1, <1>3 DEF OneFrame, m
    <3>2. /\ \A k \in 1..Len(white) : white[k][1] = accepted
          /\ \A k \in 1..Len(plain) : plain[k][1] = accepted
      BY <2>1 DEF OneFrame
    <3>3. ASSUME NEW b \in Range(white) \union Range(plain)
          PROVE  b[1] = accepted
      <4>1. DOMAIN white = 1..Len(white) /\ DOMAIN plain = 1..Len(plain)
        BY DEF TailType
      <4>2. CASE b \in Range(white)
        <5>1. PICK k \in 1..Len(white) : b = white[k]
          BY <4>1, <4>2 DEF Range
        <5> QED  BY <5>1, <3>2
      <4>3. CASE b \in Range(plain)
        <5>1. PICK k \in 1..Len(plain) : b = plain[k]
          BY <4>1, <4>3 DEF Range
        <5> QED  BY <5>1, <3>2
      <4> QED  BY <4>2, <4>3
    <3>4. meets = {}
      BY <3>1, <3>3 DEF meets, Meets
    <3> QED  BY <3>4, <1>9
  <2> QED  BY <2>1, <1>2 DEF SpacedDisturbance
<1> QED  BY <1>15, <1>16, <1>17, <1>18, <1>19, <1>20, <1>21, <1>22
-----------------------------------------------------------------------------
LEMMA TaggedSizeTyped ==
  ASSUME TailType, Streams, NEW item, NEW size \in 0..255
  PROVE  TaggedSize(item, size) \in 0..255
<1>1. /\ TagOn(item) \in 0..Len(tags) /\ Len(tags) = accepted
      /\ accepted \in 0..Len(frames) /\ scenario \in Scenarios /\ Len(frames) \in Nat
      /\ \A j \in 1..accepted : tags[j].frame = j
  BY TagOnIs, FramesTyped, SMTT(30) DEF TailType, Streams
<1>2. CASE TagOn(item) = 0
  BY <1>2 DEF TaggedSize
<1>3. CASE TagOn(item) # 0
  <2>1. TagOn(item) \in 1..accepted /\ TagOn(item) \in 1..Len(frames)
    BY <1>1, <1>3
  <2>2. tags[TagOn(item)].frame = TagOn(item)
    BY <1>1, <2>1
  <2>3. frames[TagOn(item)].len \in 0..255
    BY <1>1, <2>1, FramesTyped
  <2> QED  BY <1>3, <2>2, <2>3 DEF TaggedSize
<1> QED  BY <1>2, <1>3

(* When randomize has handled every message, it is in the last frame, and  *)
(* all that waits in front of it belongs to that frame.                    *)
LEMMA OnlyLastFrame ==
  ASSUME TailType, Streams, NEW f, NEW i, At(f, i, whiteRead + 1), accepted <= f
  PROVE  /\ f = accepted /\ SentUpTo = f /\ ~receiving
         /\ \A j \in 1..Len(white) : white[j][1] = f /\ white[j][2] = i + (j - 1)
         /\ i + (Len(white) - 1) = frames[f].len
<1>1. /\ f \in 1..Len(frames) /\ f <= SentUpTo /\ whiteRead + 1 = Ends[f - 1] + i
      /\ Ends[f] = Ends[f - 1] + frames[f].len /\ i \in Nat /\ i >= 1
      /\ frames[f].len \in 0..255 /\ f - 1 \in 0..Len(frames)
  BY PlaceTyped
<1>2. /\ SentUpTo <= accepted /\ SentUpTo \in Nat /\ accepted \in Nat /\ f \in Nat
      /\ whiteRead \in Nat /\ Len(white) \in Nat /\ scenario \in Scenarios
      /\ receiving \in BOOLEAN
  BY <1>1, SentRange, FramesTyped DEF TailType
<1>3. f = accepted /\ SentUpTo = f
  BY <1>1, <1>2
<1>4. ~receiving
  BY <1>2, <1>3 DEF SentUpTo
<1>5. ASSUME NEW j \in 1..Len(white)
      PROVE  white[j][1] = f /\ white[j][2] = i + (j - 1)
  <2>1. At(white[j][1], white[j][2], whiteRead + j)
    BY DEF Streams
  <2>2. whiteRead + 1 \in Nat /\ whiteRead + j \in Nat /\ whiteRead + 1 <= whiteRead + j
        /\ (whiteRead + j) - (whiteRead + 1) = j - 1
    BY <1>2
  <2>3. f <= white[j][1] /\ (f = white[j][1] => white[j][2] = i + (j - 1))
    BY <2>1, <2>2, PlacesOrdered
  <2>4. white[j][1] \in 1..Len(frames) /\ white[j][1] <= SentUpTo
    BY <2>1, PlaceTyped
  <2>5. white[j][1] \in Nat
    BY <2>4
  <2> QED  BY <2>3, <2>4, <2>5, <1>2, <1>3
<1>6. whiteRead + Len(white) = Ends[f]
  BY <1>3 DEF Streams, Written
<1>7. Ends[f - 1] \in Nat
  BY <1>1, <1>2, EndsUnfold
<1>8. PICK l \in 0..255 : l = frames[f].len
  BY <1>1
<1>9. i + (Len(white) - 1) = frames[f].len
  BY <1>1, <1>2, <1>6, <1>7, <1>8
<1> QED  BY <1>3, <1>4, <1>5, <1>9

LEMMA RandomizeWorkStep ==
  ASSUME TailInv, RandomizeWork
  PROVE  TailInv'
<1> USE DEF TailInv
<1> DEFINE start == [rnd EXCEPT !.payloadSize = TaggedSize(whiteRead, @)]
           State(n) == RandomizeStates(start, n)
           Wrote(n) == [j \in 1..n |-> <<white[j][1], white[j][2], State(n)[j - 1].lfsr>>]
           noise == IF ForeignTag(whiteRead, white[1][1]) THEN {"randomize"} ELSE {}
           W == Len(white)
           P == Len(plain)
<1>1. PICK n \in 1..W :
        /\ rnd' = State(n)[n]
        /\ plain' = plain \o Wrote(n)
        /\ bytesOut' = bytesOut \o Wrote(n)
        /\ white' = SubSeq(white, n + 1, W)
        /\ whiteRead' = whiteRead + n
  BY DEF RandomizeWork
<1>2. /\ scenario' = scenario /\ frames' = frames /\ Ends' = Ends /\ scenario \in Scenarios
      /\ UNCHANGED <<accepted, receiving, tags, lfsrMsgs, crcMsgs, plainRead, crc, crcOut>>
      /\ lfsrMsgs = <<>>
  BY SamePlaces DEF RandomizeWork, TailType
<1>3. disturbed' = disturbed \union noise
  BY DEF RandomizeWork
<1>4. /\ W \in Nat /\ P \in Nat /\ n \in Nat /\ n >= 1 /\ n <= W /\ whiteRead \in Nat
      /\ plainRead \in Nat /\ whiteRead = plainRead + P /\ Len(bytesOut) = whiteRead
      /\ accepted \in Nat /\ white \in Seq(Byte) /\ plain \in Seq(PlainByte)
      /\ bytesOut \in Seq(PlainByte) /\ rnd \in RndState
  BY FramesTyped DEF TailType, Streams
<1>5. start \in RndState /\ start.payloadSize = TaggedSize(whiteRead, rnd.payloadSize)
      /\ start.byteCount = rnd.byteCount /\ start.lfsr = rnd.lfsr
  <2>1. rnd.payloadSize \in 0..255
    BY <1>4 DEF RndState
  <2>2. TaggedSize(whiteRead, rnd.payloadSize) \in 0..255
    BY <2>1, TaggedSizeTyped
  <2> QED  BY <2>2, <1>4 DEF RndState
<1> HIDE DEF start
<1> DEFINE state == State(n)
<1>6. /\ state \in [0..n -> RndState] /\ \A j \in 0..n : state[j] \in RndState
  BY <1>4, <1>5, RandomizeStatesUnfold
<1>7. rnd' \in RndState /\ rnd' = state[n]
  BY <1>1, <1>4, <1>6
<1> HIDE DEF State
<1> DEFINE wrote == Wrote(n)
<1>8. /\ wrote \in Seq(PlainByte) /\ Len(wrote) = n
      /\ \A j \in 1..n : /\ wrote[j][1] = white[j][1] /\ wrote[j][2] = white[j][2]
                         /\ wrote[j][3] = state[j - 1].lfsr
  <2>1. ASSUME NEW j \in 1..n
        PROVE  <<white[j][1], white[j][2], state[j - 1].lfsr>> \in PlainByte
    <3>1. white[j] \in Byte /\ state[j - 1] \in RndState
      BY <1>4, <1>6
    <3> QED  BY <3>1 DEF Byte, PlainByte, RndState
  <2>2. wrote \in [1..n -> PlainByte]
    BY <2>1
  <2>3. \A j \in 1..n : wrote[j] = <<white[j][1], white[j][2], state[j - 1].lfsr>>
    OBVIOUS
  <2> HIDE DEF wrote
  <2>4. wrote \in Seq(PlainByte) /\ Len(wrote) = n
    BY <1>4, <2>2, FunctionIsSeq
  <2> QED  BY <2>3, <2>4
<1>9. plain' = plain \o wrote /\ bytesOut' = bytesOut \o wrote
  BY <1>1
<1> HIDE DEF wrote, Wrote, state
<1>10. /\ plain' \in Seq(PlainByte) /\ Len(plain') = P + n
       /\ \A k \in 1..P : plain'[k] = plain[k]
       /\ \A j \in 1..n : plain'[P + j] = wrote[j]
  <2>1. wrote \in Seq(PlainByte) /\ Len(wrote) = n
    BY <1>8
  <2>2. plain \in Seq(PlainByte) /\ Len(plain) = P
    BY <1>4
  <2> HIDE DEF P
  <2>3. /\ plain \o wrote \in Seq(PlainByte) /\ Len(plain \o wrote) = P + n
        /\ \A k \in 1..P : (plain \o wrote)[k] = plain[k]
        /\ \A j \in 1..n : (plain \o wrote)[P + j] = wrote[j]
    <3>1. /\ plain \o wrote \in Seq(PlainByte)
          /\ Len(plain \o wrote) = Len(plain) + Len(wrote)
          /\ \A k \in 1..Len(plain) : (plain \o wrote)[k] = plain[k]
          /\ \A j \in 1..Len(wrote) : (plain \o wrote)[Len(plain) + j] = wrote[j]
      <4>1. plain \in Seq(PlainByte) /\ wrote \in Seq(PlainByte)
        BY <2>1, <2>2
      <4> QED  BY <4>1, ConcatAt
    <3> QED  BY <2>1, <2>2, <3>1
  <2> QED  BY <2>3, <1>9
<1>11. /\ bytesOut' \in Seq(PlainByte) /\ Len(bytesOut') = whiteRead + n
       /\ \A k \in 1..whiteRead : bytesOut'[k] = bytesOut[k]
       /\ \A j \in 1..n : bytesOut'[whiteRead + j] = wrote[j]
  <2>1. wrote \in Seq(PlainByte) /\ Len(wrote) = n
    BY <1>8
  <2>2. bytesOut \in Seq(PlainByte) /\ Len(bytesOut) = whiteRead
    BY <1>4
  <2>3. /\ bytesOut \o wrote \in Seq(PlainByte) /\ Len(bytesOut \o wrote) = whiteRead + n
        /\ \A k \in 1..whiteRead : (bytesOut \o wrote)[k] = bytesOut[k]
        /\ \A j \in 1..n : (bytesOut \o wrote)[whiteRead + j] = wrote[j]
    <3>1. /\ bytesOut \o wrote \in Seq(PlainByte)
          /\ Len(bytesOut \o wrote) = Len(bytesOut) + Len(wrote)
          /\ \A k \in 1..Len(bytesOut) : (bytesOut \o wrote)[k] = bytesOut[k]
          /\ \A j \in 1..Len(wrote) : (bytesOut \o wrote)[Len(bytesOut) + j] = wrote[j]
      <4>1. bytesOut \in Seq(PlainByte) /\ wrote \in Seq(PlainByte)
        BY <2>1, <2>2
      <4> QED  BY <4>1, ConcatAt
    <3> QED  BY <2>1, <2>2, <3>1
  <2> QED  BY <2>3, <1>9
<1>12. /\ white' \in Seq(Byte) /\ Len(white') = W - n
       /\ \A k \in 1..(W - n) : white'[k] = white[n + k]
  <2>1. n \in 0..Len(white)
    BY <1>4
  <2> QED  BY <2>1, <1>1, <1>4, DropFirst
<1>13. /\ SentUpTo' = SentUpTo /\ Written' = Written /\ whiteRead' = whiteRead + n
       /\ \A f, i, k : At(f, i, k)' <=> At(f, i, k)
       /\ Written = whiteRead + W /\ Handled' = Handled
  <2>1. SentUpTo' = SentUpTo /\ Handled' = Handled
    BY <1>2 DEF SentUpTo, Handled
  <2>2. \A f, i, k : At(f, i, k)' <=> At(f, i, k)
    BY <2>1, <1>2 DEF At
  <2>3. whiteRead' = whiteRead + n /\ Len(white') = W - n
    BY <1>1, <1>12
  <2>4. Written' = whiteRead' + Len(white') /\ Written = whiteRead + W
    BY DEF Written
  <2>5. Written' = Written
    BY <2>3, <2>4, <1>4
  <2> QED  BY <2>1, <2>2, <2>3, <2>4, <2>5
<1>14. \A k \in 1..(whiteRead + n) : k \in 1..whiteRead \/ \E j \in 1..n : k = whiteRead + j
  <2> SUFFICES ASSUME NEW k \in 1..(whiteRead + n), ~(k \in 1..whiteRead)
               PROVE  \E j \in 1..n : k = whiteRead + j
    OBVIOUS
  <2>1. k - whiteRead \in 1..n /\ k = whiteRead + (k - whiteRead)
    BY <1>4
  <2> QED  BY <2>1
<1>15. \A k \in 1..(P + n) : k \in 1..P \/ \E j \in 1..n : k = P + j
  <2> SUFFICES ASSUME NEW k \in 1..(P + n), ~(k \in 1..P)
               PROVE  \E j \in 1..n : k = P + j
    OBVIOUS
  <2>1. k - P \in 1..n /\ k = P + (k - P)
    BY <1>4
  <2> QED  BY <2>1
<1>16. At(white[1][1], white[1][2], whiteRead + 1)
  <2>1. 1 \in 1..W
    BY <1>4
  <2> QED  BY <2>1 DEF Streams
<1>17. TailType'
  <2>1. disturbed' \subseteq {"randomize", "CRC16"}
    BY <1>3 DEF TailType
  <2>2. whiteRead' \in Nat
    BY <1>4, <1>13
  <2> QED  BY <2>1, <2>2, <1>2, <1>7, <1>10, <1>11, <1>12 DEF TailType
<1>18. Streams'
  <2>1. Written' = Ends'[SentUpTo']
    BY <1>2, <1>13 DEF Streams
  <2>2. ASSUME NEW k \in 1..(W - n)
        PROVE  At(white[k][1], white[k][2], whiteRead + k)'
    <3>1. n + k \in 1..W /\ whiteRead + (n + k) = whiteRead' + k
      BY <1>4, <1>13
    <3>2. PICK f \in Nat, i \in Nat : white[n + k] = <<f, i>>
      <4>1. white[n + k] \in Byte
        BY <3>1, <1>4
      <4> QED  BY <4>1 DEF Byte
    <3>3. At(f, i, whiteRead + (n + k))
      BY <3>1, <3>2 DEF Streams
    <3>4. PICK p : p = whiteRead' + k
      OBVIOUS
    <3>5. At(f, i, p)'
      BY <3>1, <3>3, <3>4, <1>13
    <3>6. white'[k] = <<f, i>>
      BY <3>2, <1>12
    <3> QED  BY <3>4, <3>5, <3>6
  <2>3. ASSUME NEW k \in 1..(whiteRead + n)
        PROVE  At(bytesOut[k][1], bytesOut[k][2], k)'
    <3>1. ASSUME NEW f, NEW i, bytesOut'[k][1] = f, bytesOut'[k][2] = i, At(f, i, k)
          PROVE  At(bytesOut[k][1], bytesOut[k][2], k)'
      BY <3>1, <1>13
    <3>2. CASE k \in 1..whiteRead
      BY <3>1, <3>2, <1>11 DEF Streams
    <3>3. CASE \E j \in 1..n : k = whiteRead + j
      <4>1. PICK j \in 1..n : k = whiteRead + j
        BY <3>3
      <4>2. j \in 1..W
        BY <1>4
      <4>3. bytesOut'[k] = wrote[j]
        BY <4>1, <1>11
      <4>4. bytesOut'[k][1] = white[j][1] /\ bytesOut'[k][2] = white[j][2]
        BY <4>3, <1>8
      <4>5. At(white[j][1], white[j][2], k)
        BY <4>1, <4>2 DEF Streams
      <4> QED  BY <3>1, <4>4, <4>5
    <3> QED  BY <3>2, <3>3, <1>14
  <2>4. whiteRead' = plainRead' + Len(plain')
    BY <1>2, <1>4, <1>10, <1>13
  <2>5. ASSUME NEW k \in 1..(P + n)
        PROVE  plain'[k] = bytesOut'[plainRead + k]
    <3>1. CASE k \in 1..P
      <4>1. plainRead + k \in 1..whiteRead
        BY <3>1, <1>4
      <4> QED  BY <3>1, <4>1, <1>10, <1>11 DEF Streams
    <3>2. CASE \E j \in 1..n : k = P + j
      <4>1. PICK j \in 1..n : k = P + j
        BY <3>2
      <4>2. plainRead + k = whiteRead + j
        BY <4>1, <1>4
      <4> QED  BY <4>1, <4>2, <1>10, <1>11
    <3> QED  BY <3>1, <3>2, <1>15
  <2>6. Len(bytesOut') = whiteRead' /\ Len(white') = W - n
    BY <1>11, <1>12, <1>13
  <2> QED  BY <2>1, <2>2, <2>3, <2>4, <2>5, <2>6, <1>2, <1>10, <1>13 DEF Streams
<1>19. Messages'
  <2>1. \A port : Waits(port, accepted)' <=> Waits(port, accepted)
    BY <1>2 DEF Waits
  <2> QED  BY <2>1, <1>2, <1>13 DEF Messages
<1>20. RandomizeInPlace'
  <2> SUFFICES ASSUME "randomize" \notin disturbed'
               PROVE  RandomizeInPlace'
    BY DEF RandomizeInPlace
  <2>1. "randomize" \notin disturbed /\ ~ForeignTag(whiteRead, white[1][1])
    BY <1>3
  <2>2. PICK f \in Nat, i \in Nat : white[1] = <<f, i>>
    <3>1. white[1] \in Byte
      BY <1>4
    <3> QED  BY <3>1 DEF Byte
  <2>3. At(f, i, whiteRead + 1) /\ ~ForeignTag(whiteRead, f)
    BY <2>1, <2>2, <1>16
  <2>4. Handled = accepted
    BY <1>2, <1>4 DEF Handled
  <2>5. /\ rnd.byteCount = i - 1 /\ accepted <= f
        /\ accepted = f => rnd.lfsr = i
        /\ i > 1 => rnd.payloadSize = frames[f].len
    BY <2>1, <2>3, <2>4 DEF RandomizeInPlace
  <2>6. /\ f = accepted /\ SentUpTo = f /\ ~receiving
        /\ \A j \in 1..W : white[j][1] = f /\ white[j][2] = i + (j - 1)
        /\ i + (W - 1) = frames[f].len
    BY <2>3, <2>5, OnlyLastFrame
  <2>7. PICK len \in 0..255 : len = frames[f].len
    BY <2>3, PlaceTyped
  <2>8. i >= 1 /\ i <= len
    BY <2>3, <2>7, PlaceTyped
  <2>9. start.payloadSize = len
    <3>1. PICK size : size = rnd.payloadSize
      OBVIOUS
    <3>2. whiteRead \in Nat
      BY <1>4
    <3>3. TaggedSize(whiteRead, size) = IF i = 1 THEN frames[f].len ELSE size
      BY <2>3, <3>2, SizeOfByte
    <3>4. start.payloadSize = TaggedSize(whiteRead, size)
      BY <3>1, <1>5
    <3>5. i = 1 \/ i > 1
      BY <2>8
    <3> QED  BY <3>1, <3>3, <3>4, <3>5, <2>5, <2>7
  <2>10. /\ len \in 1..255 /\ i - 1 \in Nat /\ (i - 1) + n <= len
         /\ start.byteCount = i - 1 /\ start.lfsr = i /\ start.lfsr # 0
    <3>1. i + (W - 1) = len
      BY <2>6, <2>7
    <3>2. len \in 1..255 /\ i - 1 \in Nat /\ (i - 1) + n <= len
      BY <2>8, <3>1, <1>4
    <3>3. start.byteCount = i - 1 /\ start.lfsr = i
      BY <2>5, <2>6, <1>5
    <3>4. i # 0
      BY <2>8
    <3> QED  BY <3>2, <3>3, <3>4
  <2>11. \A m \in 0..n :
           /\ state[m].payloadSize = len
           /\ (i - 1) + m < len => state[m].byteCount = (i - 1) + m /\ state[m].lfsr = i + m
           /\ m > 0 /\ (i - 1) + m = len => state[m].byteCount = 0
    <3>1. PICK c \in Nat : c = i - 1
      BY <2>10
    <3>2. start \in RndState /\ n \in Nat /\ len \in 1..255
      BY <2>10, <1>4, <1>5
    <3>3. start.payloadSize = len /\ start.byteCount = c /\ c + n <= len /\ start.lfsr # 0
      BY <2>9, <2>10, <3>1
    <3>4. RandomizeCounting(RandomizeStates(start, n), start, n, c, len)
      BY <3>2, <3>3, RandomizeCounts
    <3>5. state = RandomizeStates(start, n)
      BY DEF state, State
    <3>6. RandomizeCounting(state, start, n, i - 1, len)
      BY <3>1, <3>4, <3>5
    <3>7. start.lfsr = i
      BY <2>10
    <3> QED  BY <3>6, <3>7 DEF RandomizeCounting
  <2>12. ASSUME NEW k \in 1..(whiteRead + n)
         PROVE  bytesOut'[k][3] = bytesOut'[k][2]
    <3>1. CASE k \in 1..whiteRead
      BY <2>1, <3>1, <1>11 DEF RandomizeInPlace
    <3>2. CASE \E j \in 1..n : k = whiteRead + j
      <4>1. PICK j \in 1..n : k = whiteRead + j
        BY <3>2
      <4>2. j \in 1..W /\ j - 1 \in 0..n /\ (i - 1) + (j - 1) < len /\ i + (j - 1) = i + (j - 1)
        BY <2>10, <1>4
      <4>3. bytesOut'[k] = wrote[j]
        BY <4>1, <1>11
      <4>4. state[j - 1].lfsr = i + (j - 1)
        BY <4>2, <2>11
      <4>5. white[j][2] = i + (j - 1)
        BY <4>2, <2>6
      <4>6. wrote[j][2] = i + (j - 1) /\ wrote[j][3] = i + (j - 1)
        BY <4>4, <4>5, <1>8
      <4> QED  BY <4>3, <4>6
    <3> QED  BY <3>1, <3>2, <1>14
  <2>13. ASSUME NEW g \in Nat, NEW h \in Nat, At(g, h, whiteRead + n + 1)
         PROVE  /\ rnd'.byteCount = h - 1 /\ g = accepted
                /\ rnd'.lfsr = h /\ rnd'.payloadSize = frames[g].len
    <3>1. whiteRead + 1 \in Nat /\ whiteRead + n + 1 \in Nat
          /\ whiteRead + 1 <= whiteRead + n + 1 /\ (whiteRead + n + 1) - (whiteRead + 1) = n
      BY <1>4
    <3>2. f <= g /\ (f = g => h = i + n)
      BY <2>3, <2>13, <3>1, PlacesOrdered
    <3>3. g <= SentUpTo /\ h <= frames[g].len
      BY <2>13, PlaceTyped
    <3>4. g = f /\ h = i + n /\ h <= len
      BY <2>6, <2>7, <3>2, <3>3
    <3>5. n \in 0..n /\ (i - 1) + n < len
      BY <3>4, <1>4
    <3>6. state[n].byteCount = (i - 1) + n /\ state[n].lfsr = i + n /\ state[n].payloadSize = len
      BY <2>11, <3>5
    <3>7. (i - 1) + n = h - 1
      BY <3>4, <1>4
    <3> QED  BY <2>6, <2>7, <3>4, <3>6, <3>7, <1>7
  <2>14. white' = <<>> => rnd'.byteCount = 0
    <3>1. ASSUME white' = <<>> PROVE rnd'.byteCount = 0
      <4>1. n = W
        BY <3>1, <1>4, <1>12
      <4>2. n \in 0..n /\ n > 0 /\ (i - 1) + n = len
        BY <4>1, <2>6, <2>7, <1>4
      <4> QED  BY <4>2, <2>11, <1>7
    <3> QED  BY <3>1
  <2>15. whiteRead' + 1 = whiteRead + n + 1 /\ receiving' = receiving /\ accepted' = accepted
         /\ Handled' = accepted
    BY <2>4, <1>2, <1>4, <1>13
  <2> QED  BY <2>6, <2>12, <2>13, <2>14, <2>15, <1>2, <1>13 DEF RandomizeInPlace
<1>21. CRC16InPlace'
  <2> SUFFICES ASSUME "CRC16" \notin disturbed'
               PROVE  CRC16InPlace'
    BY DEF CRC16InPlace
  <2>1. "CRC16" \notin disturbed
    BY <1>3
  <2>2. Waits("setPayloadSize", accepted)' <=> Waits("setPayloadSize", accepted)
    BY <1>2 DEF Waits
  <2>3. ASSUME accepted > 0, ~Waits("setPayloadSize", accepted)
        PROVE  /\ crc.payloadSize = frames[accepted].len
               /\ \A k \in 1..(W - n) : white'[k][1] = accepted
               /\ \A k \in 1..(P + n) : plain'[k][1] = accepted
    <3>1. /\ crc.payloadSize = frames[accepted].len
          /\ \A k \in 1..W : white[k][1] = accepted
          /\ \A k \in 1..P : plain[k][1] = accepted
      BY <2>1, <2>3 DEF CRC16InPlace
    <3>2. ASSUME NEW k \in 1..(W - n) PROVE white'[k][1] = accepted
      <4>1. n + k \in 1..W
        BY <1>4
      <4> QED  BY <3>1, <4>1, <1>12
    <3>3. ASSUME NEW k \in 1..(P + n) PROVE plain'[k][1] = accepted
      <4>1. CASE k \in 1..P
        BY <3>1, <4>1, <1>10
      <4>2. CASE \E j \in 1..n : k = P + j
        <5>1. PICK j \in 1..n : k = P + j
          BY <4>2
        <5>2. j \in 1..W /\ plain'[k] = wrote[j]
          BY <5>1, <1>4, <1>10
        <5>3. wrote[j][1] = white[j][1]
          BY <1>8
        <5> QED  BY <3>1, <5>2, <5>3
      <4> QED  BY <4>1, <4>2, <1>15
    <3> QED  BY <3>1, <3>2, <3>3
  <2> QED  BY <2>1, <2>2, <2>3, <1>2, <1>10, <1>12, <1>13 DEF CRC16InPlace
<1>22. Covering'
  <2>1. disturbed' = {} => disturbed = {}
    BY <1>3
  <2> QED  BY <2>1, <1>2, <1>13 DEF Covering
<1>23. OneFrame'
  <2>1. ASSUME scenario.spaced
        PROVE  /\ \A k \in 1..(W - n) : white'[k][1] = accepted
               /\ \A k \in 1..(P + n) : plain'[k][1] = accepted
    <3>1. /\ \A k \in 1..W : white[k][1] = accepted
          /\ \A k \in 1..P : plain[k][1] = accepted
      BY <2>1 DEF OneFrame
    <3>2. ASSUME NEW k \in 1..(W - n) PROVE white'[k][1] = accepted
      <4>1. n + k \in 1..W
        BY <1>4
      <4> QED  BY <3>1, <4>1, <1>12
    <3>3. ASSUME NEW k \in 1..(P + n) PROVE plain'[k][1] = accepted
      <4>1. CASE k \in 1..P
        BY <3>1, <4>1, <1>10
      <4>2. CASE \E j \in 1..n : k = P + j
        <5>1. PICK j \in 1..n : k = P + j
          BY <4>2
        <5>2. j \in 1..W /\ plain'[k] = wrote[j]
          BY <5>1, <1>4, <1>10
        <5>3. wrote[j][1] = white[j][1]
          BY <1>8
        <5> QED  BY <3>1, <5>2, <5>3
      <4> QED  BY <4>1, <4>2, <1>15
    <3> QED  BY <3>2, <3>3
  <2> QED  BY <2>1, <1>2, <1>10, <1>12 DEF OneFrame
<1>24. SpacedDisturbance'
  <2>1. CASE ForeignTag(whiteRead, white[1][1])
    <3>1. \E a, b \in DOMAIN tags :
            /\ a < b /\ tags[a].at = tags[b].at
            /\ frames[tags[a].frame].cut \/ frames[tags[a].frame].len = 0
      BY <2>1, <1>4, <1>16, ForeignTagExplained
    <3> QED  BY <3>1, <1>2 DEF SpacedDisturbance
  <2>2. CASE ~ForeignTag(whiteRead, white[1][1])
    <3>1. disturbed' = disturbed
      BY <2>2, <1>3
    <3> QED  BY <3>1, <1>2 DEF SpacedDisturbance
  <2> QED  BY <2>1, <2>2
<1> QED  BY <1>17, <1>18, <1>19, <1>20, <1>21, <1>22, <1>23, <1>24
-----------------------------------------------------------------------------
(* A call of CRC16 changes neither the size nor the CRC it compares with.  *)
LEMMA CRCKeeps ==
  ASSUME NEW start \in CallState, NEW bytes \in Seq(PlainByte), NEW n \in 0..Len(bytes)
  PROVE  /\ CRCStates(start, bytes, n)[n] \in CallState
         /\ CRCStates(start, bytes, n)[n].crc.xorOut = start.crc.xorOut
<1> DEFINE state == CRCStates(start, bytes, n)
           T == {m \in 0..n : state[m].crc.xorOut = start.crc.xorOut}
<1>1. /\ state[0] = start /\ \A m \in 0..n : state[m] \in CallState
      /\ \A m \in 1..n : state[m] = CRCByte(state[m - 1], bytes[m])
      /\ n \in Nat
  BY CRCStatesUnfold
<1> HIDE DEF state
<1>2. 0 \in T
  BY <1>1
<1>3. ASSUME NEW m \in 0..n, m \in T, m < n
      PROVE  m + 1 \in T
  <2>1. m + 1 \in 1..n /\ m + 1 \in 0..n /\ (m + 1) - 1 = m
    <3> HIDE DEF T
    <3> QED  BY <1>3
  <2>2. state[m + 1] = CRCByte(state[m], bytes[m + 1])
    BY <1>1, <2>1
  <2>3. PICK s \in CallState : s = state[m]
    BY <1>1
  <2>4. s.crc \in CrcState
    BY DEF CallState
  <2>5. CRCByte(s, bytes[m + 1]).crc.xorOut = s.crc.xorOut
    BY <2>4 DEF CRCByte, CrcState
  <2> QED  BY <2>1, <2>2, <2>3, <2>5, <1>3
<1>4. 0..n \subseteq T
  <2> HIDE DEF T
  <2> QED  BY <1>1, <1>2, <1>3, InductTo
<1>5. n \in 0..n
  BY <1>1
<1> QED  BY <1>1, <1>4, <1>5 DEF state

(* Undisturbed, a call of CRC16 begins at byte i of the last frame, and    *)
(* finds only bytes of that frame in front of it.                          *)
LEMMA CRC16Begins ==
  ASSUME TailInv, crcMsgs = <<>>, Len(plain) >= 1,
         "CRC16" \notin disturbed, ~ForeignTag(plainRead, plain[1][1])
  PROVE  \E i \in Nat :
           /\ i >= 1
           /\ At(accepted, i, plainRead + 1) /\ SentUpTo = accepted /\ ~receiving
           /\ \A q \in 1..Len(plain) : plain[q][1] = accepted /\ plain[q][2] = i + (q - 1)
           /\ (i - 1) + Len(plain) <= frames[accepted].len
           /\ crc.byteCount = i - 1
           /\ TaggedSize(plainRead, crc.payloadSize) = frames[accepted].len
           /\ Written = plainRead + 1 + (frames[accepted].len - i)
<1> USE DEF TailInv
<1>1. /\ plainRead \in Nat /\ Len(plain) \in Nat /\ whiteRead \in Nat
      /\ whiteRead = plainRead + Len(plain)
      /\ accepted \in 0..Len(frames) /\ scenario \in Scenarios /\ Len(frames) \in Nat
      /\ SentUpTo \in Nat /\ SentUpTo <= accepted
  BY FramesTyped, SentRange DEF TailType, Streams
<1>2. ASSUME NEW q \in 1..Len(plain)
      PROVE  At(plain[q][1], plain[q][2], plainRead + q)
  <2>1. plainRead + q \in 1..whiteRead
    BY <1>1
  <2>2. plain[q] = bytesOut[plainRead + q]
    BY DEF Streams
  <2> QED  BY <2>1, <2>2 DEF Streams
<1>3. 1 \in 1..Len(plain)
  BY <1>1
<1>4. PICK f \in Nat, i \in Nat : plain[1][1] = f /\ plain[1][2] = i
  <2>1. plain \in Seq(PlainByte)
    BY DEF TailType
  <2>2. plain[1] \in PlainByte
    BY <2>1, <1>3
  <2> QED  BY <2>2 DEF PlainByte
<1>5. At(f, i, plainRead + 1)
  BY <1>2, <1>3, <1>4
<1>6. /\ f \in 1..Len(frames) /\ f <= SentUpTo /\ i >= 1 /\ frames[f].len \in 0..255
      /\ i <= frames[f].len
      /\ plainRead + 1 = Ends[f - 1] + i /\ Ends[f] = Ends[f - 1] + frames[f].len
      /\ f - 1 \in 0..Len(frames)
  BY <1>5, PlaceTyped
<1>7. accepted > 0 /\ ~Waits("setPayloadSize", accepted)
  <2>1. Len(crcMsgs) = 0
    OBVIOUS
  <2> QED  BY <2>1, <1>1, <1>6 DEF Waits
<1>8. /\ crc.payloadSize = frames[accepted].len
      /\ \A q \in 1..Len(plain) : plain[q][1] = accepted
      /\ crc.byteCount = i - 1
  BY <1>5, <1>7 DEF CRC16InPlace
<1>9. f = accepted
  BY <1>3, <1>4, <1>8
<1>10. SentUpTo = accepted /\ ~receiving
  <2>1. SentUpTo = accepted
    BY <1>1, <1>6, <1>9
  <2> QED  BY <2>1, <1>1 DEF SentUpTo
<1>11. PICK len \in 0..255 : len = frames[f].len
  BY <1>6
<1>12. ASSUME NEW q \in 1..Len(plain)
       PROVE  plain[q][2] = i + (q - 1) /\ i + (q - 1) <= len
  <2>1. plainRead + 1 \in Nat /\ plainRead + q \in Nat /\ plainRead + 1 <= plainRead + q
        /\ (plainRead + q) - (plainRead + 1) = q - 1
    BY <1>1
  <2>2. PICK h : h = plain[q][2]
    OBVIOUS
  <2>3. At(f, h, plainRead + q)
    BY <1>2, <1>8, <1>9, <2>2
  <2>4. h = i + (q - 1)
    BY <1>5, <2>1, <2>3, PlacesOrdered
  <2>5. h <= len
    BY <2>3, <1>11, PlaceTyped
  <2> QED  BY <2>2, <2>4, <2>5
<1>13. (i - 1) + Len(plain) <= len
  <2>1. Len(plain) \in 1..Len(plain)
    BY <1>1
  <2>2. i + (Len(plain) - 1) <= len
    BY <2>1, <1>12
  <2> QED  BY <2>2, <1>1
<1>14. TaggedSize(plainRead, crc.payloadSize) = len
  <2>1. PICK size : size = crc.payloadSize
    OBVIOUS
  <2>2. ~ForeignTag(plainRead, f)
    BY <1>4
  <2>3. TaggedSize(plainRead, size) = IF i = 1 THEN frames[f].len ELSE size
    BY <1>1, <1>5, <2>2, SizeOfByte
  <2> QED  BY <2>1, <2>3, <1>8, <1>9, <1>11
<1>15. Written = plainRead + 1 + (len - i)
  <2>1. Written = Ends[f]
    BY <1>9, <1>10 DEF Streams
  <2>2. Ends[f - 1] \in Nat
    BY <1>1, <1>6, EndsUnfold
  <2>3. PICK e \in Nat : e = Ends[f - 1]
    BY <2>2
  <2>4. Written = e + len /\ plainRead + 1 = e + i
    BY <2>1, <2>3, <1>6, <1>11
  <2> QED  BY <2>4, <1>1
<1>16. \A q \in 1..Len(plain) : plain[q][1] = accepted /\ plain[q][2] = i + (q - 1)
  BY <1>8, <1>12
<1> QED  BY <1>5, <1>6, <1>8, <1>9, <1>10, <1>11, <1>13, <1>14, <1>15, <1>16

LEMMA CRC16WorkStep ==
  ASSUME TailInv, CRC16Work
  PROVE  TailInv'
<1> USE DEF TailInv
<1> DEFINE start == [crc |-> [crc EXCEPT !.payloadSize = TaggedSize(plainRead, @)],
                     outs |-> crcOut]
           End(n) == IF start.crc.payloadSize = 0 THEN start ELSE CRCStates(start, plain, n)[n]
           noise == IF ForeignTag(plainRead, plain[1][1]) THEN {"CRC16"} ELSE {}
           P == Len(plain)
<1>1. PICK n \in 1..P :
        /\ crc' = End(n).crc /\ crcOut' = End(n).outs
        /\ plain' = SubSeq(plain, n + 1, P) /\ plainRead' = plainRead + n
  BY DEF CRC16Work
<1>2. /\ scenario' = scenario /\ frames' = frames /\ Ends' = Ends /\ scenario \in Scenarios
      /\ UNCHANGED <<accepted, receiving, tags, lfsrMsgs, crcMsgs, white, whiteRead, rnd, bytesOut>>
      /\ crcMsgs = <<>> /\ disturbed' = disturbed \union noise
  BY SamePlaces DEF CRC16Work, TailType
<1>3. /\ P \in Nat /\ n \in 1..P /\ n \in Nat /\ n >= 1 /\ n <= P
      /\ whiteRead \in Nat /\ plainRead \in Nat /\ whiteRead = plainRead + P
      /\ accepted \in Nat /\ plain \in Seq(PlainByte) /\ crc \in CrcState
      /\ crcOut \in Seq(Check)
  BY FramesTyped DEF TailType, Streams
<1>4. start \in CallState /\ start.outs = crcOut
      /\ start.crc.payloadSize = TaggedSize(plainRead, crc.payloadSize)
      /\ start.crc.byteCount = crc.byteCount /\ start.crc.xorOut = crc.xorOut
      /\ start.crc.covers = crc.covers
  <2>1. crc.payloadSize \in 0..255
    BY <1>3 DEF CrcState
  <2>2. TaggedSize(plainRead, crc.payloadSize) \in 0..255
    BY <2>1, TaggedSizeTyped
  <2> QED  BY <2>2, <1>3 DEF CrcState, CallState
<1> HIDE DEF start
<1>5. End(n) \in CallState /\ End(n).crc.xorOut = crc.xorOut
  <2>1. n \in 0..Len(plain)
    BY <1>3
  <2>2. /\ CRCStates(start, plain, n)[n] \in CallState
        /\ CRCStates(start, plain, n)[n].crc.xorOut = start.crc.xorOut
    BY <2>1, <1>3, <1>4, CRCKeeps
  <2> QED  BY <2>2, <1>4
<1>6. crc' \in CrcState /\ crcOut' \in Seq(Check) /\ crc'.xorOut = crc.xorOut
  BY <1>1, <1>5 DEF CallState
<1> HIDE DEF End
<1>7. /\ plain' \in Seq(PlainByte) /\ Len(plain') = P - n
      /\ \A k \in 1..(P - n) : plain'[k] = plain[n + k]
  <2>1. n \in 0..Len(plain)
    BY <1>3
  <2> QED  BY <2>1, <1>1, <1>3, DropFirst
<1>8. /\ SentUpTo' = SentUpTo /\ Written' = Written /\ Handled' = Handled
      /\ \A f, i, k : At(f, i, k)' <=> At(f, i, k)
  BY <1>2 DEF SentUpTo, Written, Handled, At
<1>9. ASSUME NEW k \in 1..(P - n) PROVE n + k \in 1..P
  BY <1>3
<1>10. At(plain[1][1], plain[1][2], plainRead + 1)
  <2>1. 1 \in 1..P /\ plainRead + 1 \in 1..whiteRead
    BY <1>3
  <2>2. plain[1] = bytesOut[plainRead + 1]
    BY <2>1 DEF Streams
  <2> QED  BY <2>1, <2>2 DEF Streams
<1>11. TailType'
  <2>1. disturbed' \subseteq {"randomize", "CRC16"}
    BY <1>2 DEF TailType
  <2>2. plainRead' \in Nat
    BY <1>1, <1>3
  <2> QED  BY <2>1, <2>2, <1>2, <1>6, <1>7 DEF TailType
<1>12. Streams'
  <2>1. whiteRead' = plainRead' + Len(plain')
    BY <1>1, <1>2, <1>3, <1>7
  <2>2. ASSUME NEW k \in 1..(P - n)
        PROVE  plain'[k] = bytesOut'[plainRead' + k]
    <3>1. plain'[k] = plain[n + k] /\ n + k \in 1..P
      BY <1>7, <1>9
    <3>2. plain[n + k] = bytesOut[plainRead + (n + k)]
      BY <3>1 DEF Streams
    <3>3. plainRead + (n + k) = plainRead' + k
      BY <1>1, <1>3
    <3> QED  BY <3>1, <3>2, <3>3, <1>2
  <2> QED  BY <2>1, <2>2, <1>2, <1>7, <1>8 DEF Streams
<1>13. Messages'
  <2>1. \A port : Waits(port, accepted)' <=> Waits(port, accepted)
    BY <1>2 DEF Waits
  <2> QED  BY <2>1, <1>2, <1>6, <1>8 DEF Messages
<1>14. RandomizeInPlace'
  <2>1. "randomize" \notin disturbed' => "randomize" \notin disturbed
    BY <1>2
  <2> QED  BY <2>1, <1>2, <1>8 DEF RandomizeInPlace
<1> DEFINE Here(i) ==
             /\ i >= 1
             /\ At(accepted, i, plainRead + 1) /\ SentUpTo = accepted /\ ~receiving
             /\ \A q \in 1..P : plain[q][1] = accepted /\ plain[q][2] = i + (q - 1)
             /\ (i - 1) + P <= frames[accepted].len
             /\ crc.byteCount = i - 1
             /\ TaggedSize(plainRead, crc.payloadSize) = frames[accepted].len
             /\ Written = plainRead + 1 + (frames[accepted].len - i)
<1>15. ASSUME "CRC16" \notin disturbed'
       PROVE  "CRC16" \notin disturbed /\ \E i \in Nat : Here(i)
  <2>1. "CRC16" \notin disturbed /\ ~ForeignTag(plainRead, plain[1][1])
    BY <1>2, <1>15
  <2>2. Len(plain) >= 1
    BY <1>3
  <2>3. crcMsgs = <<>>
    BY <1>2
  <2> QED  BY <2>1, <2>2, <2>3, CRC16Begins
(* The end of the call, for the length of the frame and the byte it began at. *)
<1> DEFINE Ended(i, len) ==
             /\ Counting(CRCStates(start, plain, n), start, n, i - 1, len)
             /\ End(n) = CRCStates(start, plain, n)[n]
<1>16. ASSUME NEW i \in Nat, Here(i), NEW len \in 0..255, len = frames[accepted].len
       PROVE  /\ Ended(i, len) /\ (i - 1) + n <= len /\ i - 1 \in Nat /\ len \in 1..255
              /\ start.crc.payloadSize = len /\ start.crc.byteCount = i - 1
  <2>1. (i - 1) + n <= len /\ i - 1 \in Nat /\ len \in 1..255
    BY <1>3, <1>16
  <2>2. start.crc.payloadSize = len /\ start.crc.byteCount = i - 1
    BY <1>4, <1>16
  <2>3. PICK c \in Nat : c = i - 1
    BY <2>1
  <2>4. n \in 0..Len(plain) /\ plain \in Seq(PlainByte) /\ start \in CallState
    BY <1>3, <1>4
  <2>5. Counting(CRCStates(start, plain, n), start, n, c, len)
    <3>1. start.crc.byteCount = c /\ c + n <= len
      BY <2>1, <2>2, <2>3
    <3> QED  BY <3>1, <2>1, <2>2, <2>4, CRCCounts
  <2>6. End(n) = CRCStates(start, plain, n)[n]
    BY <2>1, <2>2 DEF End
  <2> QED  BY <2>1, <2>2, <2>3, <2>5, <2>6
<1>17. ASSUME NEW i \in Nat, Here(i), NEW len \in 0..255, len = frames[accepted].len
       PROVE  /\ crc'.payloadSize = len
              /\ (i - 1) + n < len => crc'.byteCount = (i - 1) + n /\ crcOut' = crcOut
              /\ (i - 1) + n = len => crc'.byteCount = 0 /\ crc'.covers = <<>>
  <2>1. Ended(i, len)
    BY <1>16, <1>17
  <2>2. n \in 0..n /\ n > 0
    BY <1>3
  <2> HIDE DEF Here
  <2> QED  BY <2>1, <2>2, <1>1, <1>4 DEF Counting
(* The byte that comes next is the one after those that were read.         *)
<1> DEFINE Ahead(i, len) ==
             \A g, h \in Nat : At(g, h, plainRead + n + 1) =>
               g = accepted /\ (i - 1) + n < len /\ h - 1 = (i - 1) + n
<1>18. ASSUME NEW i \in Nat, Here(i), NEW len \in 0..255, len = frames[accepted].len
       PROVE  Ahead(i, len)
  <2> SUFFICES ASSUME NEW g \in Nat, NEW h \in Nat, At(g, h, plainRead + n + 1)
               PROVE  g = accepted /\ (i - 1) + n < len /\ h - 1 = (i - 1) + n
    OBVIOUS
  <2>1. plainRead + 1 \in Nat /\ plainRead + n + 1 \in Nat
        /\ plainRead + 1 <= plainRead + n + 1 /\ (plainRead + n + 1) - (plainRead + 1) = n
    BY <1>3
  <2>2. accepted <= g /\ (accepted = g => h = i + n)
    <3>1. At(accepted, i, plainRead + 1)
      BY <1>18
    <3> QED  BY <3>1, <2>1, PlacesOrdered
  <2>3. g <= SentUpTo /\ h <= frames[g].len
    BY PlaceTyped
  <2>4. g = accepted /\ h = i + n /\ h <= len
    BY <1>3, <1>18, <2>2, <2>3
  <2> QED  BY <2>4, <1>3
<1>19. CRC16InPlace'
  <2> SUFFICES ASSUME "CRC16" \notin disturbed'
               PROVE  CRC16InPlace'
    BY DEF CRC16InPlace
  <2>1. PICK i \in Nat : Here(i)
    BY <1>15
  <2>2. PICK len \in 0..255 : len = frames[accepted].len
    <3>1. At(accepted, i, plainRead + 1)
      BY <2>1
    <3> QED  BY <3>1, PlaceTyped
  <2>3. ASSUME NEW k \in 1..(P - n) PROVE plain'[k][1] = accepted
    <3>1. \A q \in 1..P : plain[q][1] = accepted
      BY <2>1
    <3> QED  BY <3>1, <1>7, <1>9
  <2>4. \A k \in 1..Len(white) : white[k][1] = accepted
    <3>1. accepted > 0 /\ ~Waits("setPayloadSize", accepted)
      <4>1. At(accepted, i, plainRead + 1)
        BY <2>1
      <4>2. accepted > 0
        BY <4>1, <1>3, PlaceTyped
      <4>3. Len(crcMsgs) = 0
        BY <1>2
      <4> QED  BY <4>2, <4>3 DEF Waits
    <3> QED  BY <3>1, <1>15 DEF CRC16InPlace
  <2>5. crc'.payloadSize = len
    BY <2>1, <2>2, <1>17
  <2>6. ASSUME NEW g \in Nat, NEW h \in Nat, At(g, h, plainRead + n + 1)
        PROVE  /\ crc'.byteCount = h - 1
               /\ crc'.payloadSize = frames[g].len
    <3>1. g = accepted /\ (i - 1) + n < len /\ h - 1 = (i - 1) + n
      <4>1. Ahead(i, len)
        <5> HIDE DEF Here, Ahead
        <5> QED  BY <2>1, <2>2, <1>18, Zenon
      <4> QED  BY <2>6, <4>1
    <3>2. crc'.byteCount = (i - 1) + n
      BY <2>1, <2>2, <3>1, <1>17
    <3> QED  BY <2>2, <2>5, <3>1, <3>2
  <2>7. plainRead + n = Written => crc'.byteCount = 0
    <3>1. ASSUME plainRead + n = Written PROVE (i - 1) + n = len
      <4>1. Written = plainRead + 1 + (len - i)
        BY <2>1, <2>2
      <4> QED  BY <4>1, <3>1, <1>3
    <3> QED  BY <2>1, <2>2, <3>1, <1>17
  <2>8. /\ plainRead' = plainRead + n /\ plainRead' + 1 = plainRead + n + 1
        /\ crcMsgs' = <<>> /\ Len(crcMsgs') = 0
    BY <1>1, <1>2, <1>3
  <2> HIDE DEF Here
  <2> QED  BY <2>2, <2>3, <2>4, <2>5, <2>6, <2>7, <2>8, <1>2, <1>7, <1>8 DEF CRC16InPlace
<1>20. Covering'
  <2> SUFFICES ASSUME disturbed' = {}
               PROVE  Covering'
    BY DEF Covering
  <2>1. disturbed = {} /\ "CRC16" \notin disturbed'
    BY <1>2
  <2>2. PICK i \in Nat : Here(i)
    BY <2>1, <1>15
  <2>3. PICK len \in 0..255 : len = frames[accepted].len
    <3>1. At(accepted, i, plainRead + 1)
      BY <2>2
    <3> QED  BY <3>1, PlaceTyped
  <2>4. /\ Ended(i, len) /\ (i - 1) + n <= len /\ i - 1 \in Nat /\ len \in 1..255
        /\ start.crc.payloadSize = len /\ start.crc.byteCount = i - 1
    <3> HIDE DEF Here, Ended
    <3> QED  BY <2>2, <2>3, <1>16, ZenonT(30)
  <2>5. start.crc.covers = DueUpTo(accepted, i - 1)
    <3>1. At(accepted, i, plainRead + 1)
      BY <2>2
    <3> QED  BY <2>1, <3>1, <1>3, <1>4 DEF Covering
  <2>6. ASSUME NEW q \in 1..n
        PROVE  plain[q] = <<accepted, (i - 1) + q, (i - 1) + q>>
    <3>1. q \in 1..P /\ plainRead + q \in 1..whiteRead /\ i + (q - 1) = (i - 1) + q
      BY <1>3
    <3>2. plain[q][1] = accepted /\ plain[q][2] = i + (q - 1)
      BY <2>2, <3>1
    <3>3. plain[q] = bytesOut[plainRead + q]
      BY <3>1 DEF Streams
    <3>4. plain[q][3] = plain[q][2]
      BY <2>1, <3>1, <3>3 DEF RandomizeInPlace
    <3>5. plain[q] \in PlainByte
      BY <3>1, <1>3
    <3> QED  BY <3>1, <3>2, <3>4, <3>5 DEF PlainByte
  <2> DEFINE state == CRCStates(start, plain, n)
  <2>7. /\ (i - 1) + n < len => state[n].crc.covers = DueUpTo(accepted, (i - 1) + n)
        /\ (i - 1) + n = len =>
             state[n].outs = Append(start.outs, [covers |-> DueUpTo(accepted, len),
                                                 xorOut |-> start.crc.xorOut])
    <3>1. PICK c \in Nat : c = i - 1
      BY <2>4
    <3>2. start \in CallState /\ plain \in Seq(PlainByte) /\ n \in 0..Len(plain) /\ accepted \in Nat
      BY <1>3, <1>4
    <3>3. /\ start.crc.payloadSize = len /\ start.crc.byteCount = c /\ c + n <= len
          /\ start.crc.covers = DueUpTo(accepted, c) /\ len \in 1..255
      BY <2>4, <2>5, <3>1
    <3>4. \A q \in 1..n : plain[q] = <<accepted, c + q, c + q>>
      BY <2>6, <3>1
    <3>5. CRCCovering(state, start, n, c, len, accepted)
      BY <3>2, <3>3, <3>4, CRCCovers
    <3>6. n \in 0..n /\ n > 0
      BY <1>3
    <3> HIDE DEF state
    <3> QED  BY <3>1, <3>5, <3>6 DEF CRCCovering
  <2>8. crc' = state[n].crc /\ crcOut' = state[n].outs
    BY <2>4, <1>1
  <2>9. ASSUME NEW g \in Nat, NEW h \in Nat, At(g, h, plainRead + n + 1)
        PROVE  crc'.covers = DueUpTo(g, h - 1)
    <3>1. g = accepted /\ (i - 1) + n < len /\ h - 1 = (i - 1) + n
      <4>1. Ahead(i, len)
        <5> HIDE DEF Here, Ahead
        <5> QED  BY <2>2, <2>3, <1>18, Zenon
      <4> QED  BY <2>9, <4>1
    <3> QED  BY <2>7, <2>8, <3>1
  <2>10. plainRead + n = Written => crc'.covers = <<>>
    <3>1. ASSUME plainRead + n = Written PROVE (i - 1) + n = len
      <4>1. Written = plainRead + 1 + (len - i)
        BY <2>2, <2>3
      <4> QED  BY <4>1, <3>1, <1>3
    <3> QED  BY <2>2, <2>3, <3>1, <1>17
  <2> DEFINE Whole(check) == \E f \in 1..accepted :
               /\ frames[f].len > 0
               /\ check.covers = DueUpTo(f, frames[f].len)
               /\ frames[f].crc => check.xorOut = f
             check == [covers |-> DueUpTo(accepted, len), xorOut |-> crc.xorOut]
  <2>11. \A k \in 1..Len(crcOut) : Whole(crcOut[k])
    BY <2>1 DEF Covering
  <2>12. Whole(check)
    <3>1. /\ ~receiving
          /\ accepted \in 1..accepted /\ accepted > 0
      <4>1. At(accepted, i, plainRead + 1) /\ ~receiving
        BY <2>2
      <4>2. accepted > 0
        BY <4>1, <1>3, PlaceTyped
      <4> QED  BY <4>1, <4>2, <1>3
    <3>2. Len(crcMsgs) = 0
      BY <1>2
    <3>3. frames[accepted].crc => crc.xorOut = accepted
      BY <3>1, <3>2 DEF Messages, Waits
    <3>4. check.covers = DueUpTo(accepted, frames[accepted].len) /\ frames[accepted].len > 0
          /\ check.xorOut = crc.xorOut
      BY <2>3, <2>4
    <3> HIDE DEF check
    <3> QED  BY <3>1, <3>3, <3>4
  <2>13. \A k \in 1..Len(crcOut') : Whole(crcOut'[k])
    <3>1. CASE (i - 1) + n < len
      <4>1. crcOut' = crcOut
        BY <2>2, <2>3, <3>1, <1>17
      <4> HIDE DEF Whole
      <4> QED  BY <2>11, <4>1
    <3>2. CASE (i - 1) + n = len
      <4>1. crcOut' = Append(crcOut, check)
        BY <2>7, <2>8, <3>2, <1>4
      <4>2. check \in Check
        <5>1. DueUpTo(accepted, len) \in Seq(PlainByte)
          <6>1. len \in Nat /\ accepted \in Nat
            BY <2>4, <1>3
          <6> QED  BY <6>1, DueNext
        <5> QED  BY <5>1, <1>3 DEF Check, CrcState
      <4> HIDE DEF Whole, check
      <4>3. /\ Len(crcOut') = Len(crcOut) + 1 /\ Len(crcOut) \in Nat
            /\ \A k \in 1..Len(crcOut) : crcOut'[k] = crcOut[k]
            /\ crcOut'[Len(crcOut) + 1] = check
        <5>1. crcOut \in Seq(Check)
          BY <1>3
        <5> QED  BY <5>1, <4>1, <4>2, AppendAt
      <4>4. \A k \in 1..Len(crcOut') : k = Len(crcOut) + 1 \/ k \in 1..Len(crcOut)
        BY <4>3
      <4> QED  BY <2>11, <2>12, <4>3, <4>4
    <3> HIDE DEF Whole
    <3> QED  BY <2>4, <3>1, <3>2, <1>3
  <2>14. plainRead' = plainRead + n /\ plainRead' + 1 = plainRead + n + 1
    BY <1>1, <1>3
  <2>15. /\ \A g, h \in Nat : At(g, h, plainRead + 1)' => crc'.covers = DueUpTo(g, h - 1)
         /\ plainRead' = Written' => crc'.covers = <<>>
    BY <2>9, <2>10, <2>14, <1>8
  <2>16. \A k \in 1..Len(crcOut') : \E f \in 1..accepted' :
           /\ frames'[f].len > 0
           /\ crcOut'[k].covers = DueUpTo(f, frames'[f].len)
           /\ frames'[f].crc => crcOut'[k].xorOut = f
    BY <2>13, <1>2
  <2> QED  BY <2>15, <2>16 DEF Covering, DueUpTo
<1>21. OneFrame'
  <2>1. ASSUME scenario.spaced, NEW k \in 1..(P - n) PROVE plain'[k][1] = accepted
    <3>1. \A q \in 1..P : plain[q][1] = accepted
      BY <2>1 DEF OneFrame
    <3> QED  BY <3>1, <1>7, <1>9
  <2> QED  BY <2>1, <1>2, <1>7 DEF OneFrame
<1>22. SpacedDisturbance'
  <2>1. CASE ForeignTag(plainRead, plain[1][1])
    <3>1. \E a, b \in DOMAIN tags :
            /\ a < b /\ tags[a].at = tags[b].at
            /\ frames[tags[a].frame].cut \/ frames[tags[a].frame].len = 0
      BY <2>1, <1>3, <1>10, ForeignTagExplained
    <3> QED  BY <3>1, <1>2 DEF SpacedDisturbance
  <2>2. CASE ~ForeignTag(plainRead, plain[1][1])
    <3>1. disturbed' = disturbed
      BY <2>2, <1>2
    <3> QED  BY <3>1, <1>2 DEF SpacedDisturbance
  <2> QED  BY <2>1, <2>2
<1> QED  BY <1>11, <1>12, <1>13, <1>14, <1>19, <1>20, <1>21, <1>22
-----------------------------------------------------------------------------
LEMMA StutterTail ==
  ASSUME TailInv, UNCHANGED vars
  PROVE  TailInv'
<1>1. UNCHANGED <<scenario, accepted, receiving, tags, lfsrMsgs, crcMsgs, white, whiteRead,
                  plain, plainRead, rnd, crc, bytesOut, crcOut, disturbed>>
  BY DEF vars, tailVars
<1>2. frames' = frames /\ Ends' = Ends
  BY <1>1, SamePlaces
<1>3. /\ Len(frames)' = Len(frames) /\ SentUpTo' = SentUpTo /\ Written' = Written
      /\ Handled' = Handled
      /\ \A f, i, k : At(f, i, k)' <=> At(f, i, k)
      /\ \A port, f : Waits(port, f)' <=> Waits(port, f)
  BY <1>1, <1>2 DEF SentUpTo, Written, Handled, At, Waits
<1>4. Waits("setPayloadSize", accepted)' <=> Waits("setPayloadSize", accepted)
  BY <1>1 DEF Waits
<1>5. Waits("setXorOut", accepted)' <=> Waits("setXorOut", accepted)
  BY <1>1 DEF Waits
<1>6. TailType'
  BY <1>1, <1>2 DEF TailInv, TailType
<1>7. Streams'
  BY <1>1, <1>2, <1>3 DEF TailInv, Streams
<1>8. Messages'
  BY <1>1, <1>2, <1>3, <1>4, <1>5 DEF TailInv, Messages
<1>9. RandomizeInPlace'
  BY <1>1, <1>2, <1>3 DEF TailInv, RandomizeInPlace
<1>10. CRC16InPlace'
  BY <1>1, <1>2, <1>3, <1>4 DEF TailInv, CRC16InPlace
<1>11. Covering' /\ OneFrame' /\ SpacedDisturbance'
  BY <1>1, <1>2, <1>3 DEF TailInv, Covering, OneFrame, SpacedDisturbance
<1> QED  BY <1>6, <1>7, <1>8, <1>9, <1>10, <1>11 DEF TailInv

(* The invariant, by the step lemmas.                                      *)
LEMMA TailCorrect == Spec => []TailInv
<1>1. Init => TailInv
  BY InitTail
<1>2. TailInv /\ [Next]_vars => TailInv'
  BY AcceptHeaderStep, SendPayloadStep, HandleLfsrStep, RandomizeWorkStep,
     HandleCrcMsgStep, CRC16WorkStep, StutterTail
     DEF Next, Controller, Randomize, CRC16
<1> QED  BY <1>1, <1>2, PTL DEF Spec
-----------------------------------------------------------------------------
(* TypeOK: the byte counters of randomize (randomize_impl.cc:110) and of   *)
(* CRC16 (CRC16_impl.cc:135), compared for equality only, never pass the   *)
(* size of the frame unless a message or a tag of another came between.    *)
THEOREM TailTyped == Spec => []TypeOK
<1>1. ASSUME TailInv PROVE TypeOK
  <2> USE DEF TailInv
  <2>1. /\ accepted \in 0..Len(frames) /\ Len(frames) \in Nat /\ scenario \in Scenarios
        /\ receiving \in BOOLEAN /\ SentUpTo \in 0..Len(frames)
        /\ rnd \in RndState /\ crc \in CrcState
        /\ whiteRead \in Nat /\ Len(white) \in Nat /\ plainRead \in Nat /\ Len(plain) \in Nat
        /\ whiteRead = plainRead + Len(plain) /\ Written = whiteRead + Len(white)
    BY <1>1, FramesTyped, SentRange DEF TailType, Streams, Written
  <2>2. ASSUME NEW i \in DOMAIN tags
        PROVE  tags[i].at \in 0..Written /\ tags[i].frame \in 1..accepted
    <3>1. i \in 1..accepted /\ tags[i].at = Ends[i - 1] /\ tags[i].frame = i
      BY <1>1 DEF TailType, Streams
    <3>2. i - 1 <= SentUpTo /\ i - 1 \in 0..Len(frames)
      BY <2>1, <3>1 DEF SentUpTo
    <3>3. Ends[i - 1] <= Ends[SentUpTo]
      BY <2>1, <3>2, EndsMonotone
    <3>4. Ends[i - 1] \in Nat /\ Ends[SentUpTo] \in Nat
      BY <2>1, <3>2, EndsUnfold
    <3>5. Written = Ends[SentUpTo]
      BY <1>1 DEF Streams
    <3> QED  BY <3>1, <3>3, <3>4, <3>5
  <2>3. ASSUME "randomize" \notin disturbed
        PROVE  rnd.byteCount \in 0..rnd.payloadSize
    <3>1. PICK size \in 0..255 : size = rnd.payloadSize
      BY <2>1 DEF RndState
    <3>2. CASE white = <<>>
      <4>1. rnd.byteCount = 0
        BY <1>1, <2>3, <3>2 DEF RandomizeInPlace
      <4> QED  BY <3>1, <4>1
    <3>3. CASE white # <<>>
      <4>1. white \in Seq(Byte) /\ 1 \in 1..Len(white)
        BY <1>1, <3>3 DEF TailType
      <4>2. PICK f \in Nat, i \in Nat : white[1] = <<f, i>>
        <5>1. white[1] \in Byte
          BY <4>1
        <5> QED  BY <5>1 DEF Byte
      <4>3. At(f, i, whiteRead + 1)
        BY <1>1, <4>1, <4>2 DEF Streams
      <4>4. rnd.byteCount = i - 1 /\ (i > 1 => rnd.payloadSize = frames[f].len)
        BY <1>1, <2>3, <4>3 DEF RandomizeInPlace
      <4>5. i >= 1 /\ i <= frames[f].len
        BY <1>1, <4>3, PlaceTyped
      <4>6. i = 1 \/ i > 1
        BY <4>5
      <4> QED  BY <3>1, <4>4, <4>5, <4>6
    <3> QED  BY <3>2, <3>3
  <2>4. ASSUME "CRC16" \notin disturbed
        PROVE  crc.byteCount \in 0..crc.payloadSize
    <3>1. PICK size \in 0..255 : size = crc.payloadSize
      BY <2>1 DEF CrcState
    <3>2. CASE plainRead = Written
      <4>1. crc.byteCount = 0
        BY <1>1, <2>4, <3>2 DEF CRC16InPlace
      <4> QED  BY <3>1, <4>1
    <3>3. CASE plainRead # Written
      <4>1. PICK f \in Nat, i \in Nat : At(f, i, plainRead + 1)
        <5>1. CASE Len(plain) > 0
          <6>1. plainRead + 1 \in 1..whiteRead
            BY <2>1, <5>1
          <6>2. At(bytesOut[plainRead + 1][1], bytesOut[plainRead + 1][2], plainRead + 1)
            BY <1>1, <6>1 DEF Streams
          <6>3. plainRead + 1 \in Nat
            BY <2>1
          <6> QED  BY <1>1, <6>2, <6>3, PlaceWritten
        <5>2. CASE Len(plain) = 0
          <6>1. 1 \in 1..Len(white) /\ whiteRead = plainRead
            BY <2>1, <3>3, <5>2
          <6>2. At(white[1][1], white[1][2], plainRead + 1)
            BY <1>1, <6>1 DEF Streams
          <6>3. plainRead + 1 \in Nat
            BY <2>1
          <6> QED  BY <1>1, <6>2, <6>3, PlaceWritten
        <5> QED  BY <2>1, <5>1, <5>2
      <4>2. crc.byteCount = i - 1 /\ (i > 1 => crc.payloadSize = frames[f].len)
        BY <1>1, <2>4, <4>1 DEF CRC16InPlace
      <4>3. i >= 1 /\ i <= frames[f].len
        BY <1>1, <4>1, PlaceTyped
      <4>4. i = 1 \/ i > 1
        BY <4>3
      <4> QED  BY <3>1, <4>2, <4>3, <4>4
    <3> QED  BY <3>2, <3>3
  <2>5. /\ rnd.lfsr \in Nat /\ rnd.payloadSize \in 0..255 /\ crc.payloadSize \in 0..255
        /\ crc.xorOut \in 0..accepted /\ disturbed \subseteq {"randomize", "CRC16"}
    BY <1>1, <2>1 DEF RndState, CrcState, Messages, TailType
  <2> QED  BY <2>1, <2>2, <2>3, <2>4, <2>5 DEF TypeOK
<1> QED  BY <1>1, TailCorrect, PTL

(* Dewhitened: randomize (randomize_impl.cc:110) writes every byte once in *)
(* the order of the frames, none of a frame that was given up, and takes   *)
(* off the whitening of its own place unless something disturbed it.       *)
THEOREM BytesDewhitened == Spec => []Dewhitened
<1>1. ASSUME TailInv PROVE Dewhitened
  <2> SUFFICES ASSUME NEW k \in DOMAIN bytesOut
               PROVE  LET b == bytesOut[k]
                      IN  /\ b[1] \in 1..accepted /\ ~frames[b[1]].cut
                          /\ b[2] \in 1..frames[b[1]].len
                          /\ k = Ends[b[1] - 1] + b[2]
                          /\ "randomize" \notin disturbed => b[3] = b[2]
    BY DEF Dewhitened
  <2>1. k \in 1..whiteRead
    BY <1>1 DEF TailInv, TailType, Streams
  <2>2. At(bytesOut[k][1], bytesOut[k][2], k)
    BY <1>1, <2>1 DEF TailInv, Streams
  <2>3. SentUpTo <= accepted /\ SentUpTo \in Nat /\ accepted \in Nat
    BY <1>1, SentRange DEF TailInv, TailType
  <2>4. "randomize" \notin disturbed => bytesOut[k][3] = bytesOut[k][2]
    BY <1>1, <2>1 DEF TailInv, RandomizeInPlace
  <2> QED  BY <2>2, <2>3, <2>4 DEF At
<1> QED  BY <1>1, TailCorrect, PTL

(* CrcOfOneFrame: what CRC16 (CRC16_impl.cc:135) publishes covers exactly  *)
(* one payload, and was combined with the CRC received with that payload,  *)
(* although size, CRC and bytes come over three channels.                  *)
THEOREM CrcCoversOneFrame == Spec => []CrcOfOneFrame
<1>1. ASSUME TailInv PROVE CrcOfOneFrame
  <2> SUFFICES ASSUME disturbed = {}, NEW k \in DOMAIN crcOut
               PROVE  LET f == crcOut[k].covers[1][1]
                      IN  /\ crcOut[k].covers = Due(f)
                          /\ frames[f].crc => crcOut[k].xorOut = f
    BY DEF CrcOfOneFrame
  <2>1. k \in 1..Len(crcOut)
    BY <1>1 DEF TailInv, TailType
  <2>2. PICK f \in 1..accepted :
          /\ frames[f].len > 0
          /\ crcOut[k].covers = DueUpTo(f, frames[f].len)
          /\ frames[f].crc => crcOut[k].xorOut = f
    BY <1>1, <2>1 DEF TailInv, Covering
  <2>3. f \in 1..Len(frames) /\ scenario \in Scenarios
    BY <1>1, FramesTyped DEF TailInv, TailType
  <2>4. PICK len \in 0..255 : len = frames[f].len
    BY <2>3, FramesTyped
  <2>5. 1 \in 1..len
    BY <2>2, <2>4
  <2>6. DueUpTo(f, len)[1] = <<f, 1, 1>>
    BY <2>5 DEF DueUpTo
  <2>7. crcOut[k].covers[1][1] = f
    BY <2>2, <2>4, <2>6
  <2>8. Due(f) = DueUpTo(f, frames[f].len)
    BY DEF Due, DueUpTo
  <2> QED  BY <2>2, <2>7, <2>8
<1> QED  BY <1>1, TailCorrect, PTL

(* SpacedDisturbance: when a pause separates the frames, only the tag that *)
(* a frame cut off or empty leaves behind (receiverController_impl.cc:190) *)
(* can make randomize or CRC16 take the size of another frame.             *)
THEOREM PauseExplained == Spec => []SpacedDisturbance
<1>1. TailInv => SpacedDisturbance
  BY DEF TailInv
<1> QED  BY <1>1, TailCorrect, PTL

(* With a pause between the frames, none of them cut off or empty, nothing *)
(* ever disturbs the tail, so that every byte is dewhitened in its place.  *)
THEOREM PauseSuffices ==
  Spec => [](/\ scenario.spaced
             /\ \A f \in 1..Len(frames) : ~frames[f].cut /\ frames[f].len > 0
             => /\ disturbed = {}
                /\ \A k \in DOMAIN bytesOut : bytesOut[k][3] = bytesOut[k][2])
<1> DEFINE Good == /\ scenario.spaced
                   /\ \A f \in 1..Len(frames) : ~frames[f].cut /\ frames[f].len > 0
           Clean == /\ disturbed = {}
                    /\ \A k \in DOMAIN bytesOut : bytesOut[k][3] = bytesOut[k][2]
<1>1. ASSUME TailInv, Good PROVE Clean
  <2>1. disturbed = {}
    <3> SUFFICES ASSUME disturbed # {} PROVE FALSE
      OBVIOUS
    <3>1. PICK i \in DOMAIN tags : frames[tags[i].frame].cut \/ frames[tags[i].frame].len = 0
      BY <1>1 DEF TailInv, SpacedDisturbance
    <3>2. i \in 1..accepted /\ tags[i].frame = i
      BY <1>1 DEF TailInv, TailType, Streams
    <3>3. i \in 1..Len(frames)
      BY <1>1, <3>2, FramesTyped DEF TailInv, TailType
    <3> QED  BY <1>1, <3>1, <3>2, <3>3
  <2>2. DOMAIN bytesOut = 1..whiteRead
    BY <1>1 DEF TailInv, TailType, Streams
  <2> QED  BY <1>1, <2>1, <2>2 DEF TailInv, RandomizeInPlace
<1>2. TailInv => (Good => Clean)
  BY <1>1
<1> HIDE DEF Good, Clean
<1>3. Spec => [](Good => Clean)
  BY <1>2, TailCorrect, PTL
<1> QED  BY <1>3 DEF Good, Clean
=============================================================================
