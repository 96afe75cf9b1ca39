---------------------------- MODULE ReceiverTail ----------------------------
(***************************************************************************)
(* What LoRaRx does with a payload behind receiverController: randomize    *)
(* takes the whitening off, CRC16 checks it.  The bytes come as a stream   *)
(* through NibblesToBytes, with a payloadSize tag on the first; the LFSR   *)
(* state, the size and the received CRC come as messages of their own.     *)
(* A frame is a number, byte i of frame f <<f, i>>; randomize appends the  *)
(* place in the whitening sequence it used.                                *)
(***************************************************************************)
EXTENDS Integers, Sequences, FiniteSets, SequencesExt

CONSTANTS
  Scenarios   \* records [spaced, frames], frames a sequence of [len, crc, cut]

Frame == [len : 0..255, crc : BOOLEAN, cut : BOOLEAN]

ASSUME ScenariosAssumption ==
  \A s \in Scenarios : s.spaced \in BOOLEAN /\ s.frames \in Seq(Frame)

VARIABLES
  scenario,
  accepted, receiving,   \* headers accepted; is the last one's payload still to come?
  tags,                  \* payloadSize tags: [at, frame], in the order they were added
  lfsrMsgs,              \* in front of randomize's port setLfsrState
  crcMsgs,               \* in front of CRC16's two ports: [port, frame]
  white, whiteRead,      \* bytes in front of randomize, number read so far
  rnd,                   \* randomize: [lfsr, payloadSize, byteCount]
  plain, plainRead,      \* bytes in front of CRC16, number read so far
  crc,                   \* CRC16: [covers, xorOut, payloadSize, byteCount]
  bytesOut,              \* history: what randomize wrote
  crcOut,                \* history: what CRC16 published: [covers, xorOut]
  disturbed              \* history: blocks that met a message or a tag of another frame

tailVars == <<rnd, crc, bytesOut, crcOut, disturbed>>
vars == <<scenario, accepted, receiving, tags, lfsrMsgs, crcMsgs, white, whiteRead,
          plain, plainRead, tailVars>>
-----------------------------------------------------------------------------
frames == scenario.frames
BytesOf(f) == [i \in 1..frames[f].len |-> <<f, i>>]
Written == whiteRead + Len(white)

Off == 0                        \* the LFSR in state 0, which it never leaves
Shifted(lfsr) == IF lfsr = Off THEN Off ELSE lfsr + 1

Init ==
  /\ scenario \in Scenarios
  /\ accepted = 0 /\ receiving = FALSE
  /\ tags = <<>> /\ lfsrMsgs = <<>> /\ crcMsgs = <<>>
  /\ white = <<>> /\ whiteRead = 0
  /\ rnd = [lfsr |-> Off, payloadSize |-> 0, byteCount |-> 0]
  /\ plain = <<>> /\ plainRead = 0
  /\ crc = [covers |-> <<>>, xorOut |-> 0, payloadSize |-> 0, byteCount |-> 0]
  /\ bytesOut = <<>> /\ crcOut = <<>>
  /\ disturbed = {}
-----------------------------------------------------------------------------
Idle == white = <<>> /\ plain = <<>> /\ lfsrMsgs = <<>> /\ crcMsgs = <<>>

(* mutant: the tag is put one item too far                                 *)
TagAtSecond == Written + 1

(* The tag goes on the item that is written next, whichever frame's it is. *)
TagAt == Written

(* receiverController accepts a header.  It may have given up the payload  *)
(* of the one before, when a sync message came in its place.               *)
AcceptHeader ==
  /\ accepted < Len(frames)
  /\ receiving => frames[accepted].cut
  /\ scenario.spaced => Idle
  /\ accepted' = accepted + 1
  /\ receiving' = TRUE
  /\ tags' = Append(tags, [at |-> TagAt, frame |-> accepted + 1])
  /\ lfsrMsgs' = Append(lfsrMsgs, accepted + 1)
  /\ crcMsgs' = Append(crcMsgs, [port |-> "setPayloadSize", frame |-> accepted + 1])
  /\ UNCHANGED <<scenario, white, whiteRead, plain, plainRead, tailVars>>

(* receiverController sends a payload: first the message, then the         *)
(* nibbles, which NibblesToBytes joins in pairs.                           *)
SendPayload ==
  /\ receiving /\ ~frames[accepted].cut
  /\ receiving' = FALSE
  /\ crcMsgs' = IF frames[accepted].crc
                THEN Append(crcMsgs, [port |-> "setXorOut", frame |-> accepted])
                ELSE crcMsgs
  /\ white' = white \o BytesOf(accepted)
  /\ UNCHANGED <<scenario, accepted, tags, lfsrMsgs, whiteRead, plain, plainRead, tailVars>>
-----------------------------------------------------------------------------
(* The tag a block finds at the first item of a call: of several the first *)
(* that was added; 0 when there is none.                                   *)
TagOn(item) == SelectInSeq(tags, LAMBDA t : t.at = item)

TaggedSize(item, size) ==
  IF TagOn(item) = 0 THEN size ELSE frames[tags[TagOn(item)].frame].len

ForeignTag(item, f) == TagOn(item) # 0 /\ tags[TagOn(item)].frame # f

HandleLfsr ==
  /\ lfsrMsgs # <<>>
  /\ rnd' = [rnd EXCEPT !.lfsr = 1]
  /\ lfsrMsgs' = Tail(lfsrMsgs)
  /\ disturbed' = disturbed \union (IF white # <<>> /\ white[1][1] < lfsrMsgs[1]
                                    THEN {"randomize"} ELSE {})
  /\ UNCHANGED <<scenario, accepted, receiving, tags, crcMsgs, white, whiteRead,
                 plain, plainRead, crc, bytesOut, crcOut>>

(* mutant: the counter goes on after the end of a frame                    *)
RandomizeByteCountingOn(r) ==
  [r EXCEPT !.lfsr = IF r.byteCount + 1 = r.payloadSize THEN Off ELSE Shifted(@),
            !.byteCount = @ + 1]

(* mutant: the LFSR does not move on                                       *)
RandomizeByteStill(r) == [r EXCEPT !.byteCount = @ + 1]

(* The constructor's initial state is 0: at the end of a frame the LFSR    *)
(* is switched off until the next message.                                 *)
RandomizeByte(r) ==
  LET end == r.byteCount + 1 = r.payloadSize
  IN  [r EXCEPT !.lfsr = IF end THEN Off ELSE Shifted(@),
                !.byteCount = IF end THEN 0 ELSE @ + 1]

(* The state after each of the n bytes of a call.                          *)
RandomizeStates(start, n) ==
  LET state[i \in 0..n] == IF i = 0 THEN start ELSE RandomizeByte(state[i - 1])
  IN  state

RandomizeWork ==
  /\ lfsrMsgs = <<>>
  /\ \E n \in 1..Len(white) :
       LET state == RandomizeStates([rnd EXCEPT !.payloadSize = TaggedSize(whiteRead, @)], n)
           wrote == [i \in 1..n |-> <<white[i][1], white[i][2], state[i - 1].lfsr>>]
       IN  /\ rnd' = state[n]
           /\ plain' = plain \o wrote
           /\ bytesOut' = bytesOut \o wrote
           /\ white' = SubSeq(white, n + 1, Len(white))
           /\ whiteRead' = whiteRead + n
  /\ disturbed' = disturbed \union (IF ForeignTag(whiteRead, white[1][1])
                                    THEN {"randomize"} ELSE {})
  /\ UNCHANGED <<scenario, accepted, receiving, tags, lfsrMsgs, crcMsgs, plainRead, crc, crcOut>>
-----------------------------------------------------------------------------
(* Each port has a queue of its own; any may be served first.              *)
HandleCrcMsg ==
  \E i \in DOMAIN crcMsgs :
    LET m == crcMsgs[i]
    IN  /\ \A j \in 1..(i - 1) : crcMsgs[j].port # m.port
        /\ crc' = IF m.port = "setXorOut" THEN [crc EXCEPT !.xorOut = m.frame]
                  ELSE [crc EXCEPT !.payloadSize = frames[m.frame].len]
        /\ crcMsgs' = RemoveAt(crcMsgs, i)
        /\ disturbed' = disturbed \union
             (IF \E b \in Range(white) \union Range(plain) : b[1] < m.frame
              THEN {"CRC16"} ELSE {})
        /\ UNCHANGED <<scenario, accepted, receiving, tags, lfsrMsgs, white, whiteRead,
                       plain, plainRead, rnd, bytesOut, crcOut>>

(* mutant: the CRC is not reset after it was published                     *)
CRCByteKeepingCrc(s, b) ==
  LET covers == Append(s.crc.covers, b)
      end    == s.crc.byteCount + 1 = s.crc.payloadSize
  IN  [crc  |-> [s.crc EXCEPT !.covers = covers,
                              !.byteCount = IF end THEN 0 ELSE @ + 1],
       outs |-> IF end THEN Append(s.outs, [covers |-> covers, xorOut |-> s.crc.xorOut])
                ELSE s.outs]

(* One byte goes into the CRC; after payloadSize bytes it is published.    *)
CRCByte(s, b) ==
  LET covers == Append(s.crc.covers, b)
      end    == s.crc.byteCount + 1 = s.crc.payloadSize
  IN  [crc  |-> [s.crc EXCEPT !.covers = IF end THEN <<>> ELSE covers,
                              !.byteCount = IF end THEN 0 ELSE @ + 1],
       outs |-> IF end THEN Append(s.outs, [covers |-> covers, xorOut |-> s.crc.xorOut])
                ELSE s.outs]

(* The state after each of the n bytes of a call.                          *)
CRCStates(start, bytes, n) ==
  LET state[i \in 0..n] == IF i = 0 THEN start ELSE CRCByte(state[i - 1], bytes[i])
  IN  state

(* With payloadSize 0 the bytes are thrown away.                           *)
CRC16Work ==
  /\ crcMsgs = <<>>
  /\ \E n \in 1..Len(plain) :
       LET start == [crc |-> [crc EXCEPT !.payloadSize = TaggedSize(plainRead, @)],
                     outs |-> crcOut]
           end   == IF start.crc.payloadSize = 0 THEN start ELSE CRCStates(start, plain, n)[n]
       IN  /\ crc' = end.crc
           /\ crcOut' = end.outs
           /\ plain' = SubSeq(plain, n + 1, Len(plain))
           /\ plainRead' = plainRead + n
  /\ disturbed' = disturbed \union (IF ForeignTag(plainRead, plain[1][1])
                                    THEN {"CRC16"} ELSE {})
  /\ UNCHANGED <<scenario, accepted, receiving, tags, lfsrMsgs, crcMsgs, white, whiteRead,
                 rnd, bytesOut>>
-----------------------------------------------------------------------------
Controller == AcceptHeader \/ SendPayload
Randomize == HandleLfsr \/ RandomizeWork
CRC16 == HandleCrcMsg \/ CRC16Work
Next == Controller \/ Randomize \/ CRC16

Spec == Init /\ [][Next]_vars

(* A thread for each block.                                                *)
FairSpec == Spec /\ WF_vars(Controller) /\ WF_vars(Randomize) /\ WF_vars(CRC16)
-----------------------------------------------------------------------------
(* How many bytes the first f frames have in the stream.                   *)
Ends ==
  LET upTo[f \in 0..Len(frames)] ==
        IF f = 0 THEN 0
        ELSE upTo[f - 1] + (IF frames[f].cut THEN 0 ELSE frames[f].len)
  IN  upTo

Due(f) == [i \in 1..frames[f].len |-> <<f, i, i>>]

(* The counters never pass the size they are compared with while nothing   *)
(* has disturbed the block: they are compared for equality only.           *)
TypeOK ==
  /\ accepted \in 0..Len(frames) /\ receiving \in BOOLEAN
  /\ \A i \in DOMAIN tags : tags[i].at \in 0..Written /\ tags[i].frame \in 1..accepted
  /\ rnd.lfsr \in Nat /\ rnd.payloadSize \in 0..255
  /\ "randomize" \notin disturbed => rnd.byteCount \in 0..rnd.payloadSize
  /\ crc.payloadSize \in 0..255 /\ crc.xorOut \in 0..accepted
  /\ "CRC16" \notin disturbed => crc.byteCount \in 0..crc.payloadSize
  /\ disturbed \subseteq {"randomize", "CRC16"}

(* Every byte goes out in its place, and dewhitened with its own place in  *)
(* the sequence unless randomize got the LFSR message of a later frame     *)
(* before it, or read a tag that a frame without bytes had left behind.    *)
Dewhitened ==
  \A k \in DOMAIN bytesOut :
    LET b == bytesOut[k]
    IN  /\ b[1] \in 1..accepted /\ ~frames[b[1]].cut /\ b[2] \in 1..frames[b[1]].len
        /\ k = Ends[b[1] - 1] + b[2]
        /\ "randomize" \notin disturbed => b[3] = b[2]

(* What CRC16 publishes covers one whole dewhitened payload and is checked *)
(* against the CRC of that frame, unless one of the blocks got a message   *)
(* of a later frame early or read a tag that is not this frame's.          *)
CrcOfOneFrame ==
  disturbed = {} =>
    \A k \in DOMAIN crcOut :
      LET f == crcOut[k].covers[1][1]
      IN  /\ crcOut[k].covers = Due(f)
          /\ frames[f].crc => crcOut[k].xorOut = f

(* With a pause between the frames and no frame that is cut off or empty   *)
(* nothing disturbs the tail, and a CRC is published for every frame.      *)
EveryFrameChecked ==
  <>(scenario.spaced /\ (\A f \in DOMAIN frames : ~frames[f].cut /\ frames[f].len > 0) =>
       /\ disturbed = {}
       /\ [k \in DOMAIN crcOut |-> crcOut[k].covers] = [f \in DOMAIN frames |-> Due(f)])

(* With a pause between the frames, the tail is disturbed only by the tag  *)
(* that a frame cut off or empty leaves on the first byte of a later one.  *)
SpacedDisturbance ==
  scenario.spaced /\ disturbed # {} =>
    \E i, j \in DOMAIN tags :
      /\ i < j /\ tags[i].at = tags[j].at
      /\ frames[tags[i].frame].cut \/ frames[tags[i].frame].len = 0
=============================================================================
