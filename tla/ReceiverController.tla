------------------------- MODULE ReceiverController -------------------------
(***************************************************************************)
(* The block gr::LibreLoRa::receiverController (lib/receiverController_    *)
(* impl.{h,cc}) in an arbitrary environment.                               *)
(*                                                                         *)
(* The controller reads decoded nibbles.  A "sync" message makes it read a *)
(* header; a valid header makes it wait for the payload and ask the        *)
(* synchroniser for just as many more symbols as that payload takes; a     *)
(* payload or a bad header makes it stop and reset the synchroniser.       *)
(* Messages it publishes are kept in `out' until its next handler or work  *)
(* call, so that a composed module can forward them.  Of the input only    *)
(* the number of nibbles matters here; what a header says is an input.     *)
(***************************************************************************)
EXTENDS Naturals, Sequences

CONSTANTS SF,           \* spreading factor the receiver is built for
          LowDataRate,  \* low data rate mode: payload blocks have SF - 2 rows
          Headers,      \* the header contents the environment may present
          Occupancies   \* how many nibbles may wait at the input

(* A header as readHeader() sees it: the explicit LoRa header fields, CR   *)
(* being three bits of the third nibble, and whether the checksum matches. *)
HeaderRecord == [len : 0..255, crc : BOOLEAN, CR : 0..7, checksumOK : BOOLEAN]

(* A header block holds the five header nibbles: SF - 2 >= 5, and then the *)
(* size_t expression SF - 7 does not wrap around.                          *)
ASSUME SFAssumption == SF \in Nat /\ SF >= 7
ASSUME DataRateAssumption == LowDataRate \in BOOLEAN
ASSUME HeadersAssumption == Headers \subseteq HeaderRecord
ASSUME OccupanciesAssumption == Occupancies \subseteq Nat

VARIABLES
  currentState,           \* waitingForSync, readingHeader or sendingPayload
  SFcurrent,              \* SF last published on setSFout
  CR,                     \* CR last published on setCRout
  payloadCRCPresent,      \* header field
  payloadNibblesToRead,   \* 2*payloadLength of the frame being received
  extraNibblesToConsume,  \* padding after payload and CRC
  nibblesIn,              \* number of nibbles in the input buffer
  requested,              \* value of the last synchronizerSetN message
  out                     \* messages published by the last handler or call

rcVars == <<currentState, SFcurrent, CR, payloadCRCPresent,
            payloadNibblesToRead, extraNibblesToConsume, requested, out>>
vars == <<rcVars, nibblesIn>>

-----------------------------------------------------------------------------
(* Sizes.                                                                  *)

SFHeader == SF - 2
SFPayloadAsHeader == SF - 2   \* mutant: the payload read like the header

SFPayload == IF LowDataRate THEN SF - 2 ELSE SF

(* The header block has SFHeader nibbles: 5 of header and these.           *)
HeaderBlockRest == SF - 7

HeaderSymbols == 8

CRCNibbles(present) == IF present THEN 4 ELSE 0

NibblesToRead(h) == 2 * h.len + CRCNibbles(h.crc)

Accepted(h) == h.checksumOK /\ h.CR # 0 /\ h.CR <= 4

(* What is missing from n nibbles to whole blocks of S.                    *)
Padding(n, S) == (S - (n % S)) % S

ExtraNibblesFullRows(h, previous) ==   \* mutant: forgets the data rate
  IF NibblesToRead(h) > HeaderBlockRest
  THEN Padding(NibblesToRead(h) - HeaderBlockRest, SF)
  ELSE previous

(* extraNibblesToConsume is only assigned when the frame does not fit the  *)
(* header block: otherwise it keeps the value the previous frame left.     *)
ExtraNibbles(h, previous) ==
  IF NibblesToRead(h) > HeaderBlockRest
  THEN Padding(NibblesToRead(h) - HeaderBlockRest, SFPayload)
  ELSE previous

PayloadSymbolsUnpadded(h, extra) ==    \* mutant: asks for the nibbles alone
  ((NibblesToRead(h) - HeaderBlockRest) * (h.CR + 4)) \div SFPayload

PayloadSymbolsOneMore(h, extra) ==     \* mutant: rounds up what is whole already
  ((extra + NibblesToRead(h) - HeaderBlockRest) * (h.CR + 4)) \div SFPayload + 1

(* The argument of synchronizerSetN, published when it is positive.        *)
PayloadSymbols(h, extra) ==
  ((extra + NibblesToRead(h) - HeaderBlockRest) * (h.CR + 4)) \div SFPayload

(* What forecast() asks for and what the payload branch consumes.          *)
PayloadNeed ==
  payloadNibblesToRead + extraNibblesToConsume + CRCNibbles(payloadCRCPresent)

-----------------------------------------------------------------------------
(* Messages published by one handler or work call.  `frame' stands for the *)
(* messages lfsrStateOut and payloadLength and the two stream tags that go *)
(* out together when a header is accepted, `crc' for the received CRC.     *)
NoMessages == [setSF |-> <<>>, setCR |-> <<>>, setN |-> <<>>,
               frame |-> FALSE, crc |-> FALSE, reset |-> FALSE]

MessageRecord == [setSF : Seq(Nat), setCR : Seq(Nat), setN : Seq(Nat),
                  frame : BOOLEAN, crc : BOOLEAN, reset : BOOLEAN]

Init ==
  /\ currentState = "waitingForSync"
  /\ SFcurrent = SF
  /\ CR \in 0..7                    \* not initialised by the constructor
  /\ payloadCRCPresent \in BOOLEAN  \* likewise
  /\ payloadNibblesToRead = 0
  /\ extraNibblesToConsume = 0
  /\ nibblesIn = 0
  /\ requested = 0
  /\ out = NoMessages

StartRxNoRequest ==   \* mutant: the handler without synchronizerSetN
  /\ currentState' = "readingHeader"
  /\ SFcurrent' = SFHeader
  /\ CR' = 4
  /\ out' = [NoMessages EXCEPT !.setSF = <<SFHeader>>, !.setCR = <<4>>]
  /\ UNCHANGED <<payloadCRCPresent, payloadNibblesToRead,
                 extraNibblesToConsume, nibblesIn, requested>>

(* The handler of the message port "sync", in any state.                   *)
StartRx ==
  /\ currentState' = "readingHeader"
  /\ SFcurrent' = SFHeader
  /\ CR' = 4
  /\ requested' = HeaderSymbols
  /\ out' = [NoMessages EXCEPT !.setSF = <<SFHeader>>, !.setCR = <<4>>,
                               !.setN = <<HeaderSymbols>>]
  /\ UNCHANGED <<payloadCRCPresent, payloadNibblesToRead,
                 extraNibblesToConsume, nibblesIn>>

(* general_work while waiting: drop one nibble.                            *)
DropNibble ==
  /\ currentState = "waitingForSync"
  /\ nibblesIn >= 1
  /\ nibblesIn' = nibblesIn - 1
  /\ out' = NoMessages
  /\ UNCHANGED <<currentState, SFcurrent, CR, payloadCRCPresent,
                 payloadNibblesToRead, extraNibblesToConsume, requested>>

(* general_work while reading a header, stopRx() branch.                   *)
RejectHeader(h) ==
  /\ currentState = "readingHeader"
  /\ nibblesIn >= SFcurrent
  /\ ~Accepted(h)
  /\ nibblesIn' = nibblesIn - 5
  /\ CR' = h.CR
  /\ payloadCRCPresent' = h.crc
  /\ currentState' = "waitingForSync"
  /\ SFcurrent' = SFHeader
  /\ out' = [NoMessages EXCEPT !.setCR = <<h.CR>>, !.setSF = <<SFHeader>>,
                               !.reset = TRUE]
  /\ UNCHANGED <<payloadNibblesToRead, extraNibblesToConsume, requested>>

(* general_work while reading a header, the valid branch.                  *)
AcceptHeader(h) ==
  LET extra == ExtraNibbles(h, extraNibblesToConsume)
      asks  == NibblesToRead(h) + extra > HeaderBlockRest
      n     == PayloadSymbols(h, extra)
  IN  /\ currentState = "readingHeader"
      /\ nibblesIn >= SFcurrent
      /\ Accepted(h)
      /\ nibblesIn' = nibblesIn - 5
      /\ CR' = h.CR
      /\ payloadCRCPresent' = h.crc
      /\ payloadNibblesToRead' = 2 * h.len
      /\ extraNibblesToConsume' = extra
      /\ SFcurrent' = SFPayload
      /\ currentState' = "sendingPayload"
      /\ requested' = IF asks THEN n ELSE requested
      /\ out' = [NoMessages EXCEPT !.setCR = <<h.CR>>, !.setSF = <<SFPayload>>,
                                   !.setN = IF asks THEN <<n>> ELSE <<>>,
                                   !.frame = TRUE]

SendPayloadTooEarly ==   \* mutant: forecast() forgets the padding
  /\ currentState = "sendingPayload"
  /\ nibblesIn >= PayloadNeed - extraNibblesToConsume
  /\ nibblesIn' = nibblesIn - PayloadNeed
  /\ currentState' = "waitingForSync"
  /\ SFcurrent' = SFHeader
  /\ out' = [NoMessages EXCEPT !.crc = payloadCRCPresent,
                               !.setSF = <<SFHeader>>, !.reset = TRUE]
  /\ UNCHANGED <<CR, payloadCRCPresent, payloadNibblesToRead,
                 extraNibblesToConsume, requested>>

(* general_work while sending the payload.                                 *)
SendPayload ==
  /\ currentState = "sendingPayload"
  /\ nibblesIn >= PayloadNeed
  /\ nibblesIn' = nibblesIn - PayloadNeed
  /\ currentState' = "waitingForSync"
  /\ SFcurrent' = SFHeader
  /\ out' = [NoMessages EXCEPT !.crc = payloadCRCPresent,
                               !.setSF = <<SFHeader>>, !.reset = TRUE]
  /\ UNCHANGED <<CR, payloadCRCPresent, payloadNibblesToRead,
                 extraNibblesToConsume, requested>>

(* The decoder delivers a block of nibbles.                                *)
Arrive(n) ==
  /\ nibblesIn + n \in Occupancies
  /\ nibblesIn' = nibblesIn + n
  /\ UNCHANGED rcVars

Next ==
  \/ StartRx
  \/ DropNibble
  \/ \E h \in Headers : RejectHeader(h) \/ AcceptHeader(h)
  \/ SendPayload
  \/ \E n \in 1..SF : Arrive(n)

Spec == Init /\ [][Next]_vars

-----------------------------------------------------------------------------
(* Every variable keeps to its type, extraNibblesToConsume to the length   *)
(* of a code block; in particular a work call never consumes more nibbles  *)
(* than forecast() made sure of, which would make nibblesIn negative.      *)
TypeOK ==
  /\ currentState \in {"waitingForSync", "readingHeader", "sendingPayload"}
  /\ SFcurrent \in {SF, SF - 2}
  /\ CR \in 0..7
  /\ payloadCRCPresent \in BOOLEAN
  /\ payloadNibblesToRead \in 0..510
  /\ extraNibblesToConsume \in 0..(SF - 1)
  /\ nibblesIn \in Nat
  /\ requested \in Nat
  /\ out \in MessageRecord

(* The demodulation chain is configured for what the controller is about   *)
(* to read: a header with SF - 2 rows and CR 4, a payload with the rows of *)
(* the data rate and a CR the decoder has a matrix for.                    *)
ChainConfigured ==
  /\ currentState = "readingHeader" => SFcurrent = SFHeader /\ CR = 4
  /\ currentState = "sendingPayload" => SFcurrent = SFPayload /\ CR \in 1..4

(* A frame that does not fit the header block asks the synchroniser for    *)
(* whole code blocks, and these and the rest of the header block hold      *)
(* exactly the nibbles the payload branch waits for and consumes: neither  *)
(* does the controller starve nor does it leave nibbles for a later frame. *)
LongFrame == payloadNibblesToRead + CRCNibbles(payloadCRCPresent) > HeaderBlockRest

RequestIsExact ==
  currentState = "sendingPayload" /\ LongFrame =>
    /\ requested % (CR + 4) = 0
    /\ (requested \div (CR + 4)) * SFcurrent + HeaderBlockRest = PayloadNeed

(* extraNibblesToConsume is computed from the nibblesToRead of the frame   *)
(* being received, be it to fill blocks of SF nibbles, as the two comments *)
(* above its assignment have it, or the blocks behind the header block.    *)
(* The code keeps the previous frame's padding when a frame fits the       *)
(* header block.                                                           *)
PaddingOfThisFrame ==
  currentState = "sendingPayload" =>
    LET n == payloadNibblesToRead + CRCNibbles(payloadCRCPresent)
    IN  extraNibblesToConsume \in
          {Padding(n, SF),
           IF n > HeaderBlockRest THEN Padding(n - HeaderBlockRest, SFPayload) ELSE 0}
=============================================================================
