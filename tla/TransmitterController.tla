------------------------ MODULE TransmitterController ------------------------
(***************************************************************************)
(* The block gr::LibreLoRa::TransmitterController in an arbitrary          *)
(* environment: it cuts the nibble stream into frames and writes, in one   *)
(* call, the header block and, in a second call when the frame does not    *)
(* fit that block, the payload blocks.  A frame's size and parameters come *)
(* as stream tags on its first nibble or, the size, as a message.          *)
(*                                                                         *)
(* Of the nibbles only their number matters here.  `fault' records that a  *)
(* call left defined behaviour: "underrun" when it read and consumed more  *)
(* nibbles than forecast() had asked for and there were, "wrap" when the   *)
(* size_t expression 2*payloadSize - (SF - 7) wrapped around and became    *)
(* the length of a memcpy.  Nothing is modelled past a fault.              *)
(*                                                                         *)
(* A size is any natural number: only that of a tag is checked, while the  *)
(* header has 8 bits for it.  Sizes are taken to be small enough for 2 * n *)
(* not to overflow a size_t.                                               *)
(***************************************************************************)
EXTENDS TransmitterSizes

CONSTANTS Params,        \* frame parameters, configured or sent in a tag
          Sizes,         \* values of payloadSize tags, and the configured one
          MessageSizes,  \* values of setPayloadSize messages
          Crcs,          \* CRC values
          Occupancies    \* how many nibbles may wait at the input

ASSUME ParamsAssumption == Params \subseteq Parameters
ASSUME SizesAssumption == Sizes \subseteq Nat /\ MessageSizes \subseteq Nat
ASSUME OccupanciesAssumption == Occupancies \subseteq Nat

VARIABLES
  params,         \* SF, CR, CRCPresent, lowDataRate
  payloadSize, crc, nNibbles, nNibblesTotal, currentState,
  headerNibbles,  \* what the header block will announce
  nibblesIn,      \* number of nibbles in the input buffer
  fault,
  frame           \* history: what was written since the last header began

tcVars == <<params, payloadSize, crc, nNibbles, nNibblesTotal, currentState,
            headerNibbles, fault, frame>>
vars == <<tcVars, nibblesIn>>

(* A stream tag that may be missing: <<>> or <<value>>.                    *)
Optional(S) == {<<>>} \cup {<<x>> : x \in S}

(* A header announces size, CRC and CR; the frame is written under the     *)
(* parameters p.  payload counts nibbles taken from the input, written all *)
(* those after the five header nibbles, crcs the CRC values put in; `done' *)
(* is the loraEndOfFrame tag, `tagged' says that the size came with the    *)
(* frame, `resized' that a setPayloadSize message was handled since the    *)
(* header.                                                                 *)
FrameRecord ==
  [p : Parameters, len : 0..255, payload : Nat, written : Nat,
   crcs : Optional(Crcs), done : BOOLEAN, tagged : BOOLEAN, resized : BOOLEAN]

(* calculateHeader(): two nibbles, (n >> 4) & 15 and n & 15, for the size. *)
HeaderOf(p, n) ==
  [len |-> 16 * ((n \div 16) % 16) + (n % 16), crc |-> p.crc, CR |-> p.CR]

ValidSizeUnchecked(s) == s   \* mutant: the tag's size is not checked

(* A payloadSize tag above 255 stands for 1.                               *)
ValidSize(s) == IF s <= 255 THEN s ELSE 1

CalculateConstantsNoHeader(p, n) ==   \* mutant: calculateHeader() is not called
  /\ nNibbles' = NNibbles(p, n)
  /\ nNibblesTotal' = NNibblesTotal(p, n)
  /\ UNCHANGED headerNibbles

(* calculateConstants(), which ends with calculateHeader().                *)
CalculateConstants(p, n) ==
  /\ nNibbles' = NNibbles(p, n)
  /\ nNibblesTotal' = NNibblesTotal(p, n)
  /\ headerNibbles' = HeaderOf(p, n)

Init ==
  /\ params \in Params
  /\ payloadSize \in Sizes
  /\ crc \in Crcs
  /\ nNibbles = NNibbles(params, payloadSize)
  /\ nNibblesTotal = NNibblesTotal(params, payloadSize)
  /\ currentState = "sendingHeader"
  /\ headerNibbles = HeaderOf(params, payloadSize)
  /\ nibblesIn = 0
  /\ fault = "none"
  /\ frame = [p |-> params, len |-> 0, payload |-> 0, written |-> 0,
              crcs |-> <<>>, done |-> FALSE, tagged |-> FALSE, resized |-> FALSE]

(* Handler of "setPayloadSize", in any state.                              *)
SetPayloadSize(n) ==
  /\ fault = "none"
  /\ payloadSize' = n
  /\ CalculateConstants(params, n)
  /\ frame' = [frame EXCEPT !.resized = TRUE]
  /\ UNCHANGED <<params, crc, currentState, nibblesIn, fault>>

(* Handler of "setCRC", in any state.                                      *)
SetCrc(c) ==
  /\ fault = "none"
  /\ crc' = c
  /\ UNCHANGED <<params, payloadSize, nNibbles, nNibblesTotal, currentState,
                 headerNibbles, nibblesIn, fault, frame>>

(* The call consumes n nibbles of those there are.                         *)
Consume(n) ==
  /\ nibblesIn' = IF n <= nibblesIn THEN nibblesIn - n ELSE 0
  /\ fault' = IF n <= nibblesIn THEN "none" ELSE "underrun"

(* general_work in sendingHeader.  forecast() ran with the size and the    *)
(* parameters of the frame before; the tags are read in the call.          *)
SendHeader(sizeTag, paramTag) ==
  LET p    == IF paramTag = <<>> THEN params ELSE paramTag[1]
      n    == IF sizeTag = <<>> THEN payloadSize ELSE ValidSize(sizeTag[1])
      fits == NNibbles(p, n) <= HeaderRoom(p)
      used == IF fits THEN 2 * n ELSE HeaderRoom(p)
  IN  /\ fault = "none" /\ currentState = "sendingHeader"
      /\ nibblesIn >= HeaderForecast(params, payloadSize)
      /\ nibblesIn = 0 => sizeTag = <<>> /\ paramTag = <<>>
      /\ params' = p /\ payloadSize' = n
      /\ CalculateConstants(p, n)
      /\ Consume(used)
      /\ currentState' = IF fits THEN "sendingHeader" ELSE "sendingPayload"
      /\ frame' = [p |-> p, len |-> headerNibbles'.len, payload |-> used,
                   written |-> IF fits THEN NNibblesTotal(p, n) ELSE used,
                   crcs |-> IF fits /\ p.crc THEN <<crc>> ELSE <<>>,
                   done |-> fits, tagged |-> sizeTag # <<>>, resized |-> FALSE]
      /\ UNCHANGED crc

(* general_work in sendingPayload.                                         *)
PayloadWraps == 2 * payloadSize < HeaderRoom(params)

SendPayload ==
  LET rest == 2 * payloadSize - HeaderRoom(params)
  IN  /\ fault = "none" /\ currentState = "sendingPayload"
      /\ ~PayloadWraps
      /\ nibblesIn >= rest
      /\ nibblesIn' = nibblesIn - rest
      /\ currentState' = "sendingHeader"
      /\ frame' = [frame EXCEPT !.payload = @ + rest,
                                !.written = @ + nNibblesTotal - HeaderRoom(params),
                                !.crcs = IF params.crc THEN <<crc>> ELSE <<>>,
                                !.done = TRUE]
      /\ UNCHANGED <<params, payloadSize, crc, nNibbles, nNibblesTotal,
                     headerNibbles, fault>>

(* The same call when the difference wraps: forecast() asks for a negative *)
(* number of items, so it is made at once.                                 *)
SendPayloadWrapped ==
  /\ fault = "none" /\ currentState = "sendingPayload"
  /\ PayloadWraps
  /\ fault' = "wrap"
  /\ UNCHANGED <<params, payloadSize, crc, nNibbles, nNibblesTotal, currentState,
                 headerNibbles, nibblesIn, frame>>

(* BytesToNibbles delivers both nibbles of some bytes; then n wait.        *)
Arrive(n) ==
  /\ fault = "none"
  /\ nibblesIn < n /\ (n - nibblesIn) % 2 = 0
  /\ nibblesIn' = n
  /\ UNCHANGED tcVars

Next ==
  \/ \E n \in MessageSizes : SetPayloadSize(n)
  \/ \E c \in Crcs : SetCrc(c)
  \/ \E s \in Optional(Sizes), p \in Optional(Params) : SendHeader(s, p)
  \/ SendPayload
  \/ SendPayloadWrapped
  \/ \E n \in Occupancies : Arrive(n)

Spec == Init /\ [][Next]_vars
-----------------------------------------------------------------------------
(* Every variable keeps to its type; the sizes and the header computed in  *)
(* advance are those of the current parameters and payload size.           *)
TypeOK ==
  /\ params \in Params
  /\ payloadSize \in Nat
  /\ crc \in Crcs
  /\ nNibbles = NNibbles(params, payloadSize)
  /\ nNibblesTotal = NNibblesTotal(params, payloadSize)
  /\ headerNibbles = HeaderOf(params, payloadSize)
  /\ currentState \in {"sendingHeader", "sendingPayload"}
  /\ nibblesIn \in Nat
  /\ fault \in {"none", "underrun", "wrap"}
  /\ frame \in FrameRecord

(* The payload fills the header block's room.                              *)
FillsHeader(p, n) == 2 * n >= HeaderRoom(p)

(* The only ways to a fault, whatever tags and messages do: a payload that *)
(* does not fill the header block, before or after the step, or a tag that *)
(* changes SF (forecast() knows the size and the SF of the frame before).  *)
FaultExplained ==
  [][fault' # "none" =>
       \/ ~FillsHeader(params, payloadSize)
       \/ ~FillsHeader(params', payloadSize')
       \/ params'.SF # params.SF]_vars

(* No call reads nibbles that are not there, and no length wraps around.   *)
(* It holds when none of these ways is open: SafeSizes.                    *)
NoFault == fault = "none"

SafeSizes ==
  \A p \in Params :
    /\ \A s \in Sizes \cup MessageSizes \cup {ValidSize(t) : t \in Sizes} : FillsHeader(p, s)
    /\ \A q \in Params : p.SF = q.SF

(* A frame that ends holds all of its payload, which its header announces  *)
(* modulo 256 bytes, and truly if the size came with the frame (by message *)
(* or construction it may be above 255); a CRC if and only if the header   *)
(* announces one; and whole code blocks after the header block.  The       *)
(* exception is a setPayloadSize message between the two calls.            *)
WholeFrame ==
  frame.done /\ ~frame.resized =>
    /\ frame.payload % (2 * 256) = 2 * frame.len
    /\ frame.tagged => frame.payload = 2 * frame.len
    /\ frame.crcs = <<>> <=> ~frame.p.crc
    /\ frame.written >= HeaderRoom(frame.p)
    /\ (frame.written - HeaderRoom(frame.p)) % PayloadRows(frame.p) = 0
=============================================================================
