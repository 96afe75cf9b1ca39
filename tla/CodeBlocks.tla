----------------------------- MODULE CodeBlocks -----------------------------
(***************************************************************************)
(* The stream of code blocks from TransmitterController through Interleave *)
(* over an ideal air to deinterleave, with the output buffers the two      *)
(* blocks write to.  Interleave learns SF and CR from loraParams tags in   *)
(* the stream, deinterleave from messages; both make several blocks in a   *)
(* call if there is input and space, and both clear only the first of them.*)
(* Row r of block b of frame f is <<f, b, r>>, its symbol k <<f, b, k>>; b *)
(* is 0 for the header block.  A slot of a buffer holds the set of what    *)
(* has been ored into it.                                                  *)
(***************************************************************************)
EXTENDS CodeSize, Integers, Sequences, FiniteSets, FiniteSetsExt

CONSTANTS
  Scenarios,    \* records [ldr, paced, frames], frames a sequence of [CR, blocks]
  SymbolSlots,  \* size of Interleave's output buffer
  NibbleSlots   \* size of deinterleave's output buffer

ASSUME ScenariosAssumption ==
  \A s \in Scenarios :
    /\ {s.ldr, s.paced} \subseteq BOOLEAN
    /\ s.frames \in Seq([CR : 0..4, blocks : Nat]) \ {<<>>}
ASSUME SlotsAssumption == SymbolSlots \in Nat \ {0} /\ NibbleSlots \in Nat \ {0}

VARIABLES
  scenario,
  written,     \* blocks the controller has written: <<frame, 0 or 1>>, header or all
  in,          \* rows in front of Interleave
  tx,          \* Interleave: [SF, codeLength, changedParams]
  symbols,     \* its output buffer, slot |-> set of symbols
  made, taken, \* symbols written to and read from it since the start
  fresh,       \* history: blocks that were the first of their call
  air,         \* symbols in front of deinterleave
  rx,          \* deinterleave: [SF, codeLength]
  nibbles,     \* its output buffer, slot |-> set of symbols
  out,         \* nibbles written to it since the start
  lastCall,    \* out before the last call
  overrun      \* a call wrote over symbols not yet read; nothing is modelled after it

txVars == <<tx, symbols, made, fresh, overrun>>
rxVars == <<rx, nibbles, out, lastCall>>
streamVars == <<scenario, written, in, txVars, taken, air, rxVars>>
-----------------------------------------------------------------------------
frames == scenario.frames
SFPayload == IF scenario.ldr THEN SF - 2 ELSE SF
RowsOf(b) == IF b = 0 THEN SF - 2 ELSE SFPayload
CodeLength(f, b) == IF b = 0 THEN 8 ELSE frames[f].CR + 4
NBlocks(f) == frames[f].blocks

Units(f, b, n) == [i \in 1..n |-> <<f, b, i - 1>>]

(* What follows unit u of a block of n: the next unit of the block, the    *)
(* next block of the frame, or the next frame.                             *)
Follows(u, n) ==
  IF u[3] + 1 < n THEN <<u[1], u[2], u[3] + 1>>
  ELSE IF u[2] < NBlocks(u[1]) THEN <<u[1], u[2] + 1, 0>>
  ELSE <<u[1] + 1, 0, 0>>

Place == Nat \X Nat \X Nat
NextSymbol == [u \in Place |-> Follows(u, CodeLength(u[1], u[2]))]
NextRow == [u \in Place |-> Follows(u, RowsOf(u[2]))]

(* The symbol and the row that are due after p others.                     *)
SymbolDue[p \in Nat] == IF p = 0 THEN <<1, 0, 0>> ELSE NextSymbol[SymbolDue[p - 1]]
RowDue[p \in Nat] == IF p = 0 THEN <<1, 0, 0>> ELSE NextRow[RowDue[p - 1]]

AllDone == <<Len(frames) + 1, 0, 0>>

(* A loraParams tag stands on the first row of the header block and of the *)
(* first payload block, and the receiver sets SF and CR before the first   *)
(* symbol of either.                                                       *)
Tagged(u) == u[2] \in {0, 1} /\ u[3] = 0

Ceil(n, d) == (n + d - 1) \div d

StreamInit ==
  /\ scenario \in Scenarios
  /\ written = <<0, 1>>
  /\ in = <<>>
  /\ tx = [SF |-> SF, codeLength |-> frames[1].CR + 4, changedParams |-> FALSE]
  /\ symbols = [s \in 0..(SymbolSlots - 1) |-> {}]
  /\ made = 0 /\ taken = 0
  /\ fresh = {}
  /\ air = <<>>
  /\ rx = [SF |-> SF, codeLength |-> frames[1].CR + 4]
  /\ nibbles = [s \in 0..(NibbleSlots - 1) |-> {}]
  /\ out = 0 /\ lastCall = 0
  /\ overrun = FALSE
-----------------------------------------------------------------------------
(* The controller's two calls for a frame; a paced source waits until the  *)
(* frame before has been received.                                         *)
AllReceived == in = <<>> /\ air = <<>> /\ taken = made

WriteHeader ==
  LET f == written[1] + 1
  IN  /\ written[2] = 1 /\ f \in DOMAIN frames
      /\ scenario.paced => AllReceived
      /\ written' = <<f, IF NBlocks(f) = 0 THEN 1 ELSE 0>>
      /\ in' = in \o Units(f, 0, RowsOf(0))
      /\ UNCHANGED <<scenario, txVars, taken, air, rxVars>>

WritePayload ==
  LET f == written[1]
  IN  /\ written[2] = 0
      /\ written' = <<f, 1>>
      /\ in' = in \o [i \in 1..(NBlocks(f) * SFPayload) |->
                      <<f, 1 + (i - 1) \div SFPayload, (i - 1) % SFPayload>>]
      /\ UNCHANGED <<scenario, txVars, taken, air, rxVars>>
-----------------------------------------------------------------------------
Free == SymbolSlots - 1 - (made - taken)

(* The block interleaved from these rows, if they are one and SF and CR    *)
(* are its own; <<0, 0>> is anything else.                                 *)
BlockOf(rows) ==
  LET f == rows[1][1]
      b == rows[1][2]
  IN  IF rows = Units(f, b, RowsOf(b)) /\ tx.codeLength = CodeLength(f, b)
      THEN <<f, b>> ELSE <<0, 0>>

RowsAt(i) == SubSeq(in, i * tx.SF + 1, (i + 1) * tx.SF)

(* mutant: tags are looked for at the first block of a call only           *)
StopAtFirst(n) ==
  IF Tagged(in[1]) /\ ~tx.changedParams THEN 0 ELSE n

(* How many of n blocks the call makes: it stops at a tag, except at one   *)
(* on the first block whose parameters the call before has taken.          *)
StopAt(n) ==
  LET stops == {i \in 0..(n - 1) :
                  Tagged(in[i * tx.SF + 1]) /\ (i # 0 \/ ~tx.changedParams)}
  IN  IF stops = {} THEN n ELSE Min(stops)

(* mutant: the flag is never taken back                                    *)
ParamsAfterSticky(n) ==
  LET stop == StopAt(n)
      row  == in[stop * tx.SF + 1]
  IN  IF stop < n
      THEN [SF |-> RowsOf(row[2]), codeLength |-> CodeLength(row[1], row[2]),
            changedParams |-> TRUE]
      ELSE tx

(* SF and CR of the tag the call stopped at are those of the next call.    *)
ParamsAfter(n) ==
  LET stop == StopAt(n)
      row  == in[stop * tx.SF + 1]
  IN  IF stop < n
      THEN [SF |-> RowsOf(row[2]), codeLength |-> CodeLength(row[1], row[2]),
            changedParams |-> TRUE]
      ELSE [tx EXCEPT !.changedParams = FALSE]

(* mutant: no slot is cleared                                              *)
ClearedNone(old, i) == old

(* The first codeLength slots are cleared, the others are not.             *)
Cleared(old, i) == IF i < tx.codeLength THEN {} ELSE old

(* The buffer after a call that makes n blocks.                            *)
Fill(n) ==
  [s \in DOMAIN symbols |->
     LET i == (s - made) % SymbolSlots
         b == i \div tx.codeLength
     IN  IF i >= Max({n, 1}) * tx.codeLength THEN symbols[s]
         ELSE Cleared(symbols[s], i) \union
              (IF b < n THEN {BlockOf(RowsAt(b)) \o <<i % tx.codeLength>>} ELSE {})]

(* forecast rounds up to whole blocks, and so does the call, which writes  *)
(* whole blocks even if noutput_items ends inside one.                     *)
InterleaveWork ==
  \E noutput \in 1..Free :
    LET n    == Ceil(noutput, tx.codeLength)
        stop == StopAt(n)
    IN  /\ ~overrun
        /\ Len(in) >= n * tx.SF
        /\ symbols' = Fill(stop)
        /\ made' = made + stop * tx.codeLength
        /\ fresh' = fresh \union (IF stop > 0 THEN {BlockOf(RowsAt(0))} ELSE {})
        /\ overrun' = (Max({stop, 1}) * tx.codeLength > Free)
        /\ in' = SubSeq(in, stop * tx.SF + 1, Len(in))
        /\ tx' = ParamsAfter(n)
        /\ UNCHANGED <<scenario, written, taken, air, rxVars>>
-----------------------------------------------------------------------------
(* Modulation, air and demodulation: one symbol of the buffer.  As the     *)
(* receiver asks for just the symbols of a header or payload and then sets *)
(* SF and CR (ReceiverLoop), those of the next come when deinterleave has  *)
(* used up the ones before.                                                *)
Transfer ==
  /\ ~overrun /\ taken < made
  /\ LET due == SymbolDue[taken]
     IN  /\ Tagged(due) => air = <<>>
         /\ rx' = IF Tagged(due)
                  THEN [SF |-> RowsOf(due[2]), codeLength |-> CodeLength(due[1], due[2])]
                  ELSE rx
  /\ air' = Append(air, symbols[taken % SymbolSlots])
  /\ taken' = taken + 1
  /\ UNCHANGED <<scenario, written, in, txVars, nibbles, out, lastCall>>

(* mutant: the first block alone is made, all input is consumed            *)
DeinterleavedFirst(n) ==
  [s \in DOMAIN nibbles |->
     LET i == (s - out) % NibbleSlots
     IN  IF i >= rx.SF THEN nibbles[s]
         ELSE UNION {air[j] : j \in 1..rx.codeLength}]

(* The buffer after n blocks: every row of a block gets a bit of each of   *)
(* its symbols; the first SF slots are cleared, the others are not.        *)
Deinterleaved(n) ==
  [s \in DOMAIN nibbles |->
     LET i == (s - out) % NibbleSlots
         b == i \div rx.SF
     IN  IF i >= n * rx.SF THEN nibbles[s]
         ELSE (IF i < rx.SF THEN {} ELSE nibbles[s]) \union
              UNION {air[b * rx.codeLength + j] : j \in 1..rx.codeLength}]

(* decode keeps up: the whole buffer is free.                              *)
DeinterleaveWork ==
  \E noutput \in 1..(NibbleSlots - 1) :
    LET n == Ceil(noutput, rx.SF)
    IN  /\ n * rx.SF < NibbleSlots
        /\ Len(air) >= n * rx.codeLength
        /\ nibbles' = Deinterleaved(n)
        /\ out' = out + n * rx.SF
        /\ lastCall' = out
        /\ air' = SubSeq(air, n * rx.codeLength + 1, Len(air))
        /\ UNCHANGED <<scenario, written, in, txVars, taken, rx>>
-----------------------------------------------------------------------------
Source == WriteHeader \/ WritePayload
StreamNext == Source \/ InterleaveWork \/ Transfer \/ DeinterleaveWork

StreamSpec == StreamInit /\ [][StreamNext]_streamVars

(* Each block, and the chain between them, has a thread of its own.        *)
FairSpec ==
  StreamSpec /\ WF_streamVars(Source) /\ WF_streamVars(InterleaveWork)
       /\ WF_streamVars(Transfer) /\ WF_streamVars(DeinterleaveWork)
-----------------------------------------------------------------------------
Unread == IF overrun THEN {} ELSE taken..(made - 1)
Slot(p) == symbols[p % SymbolSlots]

(* A row of one of the frames, and a place that a stream can be at.        *)
IsRow(u) ==
  /\ u[1] \in DOMAIN frames /\ u[2] \in 0..NBlocks(u[1]) /\ u[3] \in 0..(RowsOf(u[2]) - 1)
InFrames(u) == u[1] \in DOMAIN frames \/ u = AllDone

(* What waits is rows of the frames, both blocks have parameters of the    *)
(* modem, and no more comes out of them than the frames have.              *)
StreamTypeOK ==
  /\ written \in (0..Len(frames)) \X {0, 1}
  /\ in \in Seq(Place) /\ \A i \in DOMAIN in : IsRow(in[i])
  /\ tx \in [SF : {SF, SFPayload, SF - 2}, codeLength : 4..8, changedParams : BOOLEAN]
  /\ rx \in [SF : {SF, SFPayload, SF - 2}, codeLength : 4..8]
  /\ made \in Nat /\ InFrames(SymbolDue[made]) /\ taken \in 0..made
  /\ overrun \/ made - taken < SymbolSlots
  /\ out \in Nat /\ InFrames(RowDue[out]) /\ lastCall \in 0..out

(* Every symbol stands where it is due: code blocks are cut where the tags *)
(* say and interleaved with the SF and CR of their own tag, also when a    *)
(* call meets a tag in its middle (Interleave general_work).  What is left *)
(* of earlier symbols in a slot is ored into it only if its block was not  *)
(* the first of its call and the buffer has come round.                    *)
ResidueExplained ==
  \A p \in Unread :
    LET due == SymbolDue[p]
    IN  /\ due \in Slot(p)
        /\ Slot(p) # {due} => <<due[1], due[2]>> \notin fresh /\ p >= SymbolSlots

(* The nibbles the receiver gets are of the rows sent, whole and in order, *)
(* and wrong only for the same reason on one of the two sides.             *)
NibblesReceived ==
  \A p \in lastCall..(out - 1) :
    LET due  == RowDue[p]
        own  == {<<due[1], due[2], k>> : k \in 0..(CodeLength(due[1], due[2]) - 1)}
        got  == nibbles[p % NibbleSlots]
    IN  /\ own \subseteq got
        /\ got # own =>
             \/ <<due[1], due[2]>> \notin fresh
             \/ p >= NibbleSlots /\ p - due[3] > lastCall

(* Interleave stops with input only before the header block of a frame     *)
(* that has nothing else: forecast asks for a block of the SF of the       *)
(* payload before it, or of the constructor, which is larger.              *)
StarvationExplained ==
  ~overrun /\ in # <<>> /\ made = taken /\ Len(in) < tx.SF /\ written[2] = 1 =>
    in[1][2] = 0 /\ Len(in) = SF - 2 /\ NBlocks(in[1][1]) = 0 /\ tx.SF = SF

ShortFrames == {f \in DOMAIN frames : NBlocks(f) = 0}

(* If frames are paced and none without payload comes first or follows one *)
(* with more rows, every frame comes out of the receiver, and no symbol is *)
(* overwritten before it is read.                                          *)
EveryFrameReceived ==
  <>(/\ scenario.paced /\ 1 \notin ShortFrames
     /\ scenario.ldr \/ ShortFrames = {}
     => RowDue[out] = AllDone /\ ~overrun)
=============================================================================
