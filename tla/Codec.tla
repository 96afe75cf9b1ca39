------------------------------- MODULE Codec -------------------------------
(***************************************************************************)
(* What the modem does to the nibbles of one code block, from Encode in    *)
(* LoRaTx to decode in LoRaRx, over an air that may change one symbol of   *)
(* the block.  A word (nibble, codeword, symbol) is the set of the indexes *)
(* of its 1 bits: xor is symmetric difference, shifting is a change of     *)
(* index.  A header block is one whose first five nibbles are the header   *)
(* that TransmitterController writes and receiverController reads.         *)
(***************************************************************************)
EXTENDS CodeSize, Integers, FiniteSets, FiniteSetsExt

CONSTANTS
  HeaderCases,   \* headers sent: records [length, crc, CR]
  PayloadCases   \* payload blocks: records [rows, CR, nibbles]

ASSUME CasesAssumption ==
  /\ HeaderCases \subseteq [length : 0..255, crc : BOOLEAN, CR : 0..7]
  /\ \A p \in PayloadCases :
       /\ p.rows \in {SF - 2, SF} /\ p.CR \in 0..4
       /\ p.nibbles \in [0..(p.rows - 1) -> SUBSET (0..3)]

VARIABLES
  sent,    \* the block at hand: its rows, CR, nibbles and header (or "none")
  stage,   \* the representation item is in
  item,    \* the block in that representation
  struck   \* the symbol the air has changed and by how many bins, or "none"

vars == <<sent, stage, item, struck>>
-----------------------------------------------------------------------------
Bits(n) == {i \in 0..15 : (n \div 2^i) % 2 = 1}
Value(w) == MapThenSumSet(LAMBDA i : 2^i, w)
Xor(v, w) == (v \ w) \union (w \ v)
Parity(w) == Cardinality(w) % 2

PairityMatrix(CR) ==
  CASE CR = 4 -> <<{0, 1, 2}, {1, 2, 3}, {0, 1, 3}, {0, 2, 3}>>
    [] CR = 3 -> <<{0, 1, 2}, {1, 2, 3}, {0, 1, 3}, {}>>
    [] CR = 2 -> <<{0, 1, 2}, {1, 2, 3}, {}, {}>>
    [] CR = 1 -> <<0..3, {}, {}, {}>>
    [] OTHER  -> <<{}, {}, {}, {}>>

(* Bits already set stay set: decode calls it with a whole codeword.       *)
CalculatePairity(w, CR) ==
  w \union {4 + n : n \in {n \in 0..3 : Parity(w \intersect PairityMatrix(CR)[n + 1]) = 1}}

(* mutant: a new key is entered as well                                    *)
AddLeaderNew(leaders, syndrome, error) ==
  [s \in DOMAIN leaders \union {syndrome} |-> IF s = syndrome THEN error ELSE leaders[s]]

(* The table starts empty and only keys already in it are assigned, so it  *)
(* stays empty, and looking a syndrome up in it gives 0.                   *)
AddLeader(leaders, syndrome, error) ==
  IF syndrome \in DOMAIN leaders THEN [leaders EXCEPT ![syndrome] = error] ELSE leaders

CosetLeaders(CR) ==
  LET check(i) == CalculatePairity({i}, CR)
  IN  FoldSet(LAMBDA p, leaders : AddLeader(leaders, Xor(check(p[1]), check(p[2])),
                                            {p[1]} \intersect {p[2]}),
              [s \in {} |-> {}], (0..3) \X (0..3))

Decode(w, CR) ==
  LET leaders  == CosetLeaders(CR)
      syndrome == Xor(CalculatePairity(w, CR), w)
      leader   == IF syndrome \in DOMAIN leaders THEN leaders[syndrome] ELSE {}
  IN  Xor(w, leader) \intersect 0..3

(* mutant: bits are not spread over the diagonal                           *)
InterleaveStraight(words, rows, codeLength) ==
  [k \in 0..(codeLength - 1) |-> {j \in 0..(rows - 1) : k \in words[j]}]

(* Bit k of row (j + k) % rows becomes bit j of symbol k, and back.        *)
Interleave(words, rows, codeLength) ==
  [k \in 0..(codeLength - 1) |-> {j \in 0..(rows - 1) : k \in words[(j + k) % rows]}]

(* mutant: codeLength and rows are exchanged                               *)
DeinterleaveExchanged(symbols, rows, codeLength) ==
  [r \in 0..(rows - 1) |->
     {j \in 0..(rows - 1) : \E k \in symbols[j % codeLength] : (j + k) % rows = r}]

Deinterleave(symbols, rows, codeLength) ==
  [r \in 0..(rows - 1) |->
     {j \in 0..(codeLength - 1) : \E k \in symbols[j] : k < rows /\ (j + k) % rows = r}]

(* x ^ x >> 1 ^ ... ^ x >> nBits, and x ^ x >> 1.                          *)
GrayDecode(x, nBits) == {b \in 0..15 : Parity(x \intersect b..(b + nBits)) = 1}

GrayEncode(x, nBits) == {b \in 0..(nBits - 1) : Parity(x \intersect {b, b + 1}) = 1}

Bins == 0..(2^SF - 1)

(* A block of SF - 2 rows uses every fourth bin ...                        *)
SymbolMod(x, rows) == Value(x) * 2^(SF - rows)

(* ... and the demodulator rounds to the nearest of those; what lies       *)
(* half-way is rounded by the sign of the difference, up or down.          *)
SymbolDemod(bin, rows, up) ==
  LET step == 2^(SF - rows)
  IN  Bits(((2 * bin + step - (IF up THEN 0 ELSE 1)) \div (2 * step)) % 2^rows)
-----------------------------------------------------------------------------
(* The five checksum bits, each the parity of some bits of the first three *)
(* nibbles, the first nibble lowest.                                       *)
ChecksumMasks == <<Bits(3873), Bits(1874), Bits(2708), Bits(488), Bits(15)>>

(* mutant: the last mask is lost                                           *)
ChecksumShort(nibbles) ==
  LET data == UNION {{4 * i + b : b \in nibbles[i]} : i \in 0..2}
  IN  {i \in 0..3 : Parity(ChecksumMasks[i + 1] \intersect data) = 1}

Checksum(nibbles) ==
  LET data == UNION {{4 * i + b : b \in nibbles[i]} : i \in 0..2}
  IN  {i \in 0..4 : Parity(ChecksumMasks[i + 1] \intersect data) = 1}

HeaderNibbles(h) ==
  LET first == [i \in 0..2 |->
                  CASE i = 0 -> Bits(h.length \div 16)
                    [] i = 1 -> Bits(h.length % 16)
                    [] i = 2 -> Bits(2 * h.CR + (IF h.crc THEN 1 ELSE 0))]
      sum   == Checksum(first)
  IN  [i \in 0..4 |-> IF i < 3 THEN first[i]
                      ELSE IF i = 3 THEN {b - 4 : b \in sum \ 0..3}
                      ELSE sum \intersect 0..3]

ReadHeader(nibbles) ==
  [length |-> 16 * Value(nibbles[0]) + Value(nibbles[1]),
   crc    |-> 0 \in nibbles[2],
   CR     |-> Value(nibbles[2]) \div 2,
   valid  |-> {b + 4 : b \in nibbles[3]} \union nibbles[4] = Checksum(nibbles)]
-----------------------------------------------------------------------------
codeLength == sent.CR + 4
Rows == 0..(sent.rows - 1)

(* A header block has SF - 2 rows and CR 4; with SF = 7 it is the header.  *)
Blocks ==
  {[rows |-> SF - 2, CR |-> 4, header |-> {h},
    nibbles |-> [i \in 0..(SF - 3) |-> IF i < 5 THEN HeaderNibbles(h)[i] ELSE {}]] :
       h \in HeaderCases}
  \union {[rows |-> p.rows, CR |-> p.CR, header |-> {}, nibbles |-> p.nibbles] :
       p \in PayloadCases}

Init ==
  /\ sent \in Blocks
  /\ stage = "nibbles"
  /\ item = sent.nibbles
  /\ struck = <<>>

Becomes(old, new, value) ==
  /\ stage = old
  /\ stage' = new
  /\ item' = value
  /\ UNCHANGED sent

EncodeBlock ==
  /\ Becomes("nibbles", "sentWords", [i \in Rows |-> CalculatePairity(item[i], sent.CR)])
  /\ UNCHANGED struck

(* Interleave, GrayDecode and SymbolMod: the bins that go on the air.      *)
Transmit ==
  /\ LET symbols == Interleave(item, sent.rows, codeLength)
     IN  Becomes("sentWords", "air",
                 [k \in DOMAIN symbols |->
                    SymbolMod(GrayDecode(symbols[k], sent.rows), sent.rows)])
  /\ UNCHANGED struck

(* Noise: one symbol arrives in another bin.                               *)
Strike ==
  /\ stage = "air" /\ struck = <<>>
  /\ \E k \in DOMAIN item, bin \in Bins :
       /\ bin # item[k]
       /\ item' = [item EXCEPT ![k] = bin]
       /\ struck' = <<k, (bin - item[k]) % 2^SF>>
  /\ UNCHANGED <<sent, stage>>

(* symbolDemodNew, grayEncode and deinterleave.                            *)
Receive ==
  /\ \E up \in BOOLEAN :
       LET symbols == [k \in DOMAIN item |->
                         GrayEncode(SymbolDemod(item[k], sent.rows, up), sent.rows)]
       IN  Becomes("air", "gotWords", Deinterleave(symbols, sent.rows, codeLength))
  /\ UNCHANGED struck

DecodeBlock ==
  /\ Becomes("gotWords", "received", [i \in Rows |-> Decode(item[i], sent.CR)])
  /\ UNCHANGED struck

Next == EncodeBlock \/ Transmit \/ Strike \/ Receive \/ DecodeBlock

Spec == Init /\ [][Next]_vars
-----------------------------------------------------------------------------
NibbleBlocks == [Rows -> SUBSET (0..3)]
WordBlocks   == [Rows -> SUBSET (0..(codeLength - 1))]

(* Words are as long as their code, symbols are bins of the modem, and the *)
(* header record is read from nibbles.                                     *)
TypeOK ==
  CASE stage \in {"nibbles", "received"}   -> item \in NibbleBlocks
    [] stage \in {"sentWords", "gotWords"} -> item \in WordBlocks
    [] stage = "air" -> item \in [0..(codeLength - 1) -> Bins]

(* Over a quiet air every block comes out as it went in, for every code    *)
(* rate, header or payload (Encode to decode, both hier blocks' chains).   *)
RoundTrip ==
  stage = "received" /\ struck = <<>> => item = sent.nibbles

SentWord(r) == CalculatePairity(sent.nibbles[r], sent.CR)

(* Whatever happens to one symbol, no codeword gets more than one wrong    *)
(* bit: what the diagonal of the interleaver is for.                       *)
OneBitPerWord == \A r \in Rows : Cardinality(Xor(item[r], SentWord(r))) <= 1

(* A symbol that is off by one bin costs one bit of the whole block, which *)
(* is what the Gray code is for, and none if the block has SF - 2 rows,    *)
(* where neighbouring bins are rounded away.                               *)
NextBinIsCheap ==
  struck # <<>> /\ struck[2] \in {1, 2^SF - 1} =>
    MapThenSumSet(LAMBDA r : Cardinality(Xor(item[r], SentWord(r))), Rows)
      <= (IF sent.rows = SF THEN 1 ELSE 0)

(* The two together: what one wrong symbol does to the codewords of its    *)
(* block (Interleave, grayEncode, symbolDemodNew).                         *)
ErrorsSpread == stage = "gotWords" => OneBitPerWord /\ NextBinIsCheap

HeaderBitsWrong ==
  MapThenSumSet(LAMBDA r : Cardinality(Xor(item[r], sent.nibbles[r])), 0..4)

(* A header of which one symbol is wrong is read as sent or refused if no  *)
(* more than two of its bits are changed (readHeader's checksum; decode    *)
(* corrects nothing, and three changed bits can make another valid header).*)
HeaderErrorsDetected ==
  stage = "received" =>
    \A h \in sent.header :
      LET got == ReadHeader(item)
      IN  got.valid /\ HeaderBitsWrong <= 2 =>
            [length |-> got.length, crc |-> got.crc, CR |-> got.CR] = h
=============================================================================
