--------------------------- MODULE MCReceiverLoop ---------------------------
(* Scenarios for the receiver loop.  With SF 12 the header block leaves    *)
(* five nibbles: the headers of two rejected frames add up to a block.     *)
EXTENDS ReceiverLoop

(* One payload, of two code blocks.                                        *)
TwoBlocks == {[len |-> 7, crc |-> TRUE, CR |-> 1, checksumOK |-> TRUE]}

OneBlock == {[len |-> 1, crc |-> TRUE, CR |-> 1, checksumOK |-> TRUE]}

BadHeader == {[len |-> 1, crc |-> TRUE, CR |-> 1, checksumOK |-> FALSE]}

(* Also a frame without CRC that fits the header block.                    *)
ShortHeaders ==
  {[len |-> 2, crc |-> TRUE, CR |-> 1, checksumOK |-> TRUE],
   [len |-> 1, crc |-> FALSE, CR |-> 1, checksumOK |-> TRUE]}

(* Garbage nibbles fail the header checksum ...                            *)
Rejected == {[len |-> 0, crc |-> FALSE, CR |-> 4, checksumOK |-> FALSE]}

(* ... or pass it by accident and announce two code blocks.                *)
RejectedOrNot == Rejected \cup TwoBlocks

(* Two frames of 13 symbols, detected at any time; three that find the     *)
(* controller waiting, perhaps with old nibbles, some rejected; three that *)
(* fit the header block, with 5 symbols of noise behind them; and three    *)
(* that find the receiver quiet, in windows for the longest of them.       *)
MCScenarios ==
  {[frames |-> 2, pause |-> "none", window |-> 13, headers |-> OneBlock,
    unreadable |-> Rejected],
   [frames |-> 3, pause |-> "received", window |-> 13, headers |-> OneBlock \cup BadHeader,
    unreadable |-> Rejected],
   [frames |-> 3, pause |-> "received", window |-> 13, headers |-> ShortHeaders,
    unreadable |-> RejectedOrNot],
   [frames |-> 3, pause |-> "quiet", window |-> 18,
    headers |-> OneBlock \cup TwoBlocks \cup BadHeader, unreadable |-> Rejected]}

(* Frames of 18 symbols, in windows that are too short for them or not.    *)
Overlapping ==
  {[frames |-> 2, pause |-> "none", window |-> w, headers |-> TwoBlocks,
    unreadable |-> Rejected] : w \in {12, 18}}
=============================================================================
