---------------------- MODULE MCTransmitterController ----------------------
(* Frame parameters and input lengths for the transmitter's run.           *)
EXTENDS TransmitterController

CONSTANTS MaxNibbles, LargeSize

(* Room for 2 nibbles in the header block, which a byte of payload fills,  *)
(* or for 4, which two bytes fill.                                         *)
MCParams ==
  {[SF |-> 9, CR |-> 1, crc |-> TRUE, ldr |-> FALSE],
   [SF |-> 9, CR |-> 4, crc |-> FALSE, ldr |-> TRUE],
   [SF |-> 11, CR |-> 2, crc |-> FALSE, ldr |-> TRUE]}

(* A call of the controller reads 8 nibbles at most, but for a frame of    *)
(* LargeSize bytes, whose payload call reads all but 2 or 4 of them.       *)
MCOccupancies == (0..MaxNibbles) \cup {2 * LargeSize - 4, 2 * LargeSize - 2}
=============================================================================
