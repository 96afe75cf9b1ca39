------------------------- MODULE MCTransmitterPath -------------------------
(* Frame parameters for the runs of the transmitter path.                  *)
EXTENDS TransmitterPath

(* One byte of payload fills the header block.                             *)
SF9 == [SF |-> 9, CR |-> 1, crc |-> TRUE, ldr |-> FALSE]
=============================================================================
