---------------------- MODULE MCReceiverController ----------------------
(* The controller alone, with every length up to MaxLen, every CR field    *)
(* and both checksum outcomes, so that the padding arithmetic meets every  *)
(* residue of the block length.                                            *)
EXTENDS FrameFormat

CONSTANTS MaxLen, MaxNibbles

(* At most this many nibbles wait at the input.                            *)
MCOccupancies == 0..MaxNibbles

MCHeaders == [len : 0..MaxLen, crc : BOOLEAN, CR : 0..7, checksumOK : BOOLEAN]
=============================================================================
