--------------------------- MODULE MCReceiverTail ---------------------------
EXTENDS ReceiverTail

MCFrame(n, hasCrc, lost) == [len |-> n, crc |-> hasCrc, cut |-> lost]

(* Three frames, one of which may be empty, without CRC or cut off.        *)
MCScenarios ==
  [spaced : BOOLEAN,
   frames : {<<MCFrame(a, TRUE, FALSE), MCFrame(b, hasCrc, lost), MCFrame(c, TRUE, FALSE)>> :
               a \in {0, 2}, b \in 0..3, hasCrc \in BOOLEAN, lost \in BOOLEAN, c \in {1, 2}}]
=============================================================================
