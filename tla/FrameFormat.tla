----------------------------- MODULE FrameFormat -----------------------------
(***************************************************************************)
(* What ties receiverController to TransmitterController: the sizes the    *)
(* one computes from a header it reads must be the sizes the other used    *)
(* when it wrote the frame.                                                *)
(***************************************************************************)
EXTENDS ReceiverController, TransmitterSizes

(* The parameters a transmitter of the same SF and data rate had when it   *)
(* wrote a frame with this CR and CRC flag.                                *)
SentWith(cr, present) == [SF |-> SF, CR |-> cr, crc |-> present, ldr |-> LowDataRate]

(* A payload that continues behind the header block is read in full: the   *)
(* receiver waits for just the nibbles the transmitter wrote -- payload,   *)
(* CRC and padding -- whatever padding an earlier frame left behind.       *)
ReadsWhatIsSent ==
  currentState = "sendingPayload" /\ LongFrame =>
    PayloadNeed =
      NNibblesTotal(SentWith(CR, payloadCRCPresent), payloadNibblesToRead \div 2)
=============================================================================
