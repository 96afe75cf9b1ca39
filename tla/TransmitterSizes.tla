-------------------------- MODULE TransmitterSizes --------------------------
(***************************************************************************)
(* The sizes TransmitterController computes (lib/TransmitterController_    *)
(* impl.{h,cc}), for frame parameters p = [SF, CR, crc, ldr] -- the        *)
(* members SF, CR, CRCPresent and lowDataRate -- and a payload of n bytes. *)
(***************************************************************************)
EXTENDS Naturals

Parameters == [SF : {sf \in Nat : sf >= 7}, CR : 1..4, crc : BOOLEAN, ldr : BOOLEAN]

CRCSize == 2

(* Nibbles of the header block that are not header.                        *)
HeaderRoom(p) == p.SF - 7

(* SFPayload: nibbles of a payload code block.                             *)
PayloadRows(p) == IF p.ldr THEN p.SF - 2 ELSE p.SF

(* "Payload + CRC"                                                         *)
NNibbles(p, n) == 2 * (n + (IF p.crc THEN CRCSize ELSE 0))

NExtraNibblesWholeFrame(p, n) ==   \* mutant: pads as if the header were not there
  IF NNibbles(p, n) > HeaderRoom(p)
  THEN (PayloadRows(p) - (NNibbles(p, n) % PayloadRows(p))) % PayloadRows(p)
  ELSE HeaderRoom(p) - NNibbles(p, n)

NExtraNibbles(p, n) ==
  IF NNibbles(p, n) > HeaderRoom(p)
  THEN (PayloadRows(p) - ((NNibbles(p, n) - HeaderRoom(p)) % PayloadRows(p)))
         % PayloadRows(p)
  ELSE HeaderRoom(p) - NNibbles(p, n)

(* "Payload + CRC + padding"                                               *)
NNibblesTotal(p, n) == NNibbles(p, n) + NExtraNibbles(p, n)

HeaderForecastBytes(p, n) ==   \* mutant: counts the payload in bytes
  LET wanted == n + (IF p.crc THEN CRCSize ELSE 0)
  IN  IF wanted < HeaderRoom(p) THEN wanted ELSE HeaderRoom(p)

(* What forecast() asks for before a header; it counts the CRC, which is   *)
(* not read from the input, and counts it in bytes.                        *)
HeaderForecast(p, n) ==
  LET wanted == 2 * n + (IF p.crc THEN CRCSize ELSE 0)
  IN  IF wanted < HeaderRoom(p) THEN wanted ELSE HeaderRoom(p)
=============================================================================
