------------------------------ MODULE MCCodec ------------------------------
EXTENDS Codec

(* Headers whose length, CRC flag and CR set few and many bits.            *)
MCHeaders ==
  [length : {0, 1, 90, 255}, crc : BOOLEAN, CR : {0, 4}]

(* Payload blocks of both data rates and every code rate; nibble i is one  *)
(* of two nibbles of different weight.                                     *)
MCPayloads ==
  UNION {[rows : {n}, CR : 0..4,
          nibbles : {[i \in 0..(n - 1) |-> IF i % 3 = p THEN {0, 2, 3} ELSE {1}] : p \in 0..2}] :
           n \in {5, 7}}
============================================================================
