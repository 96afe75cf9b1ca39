---------------------------- MODULE MCCodeBlocks ----------------------------
EXTENDS CodeBlocks

(* Three frames of none, one and two payload blocks in some orders.        *)
MCScenarios ==
  [ldr : BOOLEAN, paced : BOOLEAN,
   frames : {[f \in 1..3 |-> [CR |-> 1, blocks |-> n[f]]] :
               n \in {<<2, 1, 2>>, <<2, 0, 2>>, <<2, 2, 0>>, <<0, 2, 1>>}}]
=============================================================================
