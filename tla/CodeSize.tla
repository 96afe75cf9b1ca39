------------------------------ MODULE CodeSize ------------------------------
(* The spreading factor of the modem, which sizes the code blocks: SF - 2  *)
(* rows with the header or at low data rate, SF otherwise.  A row gives    *)
(* each symbol of its block one bit, and a symbol is a uint16.             *)
EXTENDS Integers

CONSTANT SF

ASSUME SFAssumption == SF \in 7..16
=============================================================================
