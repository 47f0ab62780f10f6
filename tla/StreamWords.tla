----------------------------- MODULE StreamWords -----------------------------
(***************************************************************************)
(* The data words that the buffers of one clock domain carry, whatever     *)
(* their width; a register in reset holds 0.                               *)
(***************************************************************************)
CONSTANTS Word, Zero

ASSUME WordAssumption == Zero \in Word
=============================================================================
