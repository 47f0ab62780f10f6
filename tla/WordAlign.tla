------------------------------ MODULE WordAlign ------------------------------
(***************************************************************************)
(* Advanced Synthesis Cookbook/interlaken_lane/word_align_control.v: the   *)
(* word boundary machine of an Interlaken lane.  It slips the boundary     *)
(* until words are framed, verifies, and gives the lock up again when too  *)
(* many misframed words arrive.  Window is 64 and Limit 16 in the code.    *)
(***************************************************************************)
EXTENDS Naturals

CONSTANTS Window, Limit

VARIABLES state, word_cntr, word_cntr_max, sync_err_cntr
vars == <<state, word_cntr, word_cntr_max, sync_err_cntr>>

slip_to_frame == state = "SLIP"
word_locked == state = "LOCKED"

Init == /\ state = "RESET" /\ word_cntr = 0 /\ word_cntr_max = FALSE
        /\ sync_err_cntr = 0

Reset == /\ state' = "RESET" /\ word_cntr' = 0 /\ word_cntr_max' = FALSE
         /\ sync_err_cntr' = 0

(* Mutant: the count goes on while slipping. *)
rst_word_cntr_never == FALSE
rst_word_cntr == state = "SLIP"

(* "count words": word_cntr_max says that the count is at its last value, *)
(* and lasts until the next word.                                         *)
CountWords(din_valid) ==
    /\ word_cntr' = IF rst_word_cntr THEN 0
                    ELSE IF din_valid THEN (word_cntr + 1) % Window ELSE word_cntr
    /\ word_cntr_max' = IF rst_word_cntr THEN FALSE
                        ELSE IF din_valid THEN word_cntr = Window - 2 ELSE word_cntr_max

(* "count mis-framed din words, stop counting at 16"; a restart of the     *)
(* count wins over the word that arrives with it.                          *)
CountErrors(din_valid, din_framed) ==
    sync_err_cntr' =
        IF state = "LOCKED" /\ word_cntr_max THEN 0
        ELSE IF din_valid /\ ~din_framed /\ sync_err_cntr < Limit
          THEN sync_err_cntr + 1
          ELSE sync_err_cntr

(* Mutants: the errors are not looked at; one error less is too many. *)
TooManyNever == FALSE
TooManyEarly == sync_err_cntr >= Limit - 1
TooMany == sync_err_cntr = Limit

next_state(din_valid, din_framed) ==
    CASE state = "RESET" -> "SLIP"
      [] state = "SLIP" -> IF din_valid /\ din_framed THEN "VERIFY" ELSE "SLIP"
      [] state = "VERIFY" -> IF din_valid /\ ~din_framed THEN "SLIP"
                             ELSE IF word_cntr_max THEN "LOCKED" ELSE "VERIFY"
      [] state = "LOCKED" -> IF word_cntr_max /\ TooMany THEN "SLIP" ELSE "LOCKED"

(* One edge of clk. *)
Clock(din_valid, din_framed) ==
    /\ CountWords(din_valid)
    /\ CountErrors(din_valid, din_framed)
    /\ state' = next_state(din_valid, din_framed)

=============================================================================
