------------------------------ MODULE FrameSync ------------------------------
(***************************************************************************)
(* Advanced Synthesis Cookbook/interlaken_lane/frame_sync_control.v: finds *)
(* the synchronization words of the metaframe and follows the frame.  The  *)
(* counter is frozen while searching; expect_* name the word that has just *)
(* been received.  expect_skip and expect_payload reach no output.         *)
(***************************************************************************)
EXTENDS Naturals

CONSTANT META_FRAME_LEN

VARIABLES state, sync_detected, last_din_valid,
          meta_cntr, meta_cntr_max,
          expect_sync_word, expect_scram_state, expect_diag,
          sync_tally, scramble_miss_cntr
vars == <<state, sync_detected, last_din_valid, meta_cntr, meta_cntr_max,
          expect_sync_word, expect_scram_state, expect_diag,
          sync_tally, scramble_miss_cntr>>

sync_locked == state = "LOCKED"
good_sync == last_din_valid /\ expect_sync_word /\ sync_detected
missing_sync == last_din_valid /\ expect_sync_word /\ ~sync_detected
scrambler_load == last_din_valid /\ expect_scram_state
scrambler_evolve == last_din_valid /\ ~expect_sync_word /\ ~expect_scram_state

Init == /\ state = "RESET" /\ sync_detected = FALSE /\ last_din_valid = FALSE
        /\ meta_cntr = 0 /\ meta_cntr_max = FALSE
        /\ expect_sync_word = FALSE /\ expect_scram_state = FALSE /\ expect_diag = FALSE
        /\ sync_tally = 0 /\ scramble_miss_cntr = 0

Reset == /\ state' = "RESET" /\ sync_detected' = FALSE /\ last_din_valid' = FALSE
         /\ meta_cntr' = 0 /\ meta_cntr_max' = FALSE
         /\ expect_sync_word' = FALSE /\ expect_scram_state' = FALSE /\ expect_diag' = FALSE
         /\ sync_tally' = 0 /\ scramble_miss_cntr' = 0

(* Mutant: the frame starts over one word too late. *)
FrozenLate == 0
(* "freeze waiting for the sync word": the next word is the first after it. *)
Frozen == 1

MetaFrame(din_valid) ==
    IF state = "SEARCH"
      THEN /\ meta_cntr' = Frozen /\ meta_cntr_max' = FALSE
           /\ expect_sync_word' = TRUE /\ expect_scram_state' = FALSE /\ expect_diag' = FALSE
    ELSE IF din_valid
      THEN /\ meta_cntr_max' = (meta_cntr = META_FRAME_LEN - 2)
           /\ meta_cntr' = IF meta_cntr_max THEN 0 ELSE meta_cntr + 1
           /\ expect_sync_word' = (meta_cntr = 0)
           /\ expect_scram_state' = expect_sync_word
           /\ expect_diag' = (meta_cntr = META_FRAME_LEN - 1)
      ELSE UNCHANGED <<meta_cntr, meta_cntr_max, expect_sync_word, expect_scram_state, expect_diag>>

(* Good words count towards the lock, missing ones away from it. *)
rst_sync_tally == \/ state = "SEARCH"
                  \/ state = "VERIFY" /\ ~missing_sync /\ sync_tally = 3
                  \/ state = "LOCKED" /\ good_sync
inc_sync_tally == \/ state = "VERIFY" /\ good_sync
                  \/ state = "LOCKED" /\ missing_sync
Tally == sync_tally' = IF rst_sync_tally THEN 0
                       ELSE IF inc_sync_tally THEN (sync_tally + 1) % 8 ELSE sync_tally

(* "3 consecutive problems = lost lock". *)
ScramblerMisses(scrambler_match, scrambler_mismatch) ==
    scramble_miss_cntr' =
        IF scrambler_match \/ ~sync_locked THEN 0
        ELSE IF scrambler_mismatch /\ scramble_miss_cntr # 3
          THEN scramble_miss_cntr + 1 ELSE scramble_miss_cntr

Verified == sync_tally = 3
(* Mutant: a scrambler out of step does not end the lock. *)
FailedSyncOnly == sync_tally = 4
Failed == sync_tally = 4 \/ scramble_miss_cntr = 3

next_state ==
    CASE state = "RESET" -> "SEARCH"
      [] state = "SEARCH" -> IF good_sync THEN "VERIFY" ELSE "SEARCH"
      [] state = "VERIFY" -> IF missing_sync THEN "SEARCH"
                             ELSE IF Verified THEN "LOCKED" ELSE "VERIFY"
      [] state = "LOCKED" -> IF ~good_sync /\ Failed THEN "SEARCH" ELSE "LOCKED"

(* One edge of clk; is_sync says that din is the synchronization word. *)
Clock(din_valid, is_sync, word_locked, scrambler_match, scrambler_mismatch) ==
    /\ sync_detected' = IF din_valid THEN is_sync ELSE sync_detected
    /\ last_din_valid' = din_valid
    /\ MetaFrame(din_valid)
    /\ Tally
    /\ ScramblerMisses(scrambler_match, scrambler_mismatch)
    /\ state' = IF word_locked THEN next_state ELSE "RESET"

=============================================================================
