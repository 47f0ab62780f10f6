------------------------------ MODULE LaneBench ------------------------------
(***************************************************************************)
(* The testbench make_lane_traffic.cpp writes for its own traffic: lane_rx *)
(* reads the words back.  From interlaken_lane/ come dec_67_64, the        *)
(* registers of lane_rx, scrambler_lfsr and lane_rx_crc; frame_sync_control*)
(* is FrameSync.  One Edge is one edge of clk; the 20 to 67 bit gearbox    *)
(* gives a word every three or four clocks (67/20), and the word lock,     *)
(* which depends on the data, comes after at most AlignWords words.        *)
(***************************************************************************)
EXTENDS LaneTraffic

CONSTANTS AlignWords,   \* "allow 1200 words to acquire word alignment"
          Gaps          \* idle clocks between two words: {2, 3}

ASSUME BenchAssumption == AlignWords \in Nat /\ Gaps \subseteq Nat \ {0}

VARIABLES
    pos, gap, word_locked,                                      \* the line
    state, sync_detected, last_din_valid, meta_cntr_max, rx_cntr, \* frame_sync_control
    expect_sync_word, expect_scram_state, expect_diag, sync_tally, scramble_miss_cntr,
    last_valid_word, dout, dout_valid,                          \* lane_rx
    lfsr, last_verify, match,                                   \* scrambler_lfsr
    din_r, expect_crc, fresh, last_diag_word, check_schedule,   \* lane_rx_crc
    evolved, crc, crc_match, crc_error,
    words_to_sync_lock, acquired, fail, late, step, surprise,   \* the bench
    on_sync                        \* history: the word lock came with a sync word
lineVars == <<pos, gap, word_locked, on_sync>>
syncVars == <<state, sync_detected, last_din_valid, meta_cntr_max, rx_cntr, expect_sync_word,
              expect_scram_state, expect_diag, sync_tally, scramble_miss_cntr>>
rxVars == <<last_valid_word, dout, dout_valid, lfsr, last_verify, match>>
crcVars == <<din_r, expect_crc, fresh, last_diag_word, check_schedule,
             evolved, crc, crc_match, crc_error>>
benchVars == <<words_to_sync_lock, acquired, fail, late, step, surprise>>
laneVars == <<lineVars, syncVars, rxVars, crcVars, benchVars>>
vars == <<trafficVars, laneVars>>

F == INSTANCE FrameSync WITH META_FRAME_LEN <- meta_frame_len, meta_cntr <- rx_cntr
sync_locked == F!sync_locked
check_crc32 == last_din_valid /\ expect_diag
scrambler_mismatch == last_verify /\ ~match

Noise == [kind |-> "noise", bits |-> Data, n |-> 0, crc |-> <<>>,
          scr |-> [seed |-> "noise", age |-> 0], hurt |-> FALSE, inv |-> FALSE]

LaneInit ==
    /\ pos = 1 /\ gap = 0 /\ word_locked = FALSE /\ on_sync = FALSE /\ F!Init
    /\ last_valid_word = Noise /\ dout = Noise /\ dout_valid = FALSE
    /\ lfsr = Noise.scr /\ last_verify = FALSE /\ match = FALSE
    /\ din_r = Noise /\ expect_crc = Noise /\ fresh = <<FALSE, FALSE>>
    /\ last_diag_word = FALSE /\ check_schedule = <<FALSE, FALSE, FALSE, FALSE>>
    /\ evolved = <<Noise>> /\ crc = <<Noise>> /\ crc_match = FALSE /\ crc_error = FALSE
    /\ words_to_sync_lock = 0 /\ acquired = FALSE
    /\ fail = FALSE /\ late = FALSE /\ step = 0 /\ surprise = FALSE
------------------------------------------------------------------------------
(* dec_67_64: bit 66 inverts the data back. *)
Decoded(word) == IF word.inv <=> word.bits >= 4 THEN word ELSE Noise
LoadVal(word) == IF word.kind = "state" /\ ~word.hurt THEN word.scr ELSE Noise.scr

Scrambler ==
    /\ lfsr' = IF F!scrambler_load /\ ~sync_locked THEN LoadVal(last_valid_word)
               ELSE IF F!scrambler_evolve THEN [lfsr EXCEPT !.age = @ + 1] ELSE lfsr
    /\ last_verify' = (F!scrambler_load /\ sync_locked)
    /\ match' = (lfsr = LoadVal(last_valid_word))

(* Undo the scrambling; the state is blanked out, and damage with it. *)
Descrambled(word) ==
    IF word.kind \in {"skip", "diag", "data"} /\ word.scr = lfsr THEN word ELSE Noise
Blanked(word) == IF word.kind = "state" THEN [word EXCEPT !.hurt = FALSE] ELSE Noise
RawSync(word) == IF word.kind = "sync" THEN word ELSE Noise
Dout ==
    /\ dout_valid' = last_din_valid
    /\ dout' = IF ~last_din_valid THEN dout
               ELSE IF expect_sync_word THEN RawSync(last_valid_word)
               ELSE IF expect_scram_state THEN Blanked(last_valid_word)
               ELSE Descrambled(last_valid_word)

(* lane_rx_crc, "does this really omit the control bit?  Yes it does": two  *)
(* input registers, the two halves of the sum, the sum, and a schedule that *)
(* compares and restarts it after the diagnostic word.                      *)
CheckCrc ==
    /\ din_r' = IF ~dout_valid THEN din_r
                ELSE IF last_diag_word THEN [dout EXCEPT !.hurt = FALSE] ELSE dout
    /\ expect_crc' = IF dout_valid /\ last_diag_word THEN dout ELSE expect_crc
    /\ fresh' = <<dout_valid, fresh[1]>>
    /\ last_diag_word' = check_crc32
    /\ check_schedule' = <<last_diag_word /\ dout_valid>> \o SubSeq(check_schedule, 1, 3)
    /\ evolved' = Append(crc, Covered(din_r.kind, din_r.n, din_r.hurt))
    /\ crc' = IF check_schedule[3] THEN <<>> ELSE IF fresh[2] THEN evolved ELSE crc
    /\ crc_match' = (expect_crc.kind = "diag" /\ ~expect_crc.hurt /\ crc = expect_crc.crc)
    /\ crc_error' = (~crc_match /\ check_schedule[4])

(* The word the line has next; the words come from the blocks, in order. *)
Incoming == lane_words[pos]
Receive(din_valid) ==
    /\ F!Clock(din_valid, Decoded(Incoming).kind = "sync" /\ ~Incoming.hurt,
               word_locked, last_verify /\ match, scrambler_mismatch)
    /\ last_valid_word' = IF din_valid THEN Decoded(Incoming) ELSE last_valid_word
    /\ Scrambler /\ Dout /\ CheckCrc
------------------------------------------------------------------------------
(* What the bench waits for on the damaged lane, one after the other. *)
Expected == <<"locked", "missing_sync", "missing_sync", "missing_sync",
              "crc32_error", "crc32_error", "scrambler_mismatch",
              "missing_sync", "missing_sync",
              "scrambler_mismatch", "scrambler_mismatch", "scrambler_mismatch",
              "lost", "locked">>

(* The signals that rise (or, for the lock, fall) at an edge. *)
Rising == (IF ~sync_locked /\ sync_locked' THEN {"locked"} ELSE {})
          \cup (IF sync_locked /\ ~sync_locked' THEN {"lost"} ELSE {})
          \cup (IF ~F!missing_sync /\ F!missing_sync' THEN {"missing_sync"} ELSE {})
          \cup (IF ~crc_error /\ crc_error' THEN {"crc32_error"} ELSE {})
          \cup (IF ~scrambler_mismatch /\ scrambler_mismatch' THEN {"scrambler_mismatch"} ELSE {})
Errors == {"missing_sync", "crc32_error", "scrambler_mismatch"}
Reseed == 9   \* the steps up to here answer one error each

Respond ==
    LET wanted == step < Len(Expected) /\ Expected[step + 1] \in Rising IN
    /\ step' = IF error_injection /\ wanted THEN step + 1 ELSE step
    /\ surprise' = (surprise \/ /\ error_injection /\ step \in 1..(Reseed - 1) /\ sync_locked
                                /\ Rising \cap Errors # {} /\ ~wanted)

(* The rules for the lanes without errors: "should sync lock after word lock *)
(* +4 good sync words, not earlier or later", within the expected window,    *)
(* and without any error flag from then on.  fail keeps what breaks any of   *)
(* them but "not later", which late keeps.                                   *)
TooEarly == words_to_sync_lock' < 3 * meta_frame_len
TooLate == words_to_sync_lock' > 4 * meta_frame_len
Rules ==
    /\ words_to_sync_lock' = IF ~word_locked THEN 0
                             ELSE IF ~sync_locked /\ dout_valid THEN words_to_sync_lock + 1
                             ELSE words_to_sync_lock
    /\ acquired' = (acquired \/ sync_locked')
    /\ fail' = (fail \/ /\ ~error_injection
                        /\ \/ ~acquired /\ sync_locked' /\ TooEarly
                           \/ sync_locked' /\ (F!missing_sync \/ crc_error \/ scrambler_mismatch)'
                           \/ pos > AlignWords + 4 * meta_frame_len + 1 /\ ~acquired)
    /\ late' = (late \/ (~error_injection /\ ~acquired /\ sync_locked' /\ TooLate))

Running == pass = "bench" /\ pos <= Whole /\ UNCHANGED trafficVars
(* word_align_control goes to LOCKED one clock after the word it counted last. *)
Aligning == /\ gap = 0 /\ pos > 1 /\ ~word_locked
            /\ word_locked' = TRUE /\ on_sync' = (framed[pos - 1].kind = "sync")

Word == /\ Running /\ gap \in Gaps
        /\ Receive(TRUE) /\ Respond /\ Rules
        /\ pos' = pos + 1 /\ gap' = 0 /\ UNCHANGED <<word_locked, on_sync>>
Idle == /\ Running /\ \E most \in Gaps : gap < most
        /\ Receive(FALSE) /\ Respond /\ Rules
        /\ gap' = gap + 1 /\ UNCHANGED pos
        /\ \/ Aligning
           \/ (word_locked \/ pos <= AlignWords) /\ UNCHANGED <<word_locked, on_sync>>

LaneInitial == Init /\ LaneInit
Next == (Traffic /\ UNCHANGED laneVars) \/ Word \/ Idle
Spec == LaneInitial /\ [][Next]_vars
------------------------------------------------------------------------------
(***************************************************************************)
(* Whatever the word lock, a lane without errors locks within the window   *)
(* and after three frames at least, and reports no CRC error, no mismatch  *)
(* and no missing sync word from then on, which needs the framing, the     *)
(* scrambling and the CRC of the program and the pipelines of the receiver *)
(* to agree word by word; only after a word lock that came with a sync     *)
(* word does the bench find the lock late.                                 *)
(***************************************************************************)
CleanLanesPass == ~fail /\ (late => on_sync)

(***************************************************************************)
(* "Lanes should sync lock after word lock +4 good sync words, not earlier *)
(* or later" (make_lane_traffic.cpp:598), which the bench takes for at     *)
(* most 4 frames (608): not so.  After a word lock that comes with a sync  *)
(* word the fourth good sync word is 4 frames and one word away.           *)
(***************************************************************************)
LockNotLate == ~late

(***************************************************************************)
(* The damaged lane answers every injected error with one report of its    *)
(* own, in the order of the schedule and with no other report in between;  *)
(* three sync words in a row, then two, do not cost the lock, the new      *)
(* scrambler sequence does, and the lane recovers before the file ends     *)
(* ("Correct recovery from incorrect scrambler state").                    *)
(***************************************************************************)
ErrorsAnswered ==
    error_injection => /\ ~surprise
                       /\ pass = "bench" /\ pos > Whole => step = Len(Expected)

(* "the data stream passing CRC is the original test string": what a locked *)
(* lane_rx hands out is the word the program framed, unless the scrambler   *)
(* has been put out of step.                                                *)
Recovered ==
    sync_locked /\ dout_valid
    /\ (step = Len(Expected) \/ framed[pos - 1].scr.seed = Started.seed)
    => dout.kind = framed[pos - 1].kind /\ dout.n = framed[pos - 1].n
=============================================================================
