-------------------------------- MODULE LaneRx --------------------------------
(***************************************************************************)
(* Advanced Synthesis Cookbook/interlaken_lane/lane_rx.v: the alignment of *)
(* a receive lane.  word_align_control and frame_sync_control work on the  *)
(* words of the gearbox, and the verdicts of scrambler_lfsr come back.     *)
(*                                                                         *)
(* The line: aligned says that the gearbox cuts the words where the        *)
(* transmitter joined them, tx_pos is the place in the metaframe of the    *)
(* next word (0: the sync word, 1: the scrambler state).  A damaged word   *)
(* may be misframed, is never taken for a sync word, and carries no valid  *)
(* scrambler state.  The gearbox makes a word of three pieces, so that     *)
(* there are always at least MinGap clocks between two.                    *)
(*                                                                         *)
(* History: run counts the framed words (positive) or misframed words      *)
(* (negative) in a row, recent holds the ages of the misframed ones of the *)
(* last Window words; settled says that the word lock has seen the end of  *)
(* a window.  goods and misses count the good and the missing sync words   *)
(* in a row.                                                               *)
(***************************************************************************)
EXTENDS Integers, FiniteSets

CONSTANTS Window, Limit, META_FRAME_LEN, MinGap

ASSUME LaneAssumption ==
    /\ Window \in Nat /\ Limit \in Nat \ {0} /\ Limit < Window
    /\ META_FRAME_LEN \in Nat /\ META_FRAME_LEN >= 4
    /\ MinGap \in Nat \ {0}

VARIABLES arst,
          align, word_cntr, word_cntr_max, sync_err_cntr,
          frame, sync_detected, last_din_valid, meta_cntr, meta_cntr_max,
          expect_sync_word, expect_scram_state, expect_diag,
          sync_tally, scramble_miss_cntr,
          lfsr_ok, last_verify, match,         \* scrambler_lfsr
          aligned, tx_pos, clean, gap,         \* the line
          run, recent, settled, goods, misses
alignVars == <<align, word_cntr, word_cntr_max, sync_err_cntr>>
frameVars == <<frame, sync_detected, last_din_valid, meta_cntr, meta_cntr_max,
               expect_sync_word, expect_scram_state, expect_diag,
               sync_tally, scramble_miss_cntr>>
scrVars == <<lfsr_ok, last_verify, match>>
lineVars == <<aligned, tx_pos, clean, gap>>
hist == <<run, recent, settled, goods, misses>>
vars == <<arst, alignVars, frameVars, scrVars, lineVars, hist>>

W == INSTANCE WordAlign WITH state <- align
F == INSTANCE FrameSync WITH state <- frame

word_locked == W!word_locked
sync_locked == F!sync_locked
(* Where the transmitter may be; of no interest while not aligned. *)
TxPlaces(a) == IF a THEN 0..(META_FRAME_LEN - 1) ELSE {0}
last_pos == (tx_pos - 1) % META_FRAME_LEN   \* of the word received last
------------------------------------------------------------------------------
Init == /\ arst = TRUE /\ W!Init /\ F!Init
        /\ lfsr_ok = FALSE /\ last_verify = FALSE /\ match = FALSE
        /\ aligned \in BOOLEAN /\ tx_pos \in TxPlaces(aligned) /\ clean = TRUE /\ gap = 0
        /\ run = 0 /\ recent = {} /\ settled = FALSE
        /\ goods = 0 /\ misses = 0

AssertArst ==
    /\ ~arst /\ arst' = TRUE /\ W!Reset /\ F!Reset
    /\ lfsr_ok' = FALSE /\ last_verify' = FALSE /\ match' = FALSE
    /\ aligned' \in BOOLEAN /\ tx_pos' \in TxPlaces(aligned') /\ clean' = TRUE /\ gap' = 0
    /\ run' = 0 /\ recent' = {} /\ settled' = FALSE
    /\ goods' = 0 /\ misses' = 0

ReleaseArst == arst /\ arst' = FALSE
               /\ UNCHANGED <<alignVars, frameVars, scrVars, lineVars, hist>>
------------------------------------------------------------------------------
Least(a, b) == IF a < b THEN a ELSE b
Longest == Window + Limit

(* scrambler_lfsr: loaded until the frame is locked, verified afterwards.  *)
(* lfsr_ok says that it is in step with the transmitter's: after it took   *)
(* the state from an undamaged state word, and as long as it moves on with *)
(* every other word and with no other.                                     *)
StateWord == aligned /\ clean /\ last_pos = 1
Scrambler ==
    /\ lfsr_ok' = IF F!scrambler_load /\ ~sync_locked THEN StateWord
                  ELSE lfsr_ok /\ (last_din_valid =>
                                     aligned /\ (F!scrambler_evolve <=> last_pos \notin {0, 1}))
    /\ last_verify' = (F!scrambler_load /\ sync_locked)
    /\ match' = (F!scrambler_load /\ sync_locked /\ lfsr_ok /\ StateWord)

History(din_valid, framed) ==
    /\ run' = IF ~din_valid THEN run
              ELSE IF framed THEN IF run < 0 THEN 1 ELSE Least(run + 1, Window)
              ELSE IF run > 0 THEN -1 ELSE -Least(1 - run, Longest)
    /\ recent' = IF ~din_valid THEN recent
                 ELSE {i + 1 : i \in recent \ {Window}} \cup (IF framed THEN {} ELSE {1})
    /\ settled' = (W!word_locked' /\ (settled \/ (word_locked /\ word_cntr_max)))
    /\ goods' = IF ~word_locked \/ F!missing_sync THEN 0
                ELSE IF F!good_sync THEN Least(goods + 1, 4) ELSE goods
    /\ misses' = IF ~sync_locked \/ F!good_sync THEN 0
                 ELSE IF F!missing_sync THEN misses + 1 ELSE misses

(* One edge of clk for both machines and the scrambler. *)
Machines(din_valid, is_sync, framed) ==
    /\ ~arst
    /\ W!Clock(din_valid, framed)
    /\ F!Clock(din_valid, is_sync, word_locked, last_verify /\ match, last_verify /\ ~match)
    /\ Scrambler
    /\ History(din_valid, framed)
    /\ UNCHANGED arst

(* The gearbox completes a word, damaged or not. *)
Word ==
    \E ok, framed \in BOOLEAN :
        /\ gap = MinGap
        /\ aligned /\ ok => framed
        /\ Machines(TRUE, aligned /\ ok /\ tx_pos = 0, framed)
        /\ clean' = ok /\ gap' = 0
        /\ tx_pos' = IF aligned THEN (tx_pos + 1) % META_FRAME_LEN ELSE tx_pos
        /\ UNCHANGED aligned

Idle == /\ Machines(FALSE, FALSE, FALSE)
        /\ gap' = Least(gap + 1, MinGap)
        /\ UNCHANGED <<aligned, tx_pos, clean>>

(* slip_to_frame: a first piece that is not framed, because the boundary   *)
(* is wrong or a bit is, restarts the word; the cut is somewhere else.     *)
Slip == /\ W!slip_to_frame
        /\ Machines(FALSE, FALSE, FALSE)
        /\ gap' = Least(gap + 1, MinGap)
        /\ clean' = ~aligned
        /\ aligned' \in BOOLEAN /\ tx_pos' \in TxPlaces(aligned')

Next == AssertArst \/ ReleaseArst \/ Word \/ Idle \/ Slip

(* The clock runs and words keep coming; no line quality is assumed. *)
Spec == Init /\ [][Next]_vars /\ WF_vars(Idle \/ Word) /\ WF_vars(Word)
------------------------------------------------------------------------------
(* A word lock comes "on 64 successful tests" (word_align_control.v:101),  *)
(* from a row of framed words and without an error in between, and a sync  *)
(* lock "after word lock + 4 good sync words, not earlier"                 *)
(* (lane_rx_tb.sv:140).                                                    *)
LocksEarned == /\ [][~word_locked /\ word_locked' => run = Window]_vars
               /\ [][~sync_locked /\ sync_locked' => goods = 4]_vars

(* "16 or more bad syncs in a 64 word window to indicate loss of lock"     *)
(* (word_align_control.v:106): a word lock is only given up for errors     *)
(* that came lately.                                                       *)
Lost == word_locked /\ ~word_locked' /\ ~arst'
LossJustified == [][Lost => Cardinality(recent) >= Limit]_vars

(***************************************************************************)
(* From its second window on a word lock is lost for the errors of one     *)
(* window and for no others; and "drop lock if there are 4 consecutive bad *)
(* sync words, 3 consecutive scrambler state problems"                     *)
(* (frame_sync_control.v:186), or no word lock, and never for less.        *)
(***************************************************************************)
LossesJustified ==
    /\ [][Lost /\ settled => Cardinality(recent) >= Limit]_vars
    /\ [][sync_locked /\ ~sync_locked' =>
             arst' \/ ~word_locked \/ misses = 4 \/ scramble_miss_cntr = 3]_vars

(* A lane that receives nothing but misframed words does not stay locked,  *)
(* wherever in the window they begin.                                      *)
DeafLockLeft == run = -Longest => ~word_locked

(***************************************************************************)
(* A receiver that verifies or has locked the frame counts the words with  *)
(* the transmitter, although its counter was frozen until it saw the sync  *)
(* word: the freeze ends before the next word comes.                       *)
(***************************************************************************)
InStep == frame \in {"VERIFY", "LOCKED"} /\ word_locked => aligned /\ meta_cntr = tx_pos

(* Once the line is good for good, the lane locks and stays locked, with   *)
(* the scrambler in step, whatever damage it has seen before.              *)
Settles == <>[](~arst /\ aligned /\ clean) => <>[](sync_locked /\ lfsr_ok)
=============================================================================
