----------------------------- MODULE LaneTraffic -----------------------------
(***************************************************************************)
(* Advanced Synthesis Cookbook/interlaken_lane/make_lane_traffic.cpp: the  *)
(* program that writes the stimulus of the lane_rx testbench.  Its passes  *)
(* run one after the other, from file to file: payload words are framed    *)
(* and scrambled, inverted to balance the line, and cut into lane blocks.  *)
(*                                                                         *)
(* A word is kept as what it is: kind, the number n of a payload word, the *)
(* crc a diagnostic word carries, the scrambler state scr that it carries  *)
(* or is scrambled with, and hurt, whether "^= 0x666" was applied.  A CRC  *)
(* is the sequence of what it covers, a scrambler state its seed and its   *)
(* age; different CRCs and states have different values.                   *)
(***************************************************************************)
EXTENDS Naturals, Sequences

CONSTANTS meta_frame_len, lane_bits,
          WordsWanted,   \* payload words: words_wanted, 5000 in main
          LockTime,      \* words before the first error: 2000
          Nybbles        \* nybbles of a 64 bit word: 16

ASSUME TrafficAssumption ==
    /\ meta_frame_len \in Nat /\ meta_frame_len >= 5
    /\ lane_bits \in Nat /\ lane_bits >= 8
    /\ {WordsWanted, LockTime} \subseteq Nat /\ Nybbles \in Nat \ {0}

VARIABLES
    pass,                                            \* of main
    error_injection, left, eof,                      \* lane_tx_frame
    meta_cntr, scrambler, crc32, error_schedule, framed,
    weights, lane_words,                             \* lane_tx_disparity
    line, nybble, residue, bits_residue, sent, block \* lane_tx_gearbox
frameVars == <<error_injection, left, eof, meta_cntr, scrambler, crc32, error_schedule, framed>>
disparityVars == <<weights, lane_words>>
gearVars == <<line, nybble, residue, bits_residue, sent, block>>
trafficVars == <<pass, frameVars, disparityVars, gearVars>>

words_written == Len(framed)
Started == [seed |-> "0x1234", age |-> 0]
Reseeded == [seed |-> "0x666", age |-> 0]

Init == /\ pass = "frame"
        /\ error_injection \in BOOLEAN /\ left = WordsWanted /\ eof = FALSE
        /\ meta_cntr = 0 /\ scrambler = Started /\ crc32 = <<>>
        /\ error_schedule = 0 /\ framed = <<>>
        /\ weights \in {"light", "heavy", "mixed"} /\ lane_words = <<>>
        /\ line = 1 /\ nybble = 0 /\ residue = <<>> /\ bits_residue = 0
        /\ sent = 0 /\ block = <<>>
------------------------------------------------------------------------------
(* lane_tx_frame.  What the CRC covers of a word: state words without the  *)
(* state, diagnostic words without the CRC.                                *)
Covered(kind, n, hurt) == [kind |-> kind, n |-> n, hurt |-> hurt]
Data == 1       \* the leading 1 or 0 of a line, as control_bits
Control == 2

Write(kind, bits, n, crc, scr, hurt) ==
    framed' = Append(framed, [kind |-> kind, bits |-> bits, n |-> n,
                              crc |-> crc, scr |-> scr, hurt |-> hurt, inv |-> FALSE])

(* "allow lock time before error injection". *)
Schedule == IF error_injection /\ error_schedule = 0 /\ words_written > LockTime
            THEN 1 ELSE error_schedule
Damage(schedule, at) == /\ error_schedule' = IF schedule \in at THEN schedule + 1 ELSE schedule

(* Mutant: the state moves on with payload words only. *)
EvolvedPayload == IF meta_cntr = meta_frame_len - 1 THEN scrambler
                  ELSE [scrambler EXCEPT !.age = @ + 1]
Evolved == [scrambler EXCEPT !.age = @ + 1]

Framing == pass = "frame" /\ ~eof
           /\ UNCHANGED <<pass, error_injection, disparityVars, gearVars>>

(* Mutant: the sync word of every second error is left alone. *)
SyncErrorsFew == {1, 3, 7, 8}
SyncErrors == {1, 2, 3, 7, 8}

SyncWord ==
    /\ Framing /\ meta_cntr = 0
    /\ LET hurt == Schedule \in SyncErrors IN
       /\ Write("sync", Control, 0, <<>>, Started, hurt)
       /\ crc32' = Append(crc32, Covered("sync", 0, hurt))
    /\ Damage(Schedule, SyncErrors)
    /\ meta_cntr' = 1
    /\ UNCHANGED <<left, eof, scrambler>>

(* The state word follows in the same pass of the loop; error 9 starts a   *)
(* new scrambler sequence, error 6 damages the word only.                  *)
StateWord ==
    /\ Framing /\ meta_cntr = 1
    /\ LET state == IF error_schedule = 9 THEN Reseeded ELSE scrambler IN
       /\ Write("state", Control, 0, <<>>, state, error_schedule = 6)
       /\ scrambler' = state
    /\ crc32' = Append(crc32, Covered("state", 0, FALSE))
    /\ Damage(error_schedule, {6, 9})
    /\ meta_cntr' = 2
    /\ UNCHANGED <<left, eof>>

SkipWord ==
    /\ Framing /\ meta_cntr = 2
    /\ Write("skip", Control, 0, <<>>, scrambler, error_schedule = 5)
    /\ crc32' = Append(crc32, Covered("skip", 0, FALSE))
    /\ Damage(error_schedule, {5})
    /\ meta_cntr' = 3 /\ scrambler' = Evolved
    /\ UNCHANGED <<left, eof>>

DiagWord ==
    /\ Framing /\ meta_cntr = meta_frame_len - 1
    /\ LET crc == Append(crc32, Covered("diag", 0, FALSE)) IN
       /\ Write("diag", Control, 0, crc, scrambler, Schedule = 4)
    /\ crc32' = <<>>   \* "crc start over"
    /\ Damage(Schedule, {4})
    /\ meta_cntr' = 0 /\ scrambler' = Evolved
    /\ UNCHANGED <<left, eof>>

PayloadWord ==
    /\ Framing /\ meta_cntr \in 3..(meta_frame_len - 2) /\ left > 0
    /\ LET n == WordsWanted - left IN
       /\ Write("data", Data, n, <<>>, scrambler, FALSE)
       /\ crc32' = Append(crc32, Covered("data", n, FALSE))
    /\ error_schedule' = Schedule
    /\ left' = left - 1
    /\ meta_cntr' = meta_cntr + 1 /\ scrambler' = Evolved
    /\ UNCHANGED eof

(* fgets finds no more line: feof ends the loop, wherever the frame is. *)
NoMoreLines ==
    /\ Framing /\ meta_cntr \in 3..(meta_frame_len - 2) /\ left = 0
    /\ eof' = TRUE
    /\ error_schedule' = Schedule /\ scrambler' = Evolved
    /\ UNCHANGED <<left, meta_cntr, crc32, framed>>

Framed == /\ pass = "frame" /\ eof /\ pass' = "disparity"
          /\ UNCHANGED <<frameVars, disparityVars, gearVars>>
------------------------------------------------------------------------------
(* lane_tx_disparity: running_disparity stays 0, so that every word with   *)
(* more ones than zeros is inverted: word_disparity, an odd number once    *)
(* the framing bits are counted, is negative for as many ones as zeros.    *)
Heavy(k) == weights = "heavy" \/ (weights = "mixed" /\ k % 3 # 1)

(* Mutant: the decoder is not told. *)
InvertUntold(word) == [word EXCEPT !.inv = TRUE]
Invert(word) == [word EXCEPT !.inv = TRUE, !.bits = @ + 4]   \* control_bits ^ 4

BalanceWord ==
    LET k == Len(lane_words) + 1 IN
    /\ pass = "disparity" /\ k <= Len(framed)
    /\ lane_words' = Append(lane_words, IF Heavy(k) THEN Invert(framed[k]) ELSE framed[k])
    /\ UNCHANGED <<pass, frameVars, weights, gearVars>>

Balanced == /\ pass = "disparity" /\ Len(lane_words) = Len(framed)
            /\ pass' = "gearbox"
            /\ UNCHANGED <<frameVars, disparityVars, gearVars>>
------------------------------------------------------------------------------
(* lane_tx_gearbox, on numbered bits: bit k of the file is number k.       *)
FramingBits == 3
WordBits == FramingBits + 4 * Nybbles
BitsOf(k) == IF k = 0 THEN FramingBits ELSE 4
(* residue is a u64: older bits are shifted out. *)
Latest(bits) == IF Len(bits) <= 64 THEN bits ELSE SubSeq(bits, Len(bits) - 63, Len(bits))

(* Mutant: the block is the newest bits. *)
CutNewest(bits, k) == SubSeq(bits, Len(bits) - lane_bits + 1, Len(bits))
(* The oldest lane_bits of the k bits kept. *)
Cut(bits, k) == SubSeq(bits, Len(bits) - k + 1, Len(bits) - k + lane_bits)

Enough(k) == k >= lane_bits

Nybble ==
    LET first == (line - 1) * WordBits + (IF nybble = 0 THEN 0 ELSE FramingBits + 4 * (nybble - 1))
        bits == Latest(residue \o [k \in 1..BitsOf(nybble) |-> first + k])
        held == bits_residue + BitsOf(nybble)
    IN /\ pass = "gearbox" /\ line <= Len(lane_words)
       /\ residue' = bits
       /\ IF nybble # 0 /\ Enough(held)
            THEN /\ block' = Cut(bits, held)
                 /\ sent' = sent + lane_bits
                 /\ bits_residue' = held - lane_bits
            ELSE bits_residue' = held /\ UNCHANGED <<block, sent>>
       /\ nybble' = (nybble + 1) % (Nybbles + 1)
       /\ line' = IF nybble = Nybbles THEN line + 1 ELSE line
       /\ UNCHANGED <<pass, frameVars, disparityVars>>

Geared == /\ pass = "gearbox" /\ line > Len(lane_words) /\ pass' = "bench"
          /\ UNCHANGED <<frameVars, disparityVars, gearVars>>

Traffic == \/ SyncWord \/ StateWord \/ SkipWord \/ DiagWord \/ PayloadWord
           \/ NoMoreLines \/ Framed \/ BalanceWord \/ Balanced \/ Nybble \/ Geared

(* The words whose bits are all in a block: a rest is never written. *)
Whole == sent \div WordBits
------------------------------------------------------------------------------
(***************************************************************************)
(* "Break up 67 bit words into (20) bit transmit blocks": the blocks are   *)
(* the bits of the words in order, none left out, repeated or overwritten  *)
(* in the 64 bits of residue, and less than a block is held back at any    *)
(* end of a word.                                                          *)
(***************************************************************************)
BitsInOrder ==
    /\ block # <<>> => block = [k \in 1..lane_bits |-> sent - lane_bits + k]
    /\ nybble = 0 => sent + bits_residue = (line - 1) * WordBits /\ bits_residue < lane_bits
=============================================================================
