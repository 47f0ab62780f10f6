----------------------------- MODULE WordScramble -----------------------------
(***************************************************************************)
(* Advanced Synthesis Cookbook/random/make_scrambler.cpp: the program      *)
(* draws a random order for the words of a period, works out how to undo   *)
(* it, and writes word_stream_scramble, a window of HIST_WORDS words read  *)
(* through pipelined_word_mux by a table of selects.  The two units of the *)
(* test bench word_stream_scramble_tb follow: a scrambler and behind it    *)
(* its counterpart.                                                        *)
(*                                                                         *)
(* A shift register of the program is a sequence, the value shifted in     *)
(* last at its head (data[0]); the words of the stream are numbers.        *)
(***************************************************************************)
EXTENDS Integers, Sequences, SequencesExt, Functions, FiniteSets

CONSTANTS MAX_DISPLACE, PERIOD,   \* 15 and 64
          WordLimit               \* the words are counted modulo this

ASSUME ScrambleAssumption ==
    /\ MAX_DISPLACE \in Nat \ {0} /\ PERIOD \in Nat /\ PERIOD >= 2 * MAX_DISPLACE + 2
    /\ WordLimit \in Nat \ {0}

VARIABLES
    pass, shifter, cycle, indices, data_stream,    \* build_scrambler
    undo_indices,                                  \* build_unscrambler
    table,                                         \* latency_adjustment
    din, history, pipe, sel, cntr, dout_active, dout_valid,
    got,      \* history: words taken from the second unit
    tripped   \* history: a unit was stopped at the count that starts it
progVars == <<pass, shifter, cycle, indices, data_stream, undo_indices, table>>
unitVars == <<din, history, pipe, sel, cntr, dout_active, dout_valid, got, tripped>>
scrambleVars == <<progVars, unitVars>>

Empty == -1
HIST_WORDS == 2 * MAX_DISPLACE + 1
Two[n \in Nat] == IF n = 0 THEN 1 ELSE 2 * Two[n - 1]     \* 1 << n
(* pseudo_log2: the bits of a number. *)
pseudo_log2(val) == CHOOSE len \in 0..val : val < Two[len] /\ (len = 0 \/ Two[len - 1] <= val)
NUM_SEL == pseudo_log2(HIST_WORDS - 1)
CNTR_BITS == pseudo_log2(PERIOD - 1)
Layers == (NUM_SEL + 1) \div 2       \* of pipelined_word_mux, SEL_PER_LAYER = 2
PaddedWords == Two[NUM_SEL]
Width(layer) == IF 2 * layer >= NUM_SEL THEN 1 ELSE Two[NUM_SEL - 2 * layer]

shift_in(reg, val) == <<val>> \o Front(reg)
Blank(depth) == [slot \in 1..depth |-> Empty]
Slot(reg, slot) == reg[slot + 1]     \* par_read
Units == {"scramble", "undo"}

(* A window that holds the first MAX_DISPLACE + 1 words and none before. *)
FirstWindow(words) == Reverse([k \in 1..(MAX_DISPLACE + 1) |-> words[k]]) \o Blank(MAX_DISPLACE)

Off == [history |-> [unit \in Units |-> Blank(HIST_WORDS)],
        pipe |-> [unit \in Units |-> [layer \in 1..Layers |->
                     [way \in 0..(Width(layer) - 1) |-> Empty]]]]

ScrambleInit == /\ pass = "scramble" /\ cycle = 0
        /\ shifter = FirstWindow([k \in 1..(MAX_DISPLACE + 1) |-> k - 1])
        /\ indices = <<>> /\ data_stream = <<>> /\ undo_indices = <<>>
        /\ table = [unit \in Units |-> <<>>]
        /\ din = 0 /\ history = Off.history /\ pipe = Off.pipe
        /\ sel = [unit \in Units |-> 0] /\ cntr = [unit \in Units |-> 0]
        /\ dout_active = [unit \in Units |-> FALSE] /\ dout_valid = [unit \in Units |-> FALSE]
        /\ got = 0 /\ tripped = FALSE
------------------------------------------------------------------------------
(* Mutant: the window is not moved back to its centre. *)
min_sel_never == 0
(* "force it to recenter at the end of the period". *)
min_sel == IF cycle >= PERIOD - MAX_DISPLACE
             THEN MAX_DISPLACE + 1 - (PERIOD - cycle) ELSE 0

(* Mutant: the last slot is drawn like the others. *)
NoDeadline == {}
(* The word in the last slot goes out now or never. *)
Deadline == {slot \in {2 * MAX_DISPLACE} : slot >= min_sel /\ Slot(shifter, slot) # Empty}
Drawn == {slot \in 0..(2 * MAX_DISPLACE - 1) : slot >= min_sel /\ Slot(shifter, slot) # Empty}
Candidates == IF Deadline # {} THEN Deadline ELSE Drawn

Select ==
    /\ pass = "scramble" /\ cycle < PERIOD
    /\ \E slot \in Candidates :
         /\ data_stream' = Append(data_stream, Slot(shifter, slot))
         /\ indices' = Append(indices, slot)
         /\ shifter' = shift_in([shifter EXCEPT ![slot + 1] = Empty], cycle + MAX_DISPLACE + 1)
    /\ cycle' = cycle + 1
    /\ UNCHANGED <<pass, undo_indices, table, unitVars>>

(* build_unscrambler starts over with the words that came out. *)
StartUndo == /\ pass = "scramble" /\ cycle = PERIOD
             /\ pass' = "undo" /\ cycle' = 0
             /\ shifter' = FirstWindow(data_stream)
             /\ UNCHANGED <<indices, data_stream, undo_indices, table, unitVars>>

IndexOf(val) == {slot \in 0..(2 * MAX_DISPLACE) : Slot(shifter, slot) = val}
index_of_value(val) == IF IndexOf(val) = {} THEN -1
                       ELSE CHOOSE slot \in IndexOf(val) : \A other \in IndexOf(val) : slot <= other

(* shift_out of an empty stream gives -1. *)
Undo == /\ pass = "undo" /\ cycle < PERIOD
        /\ undo_indices' = Append(undo_indices, index_of_value(cycle))
        /\ LET taken == cycle + MAX_DISPLACE + 2 IN
           shifter' = shift_in(shifter, IF taken <= PERIOD THEN data_stream[taken] ELSE Empty)
        /\ cycle' = cycle + 1
        /\ UNCHANGED <<pass, indices, data_stream, table, unitVars>>

Bits(val, low) == (val \div Two[low]) % 4
(* Mutant: all select bits at once. *)
SkewNone(order, k) == order[k]
(* Bits 2j and 2j+1 are j clocks later, for the j-th layer of the mux; *)
(* the tables turn by one for each clock.                              *)
Skew(order, k) ==
    LET At(late) == order[((k - 1 - late) % PERIOD) + 1]
        OfLayer[layer \in 0..Layers] ==
            IF layer = 0 THEN 0
            ELSE OfLayer[layer - 1] + Bits(At(layer - 1), 2 * (layer - 1)) * Two[2 * (layer - 1)]
    IN OfLayer[Layers]

(* The table as the program prints it, and the units as rst leaves them. *)
latency_adjustment(order) ==
    LET skewed == [k \in 1..PERIOD |-> Skew(order, k)] IN
    [k \in 1..PERIOD |-> skewed[((k - 1 - MAX_DISPLACE) % PERIOD) + 1]]
PrintTables == /\ pass = "undo" /\ cycle = PERIOD
          /\ pass' = "stream"
          /\ table' = [unit \in Units |->
                          latency_adjustment(IF unit = "undo" THEN undo_indices ELSE indices)]
          /\ UNCHANGED <<shifter, cycle, indices, data_stream, undo_indices, unitVars>>
------------------------------------------------------------------------------
dout(unit) == pipe[unit][Layers][0]
Source(unit, layer) ==    \* what the layer selects from
    IF layer = 1 THEN [way \in 0..(PaddedWords - 1) |->
                          IF way < HIST_WORDS THEN Slot(history[unit], way) ELSE Empty]
    ELSE pipe[unit][layer - 1]

StartCount == MAX_DISPLACE + (CNTR_BITS \div 2) + (CNTR_BITS % 2) - 1

(* One clock of both units: the second is enabled by the valid output of   *)
(* the first.  dout_active does not wait for ena.                          *)
Clock(ena) ==
    LET on == [unit \in Units |-> IF unit = "undo" THEN dout_valid["scramble"] ELSE ena]
        input == [unit \in Units |-> IF unit = "undo" THEN dout("scramble") ELSE din]
    IN /\ history' = [unit \in Units |-> IF on[unit] THEN shift_in(history[unit], input[unit])
                                         ELSE history[unit]]
       /\ pipe' = [unit \in Units |->
              IF ~on[unit] THEN pipe[unit] ELSE
              [layer \in 1..Layers |-> [way \in 0..(Width(layer) - 1) |->
                  Source(unit, layer)[(4 * way + Bits(sel[unit], 2 * (layer - 1)))]]]]
       /\ sel' = [unit \in Units |-> IF on[unit] /\ cntr[unit] < PERIOD
                                      THEN table[unit][cntr[unit] + 1] ELSE sel[unit]]
       /\ cntr' = [unit \in Units |-> IF on[unit] THEN (cntr[unit] + 1) % Two[CNTR_BITS]
                                      ELSE cntr[unit]]
       /\ dout_active' = [unit \in Units |-> dout_active[unit] \/ cntr[unit] = StartCount]
       /\ dout_valid' = [unit \in Units |-> dout_active[unit] /\ on[unit]]
       /\ tripped' = (tripped \/ \E unit \in Units :
                         ~on[unit] /\ ~dout_active[unit] /\ cntr[unit] = StartCount)
       /\ din' = IF ena THEN (din + 1) % WordLimit ELSE din
       /\ got' = IF dout_valid["undo"] THEN (got + 1) % WordLimit ELSE got

Stream(ena) == pass = "stream" /\ Clock(ena) /\ UNCHANGED progVars

ScrambleNext == Select \/ StartUndo \/ Undo \/ PrintTables \/ Stream(TRUE) \/ Stream(FALSE)
ScrambleSpec == ScrambleInit /\ [][ScrambleNext]_scrambleVars
------------------------------------------------------------------------------
(* "select anything not -1": the loop that draws a slot always finds one,  *)
(* also while it moves the window back to its centre.                      *)
SlotLeft == pass = "scramble" /\ cycle < PERIOD => Candidates # {}

(***************************************************************************)
(* The order drawn leaves no word of the period out and repeats none, and  *)
(* moves no word further than the window can reach back, so that the       *)
(* counterpart finds every word in its window and periods do not mix.      *)
(***************************************************************************)
Displaced ==
    /\ pass # "scramble" => /\ Cardinality(Range(data_stream)) = PERIOD
                            /\ Range(data_stream) \subseteq 0..(PERIOD - 1)
                            /\ \A k \in 1..PERIOD :
                                 data_stream[k] - (k - 1) \in -MAX_DISPLACE..MAX_DISPLACE
    /\ Empty \notin Range(undo_indices)

(* What one unit scrambles the other puts back: every word once, in order, *)
(* and the first valid word is the first word, with any stalls but one:    *)
(* see ValidIsFresh.                                                       *)
BackInOrder == dout_valid["undo"] /\ ~tripped => dout("undo") = got

(* "indicate (fresh) valid output data" (make_scrambler.cpp:404), whenever *)
(* the stream is stalled: not so, see the README.                          *)
ValidIsFresh == dout_valid["undo"] => dout("undo") = got
=============================================================================
