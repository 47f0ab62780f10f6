------------------------------ MODULE GearSearch ------------------------------
(***************************************************************************)
(* Advanced Synthesis Cookbook/communication: gear_expt.cpp looks for the  *)
(* schedule of gearbox_40_67, gear_expt2.cpp for that of gearbox_67_40.    *)
(* search(phase) tries, for every phase of the schedule, where to extract  *)
(* a word from the storage, how far to shift it and where to insert the    *)
(* next word, and goes back to the phase before when nothing fits.         *)
(*                                                                         *)
(* The storage, an array of booleans, is the set of the positions taken.   *)
(* The calls of search in progress are the sequence frames; cursor holds   *)
(* the loop variables aa, bb and c of the innermost.                       *)
(***************************************************************************)
EXTENDS Integers, Sequences, SequencesExt, FiniteSets

VARIABLES prog,       \* the program that runs, "none" when both have ended
          storage, holding, frames, cursor,
          schedule    \* what the programs have printed
searchVars == <<prog, storage, holding, frames, cursor, schedule>>

Programs == {"gear_expt", "gear_expt2"}
Both(expt, expt2) == IF prog = "gear_expt" THEN expt ELSE expt2
word_out_bits == Both(67, 40)
word_in_bits == Both(40, 67)
storage_len == 106
Phases == 68           \* search (68) is the end
ExtractPoints == Both(<<105, 92, 78>>, <<105, 95, 100>>)
Shifts == Both(<<47, 40, 34, 33>>, <<40, 45>>)
Inserts == Both(14, 32)
NoData == -1

InitialStorage(out_bits) == (storage_len - out_bits)..(storage_len - 1)
FirstChoice == [aa |-> 1, bb |-> 1, c |-> 0]

SearchInit == /\ prog = "gear_expt" /\ schedule = [which \in Programs |-> <<>>]
              /\ storage = InitialStorage(67) /\ holding = 67
              /\ frames = <<>> /\ cursor = FirstChoice
------------------------------------------------------------------------------
phase == Len(frames)

(* Mutant: a word is left until more bits are there. *)
ExtractsLate == holding > word_out_bits
Extracts == holding >= word_out_bits
Point == IF Extracts THEN ExtractPoints[cursor.aa] ELSE 0     \* "a is a don't care"
Taken == IF Extracts THEN (Point - word_out_bits + 1)..Point ELSE {}
Kept == storage \ Taken
Held == IF Extracts THEN holding - word_out_bits ELSE holding
extract_word == Taken \subseteq storage

Shift == Shifts[cursor.bb]
(* "SHL is losing most significant bits". *)
shl_storage == Kept \cap ((storage_len - Shift)..(storage_len - 1)) = {}
ShiftedBits == {bit + Shift : bit \in Kept} \cap (0..(storage_len - 1))

(* "skip the insert this round", only in gear_expt2. *)
Skips == prog = "gear_expt2" /\ Held >= word_out_bits
IncomingBits == {bit + cursor.c : bit \in 0..(word_in_bits - 1)}
insert_data == /\ Held > 0 => word_in_bits + cursor.c \in ShiftedBits
               /\ IncomingBits \subseteq 0..(storage_len - 1)
               /\ IncomingBits \cap ShiftedBits = {}

NextPoint(at) == [aa |-> at.aa + 1, bb |-> 1, c |-> 0]
NextShift(at) == IF at.bb < Len(Shifts) THEN [at EXCEPT !.bb = @ + 1, !.c = 0] ELSE NextPoint(at)
NextInsert(at) == IF at.c + 1 < Inserts THEN [at EXCEPT !.c = @ + 1] ELSE NextShift(at)

Exhausted == cursor.aa > Len(ExtractPoints)
Trying == prog \in Programs /\ phase < Phases /\ ~Exhausted

(* What does not fit rules out the choices that only differ further in. *)
Reject == /\ Trying
          /\ cursor' = CASE ~extract_word -> NextPoint(cursor)
                         [] extract_word /\ ~shl_storage -> NextShift(cursor)
                         [] OTHER -> NextInsert(cursor)
          /\ ~(extract_word /\ shl_storage /\ (Skips \/ insert_data))
          /\ UNCHANGED <<prog, storage, holding, frames, schedule>>

(* search (phase + 1), the state of this phase saved. *)
Call == /\ Trying /\ extract_word /\ shl_storage
        /\ Skips \/ insert_data
        /\ storage' = IF Skips THEN ShiftedBits ELSE ShiftedBits \cup IncomingBits
        /\ holding' = IF Skips THEN Held ELSE Held + word_in_bits
        /\ frames' = Append(frames, [storage |-> storage, holding |-> holding, cursor |-> cursor,
                                     extract_point |-> Point, store_shift |-> Shift,
                                     dat_shift |-> IF Skips THEN NoData ELSE cursor.c])
        /\ cursor' = FirstChoice
        /\ UNCHANGED <<prog, schedule>>

(* The search failed further on: restore the state, try what comes next. *)
Return == /\ prog \in Programs /\ phase < Phases /\ Exhausted /\ frames # <<>>
          /\ LET frame == Last(frames) IN
             /\ storage' = frame.storage /\ holding' = frame.holding
             /\ cursor' = IF frame.dat_shift = NoData THEN NextShift(frame.cursor)
                                                      ELSE NextInsert(frame.cursor)
          /\ frames' = Front(frames)
          /\ UNCHANGED <<prog, schedule>>
------------------------------------------------------------------------------
(* The codes of the selects, as the programs print them. *)
Coded == <<0, 1, 2, 3, 4, 13, 14, 15, 16, 17, 26, 27, 28, 29, 30>>
ds(dist) == IF prog = "gear_expt" THEN dist
            ELSE IF Contains(Coded, dist) THEN CHOOSE code \in 0..14 : Coded[code + 1] = dist ELSE 15
ss(dist) == IF prog = "gear_expt" THEN (CHOOSE code \in 0..3 : <<33, 34, 40, 47>>[code + 1] = dist)
            ELSE IF dist = 40 THEN 0 ELSE 1
EpCodes == Both(<<0, 78, 92, 105>>, <<95, 100, 105>>)
ep(point) == IF Contains(EpCodes, point) THEN (CHOOSE code \in 0..(Len(EpCodes) - 1) : EpCodes[code + 1] = point) ELSE 3

(* Mutant: the data is shifted in the clock it is merged. *)
EarlierNot(entry) == entry
(* "In hardware data shift is 1 tick earlier". *)
Earlier(entry) == (entry + 1) % (Phases - 1)

(* Phase 67 decides where phase 0 extracts. *)
Printed(done) ==
    LET At(entry) == done[entry + 1] IN
    [entry \in 0..(Phases - 2) |->
        [ds |-> ds(At(Earlier(entry)).dat_shift),
         ss |-> ss(At(entry).store_shift),
         ep |-> ep(At(IF entry = 0 THEN Phases - 1 ELSE entry).extract_point)]]

Finish(next_prog) ==
    /\ phase = Phases
    /\ schedule' = [schedule EXCEPT ![prog] = Printed(frames)]
    /\ frames' = <<>> /\ cursor' = FirstChoice
    /\ prog' = next_prog
    /\ storage' = IF next_prog = "gear_expt2" THEN InitialStorage(40) ELSE {}
    /\ holding' = IF next_prog = "gear_expt2" THEN 40 ELSE 0

FirstDone == prog = "gear_expt" /\ Finish("gear_expt2")
SecondDone == prog = "gear_expt2" /\ Finish("none")

SearchNext == Reject \/ Call \/ Return \/ FirstDone \/ SecondDone
=============================================================================
