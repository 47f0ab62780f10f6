-------------------------- MODULE WordScramble_proof --------------------------
(***************************************************************************)
(* TLAPS proofs about WordScramble, for a window and a period of any size: *)
(* the draw of build_scrambler never gets stuck (SlotLeft), the order it   *)
(* draws is one the counterpart can undo (Displaced), and the two units    *)
(* made from the tables give every word back in its order (BackInOrder).   *)
(*                                                                         *)
(* The last has an invariant that says what every register of a unit holds *)
(* after a number of its clocks (Run), and rests on three facts of number: *)
(* recursive functions on the naturals are what their definitions say, by  *)
(* induction over sets of numbers; a number put together of base 4 digits  *)
(* has them (DigitsHeld); remainders may be taken early (ModShift).        *)
(***************************************************************************)
EXTENDS WordScramble, WellFoundedInduction, FiniteSetTheorems, SequenceTheorems, TLAPS

Slots == 0..(2 * MAX_DISPLACE)
Windows == [1..HIST_WORDS -> Int]

(* A value shifted into a window moves the others up by one slot. *)
LEMMA ShiftIn ==
    ASSUME NEW reg \in Windows, NEW val \in Int
    PROVE  /\ shift_in(reg, val) \in Windows
           /\ Slot(shift_in(reg, val), 0) = val
           /\ \A slot \in Slots \ {0} : Slot(shift_in(reg, val), slot) = Slot(reg, slot - 1)
<1>1. HIST_WORDS \in Nat /\ HIST_WORDS = 2 * MAX_DISPLACE + 1 /\ HIST_WORDS >= 3
  BY ScrambleAssumption DEF HIST_WORDS
<1>2. reg \in Seq(Int) /\ Len(reg) = HIST_WORDS
  BY <1>1 DEF Windows
<1>3. /\ Front(reg) \in Seq(Int)
      /\ Len(Front(reg)) = HIST_WORDS - 1
      /\ \A k \in 1..(HIST_WORDS - 1) : Front(reg)[k] = reg[k]
  BY <1>1, <1>2, SubSeqProperties DEF Front, Windows
<1>4. <<val>> \in Seq(Int) /\ Len(<<val>>) = 1 /\ <<val>>[1] = val
  OBVIOUS
<1>5. /\ shift_in(reg, val) \in Seq(Int)
      /\ Len(shift_in(reg, val)) = HIST_WORDS
      /\ \A k \in 1..HIST_WORDS :
           shift_in(reg, val)[k] = IF k <= 1 THEN <<val>>[k] ELSE Front(reg)[k - 1]
  BY <1>1, <1>3, <1>4, ConcatProperties DEF shift_in
<1>6. shift_in(reg, val) \in Windows
  BY <1>1, <1>5 DEF Windows
<1>7. Slot(shift_in(reg, val), 0) = val
  BY <1>1, <1>4, <1>5 DEF Slot
<1>8. ASSUME NEW slot \in Slots \ {0}
      PROVE  Slot(shift_in(reg, val), slot) = Slot(reg, slot - 1)
  <2>1. slot + 1 \in 1..HIST_WORDS /\ ~(slot + 1 <= 1) /\ slot \in 1..(HIST_WORDS - 1)
    BY <1>1, ScrambleAssumption DEF Slots
  <2>2. shift_in(reg, val)[slot + 1] = Front(reg)[slot]
    BY <1>5, <2>1
  <2>3. Front(reg)[slot] = reg[slot]
    BY <1>3, <2>1
  <2> QED BY <2>1, <2>2, <2>3 DEF Slot
<1> QED BY <1>6, <1>7, <1>8

(* Two sequences, one behind the other. *)
LEMMA ConcatHolds ==
    ASSUME NEW n \in Nat, NEW m \in Nat, NEW s \in [1..n -> Int], NEW t \in [1..m -> Int]
    PROVE  /\ s \o t \in [1..(n + m) -> Int]
           /\ \A k \in 1..n : (s \o t)[k] = s[k]
           /\ \A k \in 1..m : (s \o t)[n + k] = t[k]
<1>1. s \in Seq(Int) /\ Len(s) = n /\ t \in Seq(Int) /\ Len(t) = m
  OBVIOUS
<1>2. /\ s \o t \in Seq(Int)
      /\ Len(s \o t) = Len(s) + Len(t)
      /\ \A k \in 1..(Len(s) + Len(t)) : (s \o t)[k] = IF k <= Len(s) THEN s[k] ELSE t[k - Len(s)]
  BY <1>1, ConcatProperties
<1>3. /\ Len(s \o t) = n + m
      /\ \A k \in 1..(n + m) : (s \o t)[k] = IF k <= n THEN s[k] ELSE t[k - n]
  BY <1>1, <1>2
<1>4. s \o t \in [1..Len(s \o t) -> Int]
  BY <1>2, LenProperties
<1>5. \A k \in 1..m : n + k \in 1..(n + m) /\ ~(n + k <= n) /\ (n + k) - n = k
  OBVIOUS
<1>6. \A k \in 1..m : (s \o t)[n + k] = t[k]
  BY <1>3, <1>5
<1> QED BY <1>3, <1>4, <1>6

(* A sequence turned round. *)
LEMMA ReverseHolds ==
    ASSUME NEW n \in Nat, NEW s \in [1..n -> Int]
    PROVE  /\ Reverse(s) \in [1..n -> Int]
           /\ \A k \in 1..n : Reverse(s)[k] = s[n - k + 1]
<1>1. Len(s) = n
  OBVIOUS
<1>2. \A k \in 1..n : n - k + 1 \in 1..n
  OBVIOUS
<1> QED BY <1>1, <1>2 DEF Reverse

(* FirstWindow holds the first words, the last of them in slot 0. *)
LEMMA FirstWindowHolds ==
    ASSUME NEW words, \A k \in 1..(MAX_DISPLACE + 1) : words[k] \in Int
    PROVE  /\ FirstWindow(words) \in Windows
           /\ \A slot \in Slots : Slot(FirstWindow(words), slot) =
                IF slot <= MAX_DISPLACE THEN words[MAX_DISPLACE + 1 - slot] ELSE Empty
<1> DEFINE n == MAX_DISPLACE + 1
           first == [k \in 1..n |-> words[k]]
           blank == Blank(MAX_DISPLACE)
<1>1. MAX_DISPLACE \in Nat /\ n \in Nat /\ HIST_WORDS = n + MAX_DISPLACE
  BY ScrambleAssumption DEF HIST_WORDS
<1>2. first \in [1..n -> Int]
  OBVIOUS
<1>3. /\ Reverse(first) \in [1..n -> Int]
      /\ \A k \in 1..n : Reverse(first)[k] = first[n - k + 1]
  BY <1>1, <1>2, ReverseHolds
<1>4. blank \in [1..MAX_DISPLACE -> Int] /\ \A k \in 1..MAX_DISPLACE : blank[k] = Empty
  BY DEF Blank, Empty
<1>5. FirstWindow(words) = Reverse(first) \o blank
  BY DEF FirstWindow
<1>6. /\ FirstWindow(words) \in [1..(n + MAX_DISPLACE) -> Int]
      /\ \A k \in 1..n : FirstWindow(words)[k] = Reverse(first)[k]
      /\ \A k \in 1..MAX_DISPLACE : FirstWindow(words)[n + k] = blank[k]
  <2> HIDE DEF first, blank, n
  <2>1. ASSUME NEW s \in [1..n -> Int], NEW t \in [1..MAX_DISPLACE -> Int]
        PROVE  /\ s \o t \in [1..(n + MAX_DISPLACE) -> Int]
               /\ \A k \in 1..n : (s \o t)[k] = s[k]
               /\ \A k \in 1..MAX_DISPLACE : (s \o t)[n + k] = t[k]
    BY <1>1, ConcatHolds
  <2>2. /\ Reverse(first) \o blank \in [1..(n + MAX_DISPLACE) -> Int]
        /\ \A k \in 1..n : (Reverse(first) \o blank)[k] = Reverse(first)[k]
        /\ \A k \in 1..MAX_DISPLACE : (Reverse(first) \o blank)[n + k] = blank[k]
    BY <1>3, <1>4, <2>1, Zenon
  <2> QED BY <1>5, <2>2, Zenon
<1>7. ASSUME NEW slot \in Slots
      PROVE  Slot(FirstWindow(words), slot) =
               IF slot <= MAX_DISPLACE THEN words[MAX_DISPLACE + 1 - slot] ELSE Empty
  <2>1. slot \in Int /\ 0 <= slot /\ slot + 1 \in 1..(n + MAX_DISPLACE)
    BY <1>1 DEF Slots
  <2>2. CASE slot <= MAX_DISPLACE
    <3>1. slot + 1 \in 1..n /\ n - (slot + 1) + 1 = MAX_DISPLACE + 1 - slot
          /\ MAX_DISPLACE + 1 - slot \in 1..n
      BY <1>1, <2>1, <2>2
    <3>2. FirstWindow(words)[slot + 1] = Reverse(first)[slot + 1]
      BY <1>6, <2>1, <3>1
    <3>3. Reverse(first)[slot + 1] = first[MAX_DISPLACE + 1 - slot]
      BY <1>3, <3>1
    <3> QED BY <2>2, <3>1, <3>2, <3>3 DEF Slot
  <2>3. CASE ~(slot <= MAX_DISPLACE)
    <3>1. slot + 1 - n \in 1..MAX_DISPLACE /\ n + (slot + 1 - n) = slot + 1
      BY <1>1, <2>1, <2>3
    <3>2. FirstWindow(words)[slot + 1] = blank[slot + 1 - n]
      BY <1>6, <3>1, Zenon
    <3> QED BY <1>4, <2>3, <3>1, <3>2 DEF Slot
  <2> QED BY <2>2, <2>3
<1> QED BY <1>1, <1>6, <1>7 DEF Windows
------------------------------------------------------------------------------
(* The slots of a window that hold a word. *)
Filled(window) == {slot \in Slots : Slot(window, slot) # Empty}

(* The words that have come out: none twice, none from another period, and *)
(* none further from its place than the window reaches.                    *)
Order(stream, done) ==
    /\ stream \in [1..done -> Int]
    /\ \A k \in 1..done : /\ stream[k] \in 0..(PERIOD - 1)
                          /\ stream[k] - (k - 1) \in -MAX_DISPLACE..MAX_DISPLACE
    /\ \A j \in 1..done, k \in 1..done : stream[j] = stream[k] => j = k

(* Of the words that have gone in the window holds, in their order, those  *)
(* that have not come out, and always as many.                             *)
Window == /\ shifter \in Windows
          /\ \A slot \in Filled(shifter) :
               /\ Slot(shifter, slot) = cycle + MAX_DISPLACE - slot
               /\ Slot(shifter, slot) >= 0
               /\ \A k \in 1..cycle : data_stream[k] # Slot(shifter, slot)
          /\ Cardinality(Filled(shifter)) = MAX_DISPLACE + 1

(* The second pass has the whole stream pass by in its window. *)
UndoWindow == /\ shifter \in Windows
              /\ \A slot \in Slots : LET k == cycle + MAX_DISPLACE + 1 - slot IN
                   Slot(shifter, slot) = IF k \in 1..PERIOD THEN data_stream[k] ELSE Empty

IInv == /\ pass \in {"scramble", "undo", "stream"} /\ cycle \in 0..PERIOD
        /\ Order(data_stream, IF pass = "scramble" THEN cycle ELSE PERIOD)
        /\ pass = "scramble" => Window
        /\ pass = "undo" => UndoWindow
        /\ undo_indices \in Seq(Slots)

LEMMA Sizes == /\ MAX_DISPLACE \in Nat /\ MAX_DISPLACE >= 1
               /\ PERIOD \in Nat /\ PERIOD >= 2 * MAX_DISPLACE + 2
BY ScrambleAssumption

(* One more word at the end. *)
LEMMA AppendHolds ==
    ASSUME NEW n \in Nat, NEW s \in [1..n -> Int], NEW e \in Int
    PROVE  /\ Append(s, e) \in [1..(n + 1) -> Int]
           /\ \A k \in 1..n : Append(s, e)[k] = s[k]
           /\ Append(s, e)[n + 1] = e
<1>1. s \in Seq(Int) /\ Len(s) = n
  OBVIOUS
<1>2. /\ Append(s, e) \in Seq(Int)
      /\ Len(Append(s, e)) = Len(s) + 1
      /\ \A k \in 1..Len(s) : Append(s, e)[k] = s[k]
      /\ Append(s, e)[Len(s) + 1] = e
  BY <1>1, AppendProperties
<1>3. Append(s, e) \in [1..Len(Append(s, e)) -> Int]
  BY <1>2, LenProperties
<1> QED BY <1>1, <1>2, <1>3

(* A whole stream holds every word of the period. *)
LEMMA WholeStream ==
    ASSUME NEW stream, Order(stream, PERIOD)
    PROVE  /\ Cardinality(Range(stream)) = PERIOD
           /\ Range(stream) = 0..(PERIOD - 1)
<1>1. IsFiniteSet(1..PERIOD) /\ Cardinality(1..PERIOD) = PERIOD
  <2>1. 1 \in Int /\ PERIOD \in Int /\ PERIOD >= 1
    BY Sizes
  <2> QED BY <2>1, FS_Interval
<1>2. IsFiniteSet(0..(PERIOD - 1)) /\ Cardinality(0..(PERIOD - 1)) = PERIOD
  <2>1. 0 \in Int /\ PERIOD - 1 \in Int /\ PERIOD - 1 >= 0
    BY Sizes
  <2>2. /\ IsFiniteSet(0..(PERIOD - 1))
        /\ Cardinality(0..(PERIOD - 1)) = IF 0 > PERIOD - 1 THEN 0 ELSE (PERIOD - 1) - 0 + 1
    BY <2>1, FS_Interval
  <2> QED BY <2>1, <2>2, Sizes
<1>3. stream \in [1..PERIOD -> 0..(PERIOD - 1)]
  BY DEF Order
<1>4. stream \in Injection(1..PERIOD, 0..(PERIOD - 1))
  BY <1>3 DEF Order, Injection, IsInjective
<1>5. stream \in Surjection(1..PERIOD, 0..(PERIOD - 1))
  BY <1>1, <1>2, <1>4, FS_Injection
<1>6. Range(stream) = 0..(PERIOD - 1)
  BY <1>3, <1>5 DEF Range, Surjection
<1> QED BY <1>2, <1>6

(* A window with a slot emptied. *)
Cleared(reg, slot) == [reg EXCEPT ![slot + 1] = Empty]

(* Taking a word out of the window and shifting another in moves the slots *)

(* that are filled up by one and keeps their number, if the last is not    *)
(* left filled.                                                            *)
LEMMA Refilled ==
    ASSUME NEW reg \in Windows, NEW slot \in Filled(reg), NEW val \in Int, val # Empty,
           2 * MAX_DISPLACE \in Filled(reg) => slot = 2 * MAX_DISPLACE,
           Cardinality(Filled(reg)) = MAX_DISPLACE + 1,
           NEW next, next = shift_in(Cleared(reg, slot), val)
    PROVE  /\ next \in Windows
           /\ Slot(next, 0) = val
           /\ \A s \in Filled(next) \ {0} : /\ s - 1 \in Filled(reg) \ {slot}
                                            /\ Slot(next, s) = Slot(reg, s - 1)
           /\ Cardinality(Filled(next)) = MAX_DISPLACE + 1
<1> DEFINE rest == Filled(reg) \ {slot}
           moved == {s + 1 : s \in rest}
           cleared == Cleared(reg, slot)
<1>1. slot \in Slots /\ \A s \in Slots : s \in Int /\ s >= 0 /\ s <= 2 * MAX_DISPLACE
                                         /\ s + 1 \in 1..HIST_WORDS
  BY Sizes DEF Filled, Slots, HIST_WORDS
<1>2. cleared \in Windows
  BY <1>1 DEF Windows, Empty, Cleared
<1>3. \A s \in Slots : Slot(cleared, s) = IF s = slot THEN Empty ELSE Slot(reg, s)
  BY <1>1 DEF Windows, Slot, Cleared
<1>4. /\ next \in Windows
      /\ Slot(next, 0) = val
      /\ \A s \in Slots \ {0} : Slot(next, s) = Slot(cleared, s - 1)
  BY <1>2, ShiftIn
<1>5. \A s \in Slots \ {0} : s - 1 \in Slots
  BY Sizes DEF Slots
<1>6. \A s \in rest : s + 1 \in Slots \ {0} /\ (s + 1) - 1 = s
  BY Sizes, <1>1 DEF Filled, Slots
<1>7. \A s \in Filled(next) \ {0} : s - 1 \in rest /\ Slot(next, s) = Slot(reg, s - 1)
  BY <1>3, <1>4, <1>5 DEF Filled
<1>8. Filled(next) = moved \cup {0}
  <2>1. 0 \in Filled(next)
    BY <1>4, Sizes DEF Filled, Slots
  <2>2. \A s \in rest : s + 1 \in Filled(next)
    BY <1>3, <1>4, <1>6 DEF Filled
  <2>3. \A s \in Filled(next) \ {0} : s \in moved
    <3> TAKE s \in Filled(next) \ {0}
    <3>1. s \in Int /\ s = (s - 1) + 1
      BY <1>1 DEF Filled
    <3> QED BY <1>7, <3>1
  <2> QED BY <2>1, <2>2, <2>3
<1>9. IsFiniteSet(rest) /\ Cardinality(rest) = MAX_DISPLACE
  <2>1. IsFiniteSet(Slots)
    BY Sizes, FS_Interval DEF Slots
  <2>2. IsFiniteSet(Filled(reg))
    BY <2>1, FS_Subset DEF Filled
  <2>3. /\ IsFiniteSet(rest)
        /\ Cardinality(rest) = Cardinality(Filled(reg)) - 1
    BY <2>2, FS_RemoveElement
  <2> QED BY <2>3, Sizes
<1>10. IsFiniteSet(moved) /\ Cardinality(moved) = MAX_DISPLACE
  <2> DEFINE up == [s \in rest |-> s + 1]
  <2>1. \A s \in rest : s \in Int
    BY <1>1 DEF Filled
  <2>2. up \in Bijection(rest, moved)
    <3>1. up \in [rest -> moved]
      OBVIOUS
    <3>2. IsInjective(up)
      BY <2>1 DEF IsInjective
    <3>3. \A n \in moved : \E s \in rest : up[s] = n
      OBVIOUS
    <3> QED BY <3>1, <3>2, <3>3 DEF Bijection, Injection, Surjection
  <2>3. ExistsBijection(rest, moved)
    BY <2>2 DEF ExistsBijection
  <2> QED BY <1>9, <2>3, FS_Bijection
<1>11. 0 \notin moved
  BY <1>6
<1>12. Cardinality(Filled(next)) = MAX_DISPLACE + 1
  BY <1>8, <1>10, <1>11, FS_AddElement
<1> QED BY <1>4, <1>7, <1>12

(* There is a word the draw may take; the last slot has no other choice.   *)
LEMMA Drawable ==
    ASSUME IInv, pass = "scramble", cycle < PERIOD
    PROVE  /\ min_sel \in 0..MAX_DISPLACE
           /\ Candidates # {}
           /\ \A slot \in Candidates :
                /\ slot \in Filled(shifter) /\ slot >= min_sel
                /\ 2 * MAX_DISPLACE \in Filled(shifter) => slot = 2 * MAX_DISPLACE
<1>1. cycle \in Int /\ 0 <= cycle /\ cycle < PERIOD
  BY Sizes DEF IInv
<1>2. min_sel \in 0..MAX_DISPLACE
  BY <1>1, Sizes DEF min_sel
<1>3. \A slot \in Candidates :
        /\ slot \in Filled(shifter) /\ slot >= min_sel
        /\ 2 * MAX_DISPLACE \in Filled(shifter) => slot = 2 * MAX_DISPLACE
  BY <1>2, Sizes DEF Candidates, Deadline, Drawn, Filled, Slots
<1>4. ASSUME Candidates = {} PROVE FALSE
  <2>1. Filled(shifter) \subseteq 0..(MAX_DISPLACE - 1)
    BY <1>2, <1>4, Sizes DEF Candidates, Deadline, Drawn, Filled, Slots
  <2>2. /\ IsFiniteSet(0..(MAX_DISPLACE - 1))
        /\ Cardinality(0..(MAX_DISPLACE - 1)) = MAX_DISPLACE
    <3>1. 0 \in Int /\ MAX_DISPLACE - 1 \in Int /\ MAX_DISPLACE - 1 >= 0
      BY Sizes
    <3>2. /\ IsFiniteSet(0..(MAX_DISPLACE - 1))
          /\ Cardinality(0..(MAX_DISPLACE - 1)) =
               IF 0 > MAX_DISPLACE - 1 THEN 0 ELSE (MAX_DISPLACE - 1) - 0 + 1
      BY <3>1, FS_Interval
    <3> QED BY <3>1, <3>2, Sizes
  <2>3. Cardinality(Filled(shifter)) <= MAX_DISPLACE
    BY <2>1, <2>2, FS_Subset
  <2> QED BY <2>3, Sizes DEF IInv, Window
<1> QED BY <1>2, <1>3, <1>4
------------------------------------------------------------------------------
(* The invariant holds at first, and every step of the program keeps it.   *)
LEMMA InitHolds == ScrambleInit => IInv
<1> SUFFICES ASSUME ScrambleInit PROVE IInv
  OBVIOUS
<1> DEFINE words == [k \in 1..(MAX_DISPLACE + 1) |-> k - 1]
<1>1. pass = "scramble" /\ cycle = 0 /\ cycle \in 0..PERIOD /\ shifter = FirstWindow(words)
      /\ data_stream = <<>> /\ undo_indices \in Seq(Slots)
  BY Sizes DEF ScrambleInit
<1>2. Order(data_stream, 0)
  BY <1>1 DEF Order
<1>3. /\ shifter \in Windows
      /\ \A slot \in Slots : Slot(shifter, slot) =
           IF slot <= MAX_DISPLACE THEN words[MAX_DISPLACE + 1 - slot] ELSE Empty
  <2>1. \A k \in 1..(MAX_DISPLACE + 1) : words[k] \in Int
    OBVIOUS
  <2> QED BY <1>1, <2>1, FirstWindowHolds
<1>4. \A slot \in 0..MAX_DISPLACE : slot \in Slots /\ Slot(shifter, slot) = MAX_DISPLACE - slot
  <2> TAKE slot \in 0..MAX_DISPLACE
  <2>1. slot \in Slots /\ slot <= MAX_DISPLACE
    BY Sizes DEF Slots
  <2>2. /\ MAX_DISPLACE + 1 - slot \in 1..(MAX_DISPLACE + 1)
        /\ words[MAX_DISPLACE + 1 - slot] = MAX_DISPLACE - slot
    BY Sizes
  <2>3. Slot(shifter, slot) = words[MAX_DISPLACE + 1 - slot]
    BY <1>3, <2>1
  <2> QED BY <2>1, <2>2, <2>3
<1>5. Filled(shifter) = 0..MAX_DISPLACE
  <2>1. \A slot \in Slots : slot \in 0..MAX_DISPLACE <=> slot <= MAX_DISPLACE
    BY Sizes DEF Slots
  <2>2. \A slot \in 0..MAX_DISPLACE : slot \in Filled(shifter)
    <3> TAKE slot \in 0..MAX_DISPLACE
    <3>1. MAX_DISPLACE - slot >= 0 /\ MAX_DISPLACE - slot # Empty
      BY Sizes DEF Empty
    <3> QED BY <1>4, <3>1 DEF Filled
  <2>3. \A slot \in Filled(shifter) : slot \in 0..MAX_DISPLACE
    BY <1>3, <2>1 DEF Filled
  <2> QED BY <2>2, <2>3
<1>6. Cardinality(Filled(shifter)) = MAX_DISPLACE + 1
  <2>1. Cardinality(0..MAX_DISPLACE) = IF 0 > MAX_DISPLACE THEN 0 ELSE MAX_DISPLACE - 0 + 1
    BY Sizes, FS_Interval
  <2> QED BY <1>5, <2>1, Sizes
<1>7. Window
  BY <1>1, <1>3, <1>4, <1>5, <1>6, Sizes DEF Window
<1> QED BY <1>1, <1>2, <1>7 DEF IInv

LEMMA SelectHolds == ASSUME IInv, Select PROVE IInv'
<1>1. /\ pass = "scramble" /\ pass' = "scramble" /\ cycle' = cycle + 1
      /\ cycle \in Int /\ 0 <= cycle /\ cycle < PERIOD /\ undo_indices' = undo_indices
  BY Sizes DEF IInv, Select
<1>2. PICK slot \in Candidates :
        /\ data_stream' = Append(data_stream, Slot(shifter, slot))
        /\ shifter' = shift_in([shifter EXCEPT ![slot + 1] = Empty], cycle + MAX_DISPLACE + 1)
  BY DEF Select
<1> DEFINE word == Slot(shifter, slot)
<1>3. Window /\ Order(data_stream, cycle)
  BY <1>1 DEF IInv
<1>4. /\ slot \in Filled(shifter) /\ slot \in Int /\ slot >= min_sel /\ min_sel \in 0..MAX_DISPLACE
      /\ 0 <= slot /\ slot <= 2 * MAX_DISPLACE
      /\ 2 * MAX_DISPLACE \in Filled(shifter) => slot = 2 * MAX_DISPLACE
  BY <1>1, Drawable DEF Filled, Slots
<1>5. word = cycle + MAX_DISPLACE - slot /\ word \in Int /\ word >= 0
  BY <1>1, <1>3, <1>4, Sizes DEF Window
<1>6. word \in 0..(PERIOD - 1) /\ word - cycle \in -MAX_DISPLACE..MAX_DISPLACE
  BY <1>1, <1>4, <1>5, Sizes DEF min_sel
<1>7. /\ data_stream' \in [1..(cycle + 1) -> Int]
      /\ \A k \in 1..cycle : data_stream'[k] = data_stream[k]
      /\ data_stream'[cycle + 1] = word
  <2>1. cycle \in Nat /\ data_stream \in [1..cycle -> Int]
    BY <1>1, <1>3 DEF Order
  <2> HIDE DEF word
  <2>2. data_stream' = Append(data_stream, word)
    BY <1>2 DEF word
  <2> QED BY <1>5, <2>1, <2>2, AppendHolds
<1>8. \A k \in 1..(cycle + 1) : k \in 1..cycle \/ k = cycle + 1
  BY <1>1
<1>9. Order(data_stream', cycle + 1)
  <2>1. \A k \in 1..(cycle + 1) : /\ data_stream'[k] \in 0..(PERIOD - 1)
                                  /\ data_stream'[k] - (k - 1) \in -MAX_DISPLACE..MAX_DISPLACE
    <3>1. (cycle + 1) - 1 = cycle
      BY <1>1
    <3> QED BY <1>3, <1>6, <1>7, <1>8, <3>1 DEF Order
  <2>2. \A k \in 1..cycle : data_stream[k] # word
    BY <1>3, <1>4 DEF Window
  <2>3. ASSUME NEW j \in 1..(cycle + 1), NEW k \in 1..(cycle + 1), data_stream'[j] = data_stream'[k]
        PROVE  j = k
    BY <1>3, <1>7, <1>8, <2>2, <2>3 DEF Order
  <2> QED BY <1>7, <2>1, <2>3 DEF Order
<1>10. /\ shifter' \in Windows
       /\ Slot(shifter', 0) = cycle + MAX_DISPLACE + 1
       /\ \A s \in Filled(shifter') \ {0} : /\ s - 1 \in Filled(shifter) \ {slot}
                                            /\ Slot(shifter', s) = Slot(shifter, s - 1)
       /\ Cardinality(Filled(shifter')) = MAX_DISPLACE + 1
  <2>1. cycle + MAX_DISPLACE + 1 \in Int /\ cycle + MAX_DISPLACE + 1 # Empty
    BY <1>1, Sizes DEF Empty
  <2>2. shifter \in Windows /\ Cardinality(Filled(shifter)) = MAX_DISPLACE + 1
    BY <1>3 DEF Window
  <2>3. shifter' = shift_in(Cleared(shifter, slot), cycle + MAX_DISPLACE + 1)
    BY <1>2 DEF Cleared
  <2> QED BY <1>4, <2>1, <2>2, <2>3, Refilled
<1>11. ASSUME NEW s \in Filled(shifter')
       PROVE  /\ Slot(shifter', s) = cycle + 1 + MAX_DISPLACE - s
              /\ Slot(shifter', s) >= 0
              /\ \A k \in 1..(cycle + 1) : data_stream'[k] # Slot(shifter', s)
  <2>0. s \in Int
    BY DEF Filled, Slots
  <2>1. CASE s = 0
    <3>1. \A k \in 1..(cycle + 1) :
            data_stream'[k] \in Int /\ data_stream'[k] <= cycle + MAX_DISPLACE
      <4> TAKE k \in 1..(cycle + 1)
      <4>1. /\ data_stream'[k] \in Int
            /\ data_stream'[k] - (k - 1) \in -MAX_DISPLACE..MAX_DISPLACE
        BY <1>9 DEF Order
      <4> QED BY <1>1, <4>1, Sizes
    <3> QED BY <1>1, <1>10, <2>1, <3>1, Sizes
  <2>2. CASE s # 0
    <3>1. /\ s - 1 \in Filled(shifter) /\ s - 1 # slot
          /\ Slot(shifter', s) = Slot(shifter, s - 1)
      BY <1>10, <2>2
    <3>2. /\ Slot(shifter, s - 1) = cycle + MAX_DISPLACE - (s - 1)
          /\ Slot(shifter, s - 1) >= 0
          /\ \A k \in 1..cycle : data_stream[k] # Slot(shifter, s - 1)
      BY <1>3, <3>1 DEF Window
    <3>3. word # Slot(shifter, s - 1)
      BY <1>1, <1>4, <1>5, <2>0, <3>1, <3>2, Sizes
    <3>4. Slot(shifter', s) = cycle + 1 + MAX_DISPLACE - s
      BY <1>1, <2>0, <3>1, <3>2, Sizes
    <3>5. \A k \in 1..(cycle + 1) : data_stream'[k] # Slot(shifter, s - 1)
      BY <1>7, <1>8, <3>2, <3>3
    <3> QED BY <3>1, <3>2, <3>4, <3>5
  <2> QED BY <2>1, <2>2
<1>12. Window'
  BY <1>1, <1>10, <1>11 DEF Window
<1>13. cycle' \in 0..PERIOD
  BY <1>1, Sizes
<1> QED BY <1>1, <1>9, <1>12, <1>13 DEF IInv

LEMMA StartUndoHolds == ASSUME IInv, StartUndo PROVE IInv'
<1>1. /\ pass = "scramble" /\ cycle = PERIOD /\ pass' = "undo" /\ cycle' = 0
      /\ shifter' = FirstWindow(data_stream)
      /\ data_stream' = data_stream /\ undo_indices' = undo_indices
      /\ Order(data_stream, PERIOD)
  BY DEF IInv, StartUndo
<1>2. /\ shifter' \in Windows
      /\ \A slot \in Slots : Slot(shifter', slot) =
           IF slot <= MAX_DISPLACE THEN data_stream[MAX_DISPLACE + 1 - slot] ELSE Empty
  <2>1. \A k \in 1..(MAX_DISPLACE + 1) : data_stream[k] \in Int
    BY <1>1, Sizes DEF Order
  <2> QED BY <1>1, <2>1, FirstWindowHolds
<1>3. \A slot \in Slots : /\ 0 + MAX_DISPLACE + 1 - slot = MAX_DISPLACE + 1 - slot
                          /\ MAX_DISPLACE + 1 - slot \in 1..PERIOD <=> slot <= MAX_DISPLACE
  BY Sizes DEF Slots
<1>4. UndoWindow'
  BY <1>1, <1>2, <1>3 DEF UndoWindow
<1> QED BY <1>1, <1>4, Sizes DEF IInv

(* The word the counterpart looks for is in its window, in one slot only,  *)

(* which leads back to the place where the word came out.                  *)
LEMMA IndexFound ==
    ASSUME IInv, pass = "undo", cycle < PERIOD
    PROVE  /\ index_of_value(cycle) \in Slots
           /\ LET place == cycle + 1 + MAX_DISPLACE - index_of_value(cycle) IN
                place \in 1..PERIOD /\ data_stream[place] = cycle
<1>1. /\ UndoWindow /\ Order(data_stream, PERIOD)
      /\ cycle \in Int /\ 0 <= cycle /\ cycle < PERIOD /\ cycle \in 0..(PERIOD - 1)
  BY Sizes DEF IInv
<1>2. PICK k \in 1..PERIOD : data_stream[k] = cycle
  <2>1. cycle \in Range(data_stream)
    BY <1>1, WholeStream
  <2> QED BY <1>1, <2>1 DEF Range, Order
<1> DEFINE slot == cycle + MAX_DISPLACE + 1 - k
<1>3. slot \in Slots /\ cycle + MAX_DISPLACE + 1 - slot = k
  <2>1. cycle - (k - 1) \in -MAX_DISPLACE..MAX_DISPLACE
    BY <1>1, <1>2 DEF Order
  <2> QED BY <1>1, <2>1, Sizes DEF Slots
<1>4. Slot(shifter, slot) = cycle
  <2> HIDE DEF slot
  <2> QED BY <1>1, <1>2, <1>3 DEF UndoWindow
<1>5. ASSUME NEW other \in Slots, Slot(shifter, other) = cycle
      PROVE  other = slot
  <2> DEFINE j == cycle + MAX_DISPLACE + 1 - other
  <2>1. cycle # Empty
    BY <1>1 DEF Empty
  <2>2. Slot(shifter, other) = IF j \in 1..PERIOD THEN data_stream[j] ELSE Empty
    BY <1>1 DEF UndoWindow
  <2>3. j \in 1..PERIOD /\ data_stream[j] = cycle
    <3> HIDE DEF j
    <3> QED BY <1>5, <2>1, <2>2
  <2>4. j = k
    <3> HIDE DEF j
    <3> QED BY <1>1, <1>2, <2>3 DEF Order
  <2> QED BY <1>1, <2>4, Sizes DEF Slots
<1>6. IndexOf(cycle) = {slot}
  <2> HIDE DEF slot
  <2> QED BY <1>3, <1>4, <1>5 DEF IndexOf, Slots
<1>7. slot <= slot
  BY <1>3 DEF Slots
<1> QED
  <2> HIDE DEF slot
  <2>1. index_of_value(cycle) = CHOOSE s \in {slot} : \A other \in {slot} : s <= other
    BY <1>6 DEF index_of_value
  <2>2. index_of_value(cycle) = slot
    BY <1>7, <2>1
  <2>3. cycle + 1 + MAX_DISPLACE - slot = k
    BY <1>1, <1>3, Sizes DEF Slots
  <2> QED BY <1>2, <1>3, <2>2, <2>3

LEMMA UndoHolds == ASSUME IInv, Undo PROVE IInv'
<1> DEFINE taken == cycle + MAX_DISPLACE + 2
           val == IF taken <= PERIOD THEN data_stream[taken] ELSE Empty
<1>1. /\ pass = "undo" /\ pass' = "undo" /\ cycle' = cycle + 1
      /\ cycle \in Int /\ 0 <= cycle /\ cycle < PERIOD
      /\ undo_indices' = Append(undo_indices, index_of_value(cycle))
      /\ shifter' = shift_in(shifter, val)
      /\ data_stream' = data_stream
      /\ UndoWindow /\ Order(data_stream, PERIOD) /\ undo_indices \in Seq(Slots)
  BY Sizes DEF IInv, Undo
<1>2. taken \in 1..PERIOD <=> taken <= PERIOD
  BY <1>1, Sizes
<1>3. val \in Int
  BY <1>1, <1>2 DEF Order, Empty
<1>4. /\ shifter' \in Windows
      /\ Slot(shifter', 0) = val
      /\ \A slot \in Slots \ {0} : Slot(shifter', slot) = Slot(shifter, slot - 1)
  <2> HIDE DEF val
  <2>1. shifter \in Windows
    BY <1>1 DEF UndoWindow
  <2> QED BY <1>1, <1>3, <2>1, ShiftIn
<1>5. ASSUME NEW slot \in Slots
      PROVE  Slot(shifter', slot) = IF cycle + 1 + MAX_DISPLACE + 1 - slot \in 1..PERIOD
               THEN data_stream[cycle + 1 + MAX_DISPLACE + 1 - slot] ELSE Empty
  <2>1. CASE slot = 0
    <3>1. cycle + 1 + MAX_DISPLACE + 1 - slot = taken
      BY <1>1, <2>1, Sizes
    <3> QED BY <1>2, <1>4, <2>1, <3>1
  <2>2. CASE slot # 0
    <3>1. slot - 1 \in Slots
          /\ cycle + MAX_DISPLACE + 1 - (slot - 1) = cycle + 1 + MAX_DISPLACE + 1 - slot
      BY <1>1, <2>2, Sizes DEF Slots
    <3>2. Slot(shifter, slot - 1) = IF cycle + MAX_DISPLACE + 1 - (slot - 1) \in 1..PERIOD
            THEN data_stream[cycle + MAX_DISPLACE + 1 - (slot - 1)] ELSE Empty
      BY <1>1, <3>1 DEF UndoWindow
    <3>3. Slot(shifter', slot) = Slot(shifter, slot - 1)
      BY <1>4, <2>2
    <3> QED BY <3>1, <3>2, <3>3
  <2> QED BY <2>1, <2>2
<1>6. UndoWindow'
  BY <1>1, <1>4, <1>5 DEF UndoWindow
<1>7. undo_indices' \in Seq(Slots)
  BY <1>1, IndexFound, AppendProperties
<1>8. cycle' \in 0..PERIOD
  BY <1>1, Sizes
<1> QED BY <1>1, <1>6, <1>7, <1>8 DEF IInv

(* The invariant is inductive. *)
LEMMA NextHolds == IInv /\ [ScrambleNext]_scrambleVars => IInv'
<1> SUFFICES ASSUME IInv, [ScrambleNext]_scrambleVars PROVE IInv'
  OBVIOUS
<1>1. CASE Select
  BY <1>1, SelectHolds
<1>2. CASE StartUndo
  BY <1>2, StartUndoHolds
<1>3. CASE Undo
  BY <1>3, UndoHolds
<1>4. CASE PrintTables
  BY <1>4 DEF PrintTables, IInv
<1>5. CASE Stream(TRUE) \/ Stream(FALSE)
  BY <1>5 DEF Stream, progVars, IInv, Window, UndoWindow
<1>6. CASE UNCHANGED scrambleVars
  BY <1>6 DEF scrambleVars, progVars, IInv, Window, UndoWindow
<1> QED BY <1>1, <1>2, <1>3, <1>4, <1>5, <1>6 DEF ScrambleNext

LEMMA IInvImplies == IInv => SlotLeft /\ Displaced
<1> SUFFICES ASSUME IInv PROVE SlotLeft /\ Displaced
  OBVIOUS
<1>1. SlotLeft
  BY Drawable DEF SlotLeft
<1>2. ASSUME pass # "scramble"
      PROVE  /\ Cardinality(Range(data_stream)) = PERIOD
             /\ Range(data_stream) \subseteq 0..(PERIOD - 1)
             /\ \A k \in 1..PERIOD : data_stream[k] - (k - 1) \in -MAX_DISPLACE..MAX_DISPLACE
  <2>1. Order(data_stream, PERIOD)
    BY <1>2 DEF IInv
  <2> QED BY <2>1, WholeStream DEF Order
<1>3. Empty \notin Range(undo_indices)
  <2>1. \A k \in DOMAIN undo_indices : undo_indices[k] \in Slots
    BY LenProperties DEF IInv
  <2>2. Empty \notin Slots
    BY Sizes DEF Empty, Slots
  <2> QED BY <2>1, <2>2 DEF Range
<1> QED BY <1>1, <1>2, <1>3 DEF Displaced

(* Whatever rand() gives, and for windows and periods of any size, the     *)
(* loop that draws a slot finds one that holds a word (build_scrambler).   *)
THEOREM SlotLeftCorrect == ScrambleSpec => []SlotLeft
<1> QED BY InitHolds, NextHolds, IInvImplies, PTL DEF ScrambleSpec

(* The order drawn holds every word of the period once and near its place, *)
(* and the counterpart finds every word in its window (build_unscrambler). *)
THEOREM DisplacedCorrect == ScrambleSpec => []Displaced
<1> QED BY InitHolds, NextHolds, IInvImplies, PTL DEF ScrambleSpec
------------------------------------------------------------------------------
(* A set of natural numbers has a least element.                           *)
LEMMA Least ==
    ASSUME NEW T, T \subseteq Nat, T # {}
    PROVE  \E x \in T : \A y \in T : x <= y
<1>1. IsWellFoundedOn(OpToRel(<, Nat), Nat)
  BY NatLessThanWellFounded
<1>2. PICK x \in T : \A y \in T : <<y, x>> \notin OpToRel(<, Nat)
  BY <1>1, WFMin
<1>3. \A y \in T : <<y, x>> \in Nat \X Nat
  BY <1>2
<1>4. \A y \in T : ~(y < x)
  BY <1>2, <1>3 DEF OpToRel
<1>5. \A y \in T : x <= y
  BY <1>4
<1> QED BY <1>5

(* Induction, for sets of numbers: no number is the least one left out.    *)
LEMMA Induct ==
    ASSUME NEW T, 0 \in T, \A n \in Nat : n \in T => n + 1 \in T
    PROVE  Nat \subseteq T
<1> DEFINE B == Nat \ T
<1>1. ASSUME B # {} PROVE FALSE
  <2>1. PICK x \in B : \A y \in B : x <= y
    <3>1. B \subseteq Nat
      OBVIOUS
    <3> HIDE DEF B
    <3> QED BY <1>1, <3>1, Least
  <2>2. x # 0 /\ x \in Nat
    OBVIOUS
  <2>3. x - 1 \in Nat /\ ~(x <= x - 1) /\ (x - 1) + 1 = x
    BY <2>2
  <2>4. x - 1 \in T
    BY <2>1, <2>3
  <2> QED BY <2>3, <2>4
<1> QED BY <1>1

(* Numbers given one after the other, by recursion, are a function.        *)
LEMMA Recursion ==
    ASSUME NEW base \in Nat, NEW step \in [Nat -> [Nat -> Nat]]
    PROVE  \E g \in [Nat -> Nat] : g[0] = base /\ \A n \in Nat : g[n + 1] = step[n][g[n]]
<1> DEFINE Prefix(n, h) == /\ \A i \in 0..n : h[i] \in Nat
                           /\ h[0] = base
                           /\ \A i \in 0..(n - 1) : h[i + 1] = step[i][h[i]]
<1>1. ASSUME NEW n \in Nat PROVE \E h : Prefix(n, h)
  <2> DEFINE T == {k \in Nat : \E h : Prefix(k, h)}
  <2>1. 0 \in T
    <3>1. Prefix(0, [i \in 0..0 |-> base])
      OBVIOUS
    <3> QED BY <3>1
  <2>2. ASSUME NEW k \in Nat, k \in T PROVE k + 1 \in T
    <3>1. PICK h : Prefix(k, h)
      BY <2>2
    <3> DEFINE v == step[k][h[k]]
               g == [i \in 0..(k + 1) |-> IF i <= k THEN h[i] ELSE v]
    <3>2. v \in Nat /\ h[0] = base /\ \A i \in 0..k : h[i] \in Nat
      <4>1. h[0] = base /\ (\A i \in 0..k : h[i] \in Nat) /\ k \in 0..k
        BY <3>1
      <4>2. h[k] \in Nat /\ step[k] \in [Nat -> Nat]
        BY <4>1
      <4> QED BY <4>1, <4>2
    <3>3. g[0] = base /\ \A i \in 0..(k + 1) : g[i] \in Nat
      <4> HIDE DEF v
      <4> QED BY <3>2
    <3>4. ASSUME NEW i \in 0..k PROVE g[i + 1] = step[i][g[i]]
      <4>1. CASE i = k
        <5>1. g[i + 1] = v /\ g[i] = h[k]
          BY <4>1
        <5> QED BY <5>1, <4>1
      <4>2. CASE i < k
        <5>1. i \in 0..(k - 1) /\ i + 1 \in 0..(k + 1) /\ i + 1 <= k
          BY <4>2
        <5>2. g[i + 1] = h[i + 1] /\ g[i] = h[i]
          BY <5>1
        <5>3. h[i + 1] = step[i][h[i]]
          BY <5>1, <3>1
        <5> QED BY <5>2, <5>3
      <4> QED BY <4>1, <4>2
    <3>5. (k + 1) - 1 = k /\ k + 1 \in Nat
      OBVIOUS
    <3>6. Prefix(k + 1, g)
      <4> HIDE DEF g
      <4> QED BY <3>3, <3>4, <3>5
    <3> HIDE DEF Prefix
    <3> QED BY <3>5, <3>6
  <2>3. Nat \subseteq T
    <3> HIDE DEF T
    <3> QED BY <2>1, <2>2, Induct
  <2> QED BY <2>3
<1>2. ASSUME NEW m \in Nat, NEW h, Prefix(m, h), NEW n \in Nat, NEW g, Prefix(n, g)
      PROVE  \A k \in Nat : k <= m /\ k <= n => h[k] = g[k]
  <2> DEFINE T == {k \in Nat : k <= m /\ k <= n => h[k] = g[k]}
  <2>1. 0 \in T
    BY <1>2
  <2>2. ASSUME NEW k \in Nat, k \in T PROVE k + 1 \in T
    <3>1. CASE k + 1 <= m /\ k + 1 <= n
      <4>1. k \in 0..(m - 1) /\ k \in 0..(n - 1) /\ k <= m /\ k <= n
        BY <3>1
      <4>2. h[k] = g[k]
        BY <2>2, <4>1
      <4>3. h[k + 1] = step[k][h[k]] /\ g[k + 1] = step[k][g[k]]
        BY <4>1, <1>2
      <4> QED BY <4>2, <4>3
    <3> QED BY <3>1
  <2>3. Nat \subseteq T
    <3> HIDE DEF T
    <3> QED BY <2>1, <2>2, Induct
  <2> QED BY <2>3
<1> DEFINE best(n) == CHOOSE h : Prefix(n, h)
           f == [n \in Nat |-> best(n)[n]]
<1>3. ASSUME NEW n \in Nat PROVE Prefix(n, best(n))
  <2> HIDE DEF Prefix
  <2> QED BY <1>1
<1>4. \A n \in Nat : best(n)[n] \in Nat /\ best(n)[0] = base
  <2> HIDE DEF best
  <2> QED BY <1>3
<1>5. f \in [Nat -> Nat] /\ f[0] = base
  <2> HIDE DEF best
  <2> QED BY <1>4
<1>6. ASSUME NEW n \in Nat PROVE f[n + 1] = step[n][f[n]]
  <2>1. n + 1 \in Nat /\ n <= n + 1 /\ n \in 0..((n + 1) - 1)
    OBVIOUS
  <2>2. Prefix(n, best(n)) /\ Prefix(n + 1, best(n + 1))
    <3> HIDE DEF Prefix, best
    <3> QED BY <2>1, <1>3
  <2>3. best(n + 1)[n] = best(n)[n]
    <3> HIDE DEF Prefix, best
    <3> QED BY <2>1, <2>2, <1>2
  <2>4. best(n + 1)[n + 1] = step[n][best(n + 1)[n]]
    <3> HIDE DEF best
    <3> QED BY <2>1, <2>2
  <2>5. f[n] = best(n)[n] /\ f[n + 1] = best(n + 1)[n + 1]
    <3> HIDE DEF best
    <3> QED BY <2>1
  <2> HIDE DEF best, f
  <2> QED BY <2>3, <2>4, <2>5
<1> QED
  <2> HIDE DEF f
  <2> QED BY <1>5, <1>6

(* Two is the power of two its recursive definition describes.            *)
LEMMA TwoHolds == /\ Two[0] = 1
                  /\ \A n \in Nat : Two[n] \in Nat /\ Two[n] >= n + 1 /\ Two[n + 1] = 2 * Two[n]
<1> DEFINE double == [n \in Nat |-> [two \in Nat |-> 2 * two]]
<1>1. \E g \in [Nat -> Nat] : g[0] = 1 /\ \A n \in Nat : g[n + 1] = double[n][g[n]]
  <2>1. double \in [Nat -> [Nat -> Nat]]
    OBVIOUS
  <2>2. 1 \in Nat
    OBVIOUS
  <2> HIDE DEF double
  <2> QED BY <2>1, <2>2, Recursion
<1>2. PICK g \in [Nat -> Nat] : g[0] = 1 /\ \A n \in Nat : g[n + 1] = 2 * g[n]
  BY <1>1
<1>3. g = [n \in Nat |-> IF n = 0 THEN 1 ELSE 2 * g[n - 1]]
  <2>1. ASSUME NEW n \in Nat PROVE g[n] = IF n = 0 THEN 1 ELSE 2 * g[n - 1]
    <3>1. n # 0 => n - 1 \in Nat /\ (n - 1) + 1 = n
      OBVIOUS
    <3> QED BY <1>2, <3>1
  <2> QED BY <2>1
<1>4. Two = [n \in Nat |-> IF n = 0 THEN 1 ELSE 2 * Two[n - 1]]
  BY <1>3, Zenon DEF Two
<1>5. \A n \in Nat : Two[n] = IF n = 0 THEN 1 ELSE 2 * Two[n - 1]
  BY <1>4
<1>6. Two[0] = 1
  BY <1>5
<1>7. \A n \in Nat : Two[n + 1] = 2 * Two[n]
  <2>1. \A n \in Nat : n + 1 # 0 /\ (n + 1) - 1 = n /\ n + 1 \in Nat
    OBVIOUS
  <2> QED BY <1>5, <2>1
<1> DEFINE T == {n \in Nat : Two[n] \in Nat /\ Two[n] >= n + 1}
<1>8. 0 \in T
  BY <1>6
<1>9. \A n \in Nat : n \in T => n + 1 \in T
  BY <1>7
<1>10. Nat \subseteq T
  <2> HIDE DEF T
  <2> QED BY <1>8, <1>9, Induct
<1> QED BY <1>6, <1>7, <1>10

(* Shifts one after the other are one shift.                               *)
LEMMA TwoSum == \A m \in Nat, n \in Nat : Two[m + n] = Two[m] * Two[n]
<1> SUFFICES ASSUME NEW m \in Nat PROVE \A n \in Nat : Two[m + n] = Two[m] * Two[n]
  OBVIOUS
<1> DEFINE T == {n \in Nat : Two[m + n] = Two[m] * Two[n]}
<1>1. 0 \in T
  BY TwoHolds
<1>2. ASSUME NEW n \in Nat, n \in T PROVE n + 1 \in T
  <2>1. Two[m + (n + 1)] = 2 * Two[m + n]
    <3>1. m + (n + 1) = (m + n) + 1 /\ m + n \in Nat
      OBVIOUS
    <3> QED BY <3>1, TwoHolds
  <2>2. Two[m] \in Nat /\ Two[n] \in Nat /\ Two[n + 1] = 2 * Two[n]
    BY TwoHolds
  <2>3. Two[m + n] = Two[m] * Two[n]
    BY <1>2
  <2> QED BY <2>1, <2>2, <2>3
<1>3. Nat \subseteq T
  <2> HIDE DEF T
  <2> QED BY <1>1, <1>2, Induct
<1> QED BY <1>3

(* A division is known from what it leaves.                                *)
LEMMA Quotient ==
    ASSUME NEW a \in Int, NEW n \in Nat \ {0}, NEW q \in Int, NEW r \in 0..(n - 1), a = q * n + r
    PROVE  a \div n = q /\ a % n = r
<1>1. a = n * (a \div n) + (a % n) /\ a \div n \in Int /\ a % n \in 0..(n - 1)
  OBVIOUS
<1>2. n * (q - (a \div n)) = (a % n) - r
  BY <1>1
<1>3. ASSUME q - (a \div n) >= 1 PROVE FALSE
  <2>1. n * (q - (a \div n)) >= n
    BY <1>1, <1>3
  <2> QED BY <1>1, <1>2, <2>1
<1>4. ASSUME q - (a \div n) <= -1 PROVE FALSE
  <2>1. n * (q - (a \div n)) <= -n
    BY <1>1, <1>4
  <2> QED BY <1>1, <1>2, <2>1
<1>5. q = a \div n
  BY <1>1, <1>3, <1>4
<1> QED BY <1>1, <1>2, <1>5

(* Every division has a quotient and a remainder.                          *)
LEMMA Divided ==
    ASSUME NEW a \in Nat, NEW n \in Nat \ {0}
    PROVE  /\ a = (a \div n) * n + (a % n) /\ a \div n \in Nat /\ a % n \in 0..(n - 1)
<1>1. a = n * (a \div n) + (a % n) /\ a \div n \in Int /\ a % n \in 0..(n - 1)
  OBVIOUS
<1>2. ASSUME a \div n <= -1 PROVE FALSE
  <2>1. n * (a \div n) <= -n
    BY <1>1, <1>2
  <2> QED BY <1>1, <2>1
<1> QED BY <1>1, <1>2
------------------------------------------------------------------------------
(* pseudo_log2 finds the least power of two above its argument.            *)
LEMMA LogHolds ==
    ASSUME NEW val \in Nat
    PROVE  /\ pseudo_log2(val) \in 0..val /\ val < Two[pseudo_log2(val)]
           /\ pseudo_log2(val) = 0 \/ Two[pseudo_log2(val) - 1] <= val
<1> DEFINE T == {len \in Nat : val < Two[len]}
<1>1. val \in T
  BY TwoHolds
<1>2. PICK len \in T : \A other \in T : len <= other
  <2>1. T \subseteq Nat /\ T # {}
    BY <1>1
  <2> HIDE DEF T
  <2> QED BY <2>1, Least
<1>3. len \in 0..val /\ val < Two[len]
  BY <1>1, <1>2
<1>4. len = 0 \/ Two[len - 1] <= val
  <2>1. CASE len # 0
    <3>1. len - 1 \in Nat /\ ~(len <= len - 1)
      BY <1>3, <2>1
    <3>2. len - 1 \notin T
      BY <1>2, <3>1
    <3> QED BY <3>1, <3>2, TwoHolds
  <2> QED BY <2>1
<1> QED BY <1>3, <1>4 DEF pseudo_log2

(* The select has bits for every slot and layers for all its bits.         *)
LEMMA SelectSizes ==
    /\ NUM_SEL \in Nat /\ NUM_SEL >= 2 /\ 2 * MAX_DISPLACE < Two[NUM_SEL]
    /\ NUM_SEL <= 2 * MAX_DISPLACE
    /\ Layers \in Nat /\ Layers >= 1 /\ NUM_SEL <= 2 * Layers /\ 2 * Layers <= NUM_SEL + 1
    /\ Layers <= MAX_DISPLACE
<1>1. HIST_WORDS - 1 = 2 * MAX_DISPLACE /\ 2 * MAX_DISPLACE \in Nat
  BY Sizes DEF HIST_WORDS
<1>2. NUM_SEL \in 0..(2 * MAX_DISPLACE) /\ 2 * MAX_DISPLACE < Two[NUM_SEL]
  BY <1>1, LogHolds DEF NUM_SEL
<1>3. Two[0] = 1 /\ Two[1] = 2
  <2>1. 0 + 1 = 1
    OBVIOUS
  <2> QED BY <2>1, TwoHolds
<1>4. NUM_SEL >= 2
  BY <1>2, <1>3, Sizes
<1>5. Layers = (NUM_SEL + 1) \div 2
  BY DEF Layers
<1> QED BY <1>2, <1>4, <1>5, Sizes

(* A digit on top of a number leaves the digits below.                     *)
LEMMA DigitOnTop ==
    ASSUME NEW a \in Nat, NEW m \in Nat, NEW n \in Nat, m < n, NEW d \in 0..3
    PROVE  Bits(a + d * Two[2 * n], 2 * m) = Bits(a, 2 * m)
<1> DEFINE unit == Two[2 * m]
           more == Two[2 * (n - m - 1)]
<1>1. unit \in Nat \ {0} /\ more \in Nat
  <2>1. 2 * m \in Nat /\ 2 * (n - m - 1) \in Nat
    OBVIOUS
  <2> QED BY <2>1, TwoHolds
<1>2. Two[2 * n] = 4 * more * unit
  <2>1. 2 * n = 2 * m + (2 * (n - m - 1) + 2) /\ 2 * m \in Nat
        /\ 2 * (n - m - 1) + 2 \in Nat /\ 2 * (n - m - 1) \in Nat
    OBVIOUS
  <2>2. Two[2 * n] = unit * Two[2 * (n - m - 1) + 2]
    BY <2>1, TwoSum
  <2>3. Two[2 * (n - m - 1) + 2] = 2 * (2 * more)
    <3>1. \A k \in Nat : k + 2 = (k + 1) + 1 /\ k + 1 \in Nat
      OBVIOUS
    <3> QED BY <2>1, <3>1, TwoHolds
  <2> HIDE DEF unit, more
  <2> QED BY <1>1, <2>2, <2>3
<1> HIDE DEF unit, more
<1>3. a = (a \div unit) * unit + (a % unit) /\ a \div unit \in Nat /\ a % unit \in 0..(unit - 1)
  BY <1>1, Divided
<1>4. a + d * Two[2 * n] = (a \div unit + d * (4 * more)) * unit + (a % unit)
  <2> DEFINE q == a \div unit
             r == a % unit
             e == 4 * more
  <2>1. q \in Int /\ r \in Int /\ e \in Int /\ d \in Int /\ unit \in Int
    BY <1>1, <1>3
  <2>2. a = q * unit + r /\ Two[2 * n] = e * unit
    BY <1>2, <1>3
  <2> HIDE DEF q, r, e
  <2>3. (q * unit + r) + d * (e * unit) = (q + d * e) * unit + r
    BY <2>1
  <2>4. a + d * Two[2 * n] = (q + d * e) * unit + r
    BY <2>2, <2>3, Zenon
  <2> QED BY <2>4 DEF q, r, e
<1>5. (a + d * Two[2 * n]) \div unit = a \div unit + d * (4 * more)
  <2>1. a + d * Two[2 * n] \in Int /\ a \div unit + d * (4 * more) \in Int
    BY <1>1, <1>2, <1>3
  <2> QED BY <1>1, <1>3, <1>4, <2>1, Quotient
<1>6. (a \div unit + d * (4 * more)) % 4 = (a \div unit) % 4
  <2> DEFINE b == a \div unit
  <2>1. b = (b \div 4) * 4 + (b % 4) /\ b \div 4 \in Nat /\ b % 4 \in 0..(4 - 1)
    <3>1. b \in Nat /\ 4 \in Nat \ {0}
      BY <1>3
    <3> HIDE DEF b
    <3> QED BY <3>1, Divided
  <2>2. b + d * (4 * more) = (b \div 4 + d * more) * 4 + (b % 4)
    BY <1>1, <2>1
  <2>3. b + d * (4 * more) \in Int /\ b \div 4 + d * more \in Int
    BY <1>1, <2>1
  <2> HIDE DEF b
  <2> QED BY <2>1, <2>2, <2>3, Quotient DEF b
<1> QED BY <1>5, <1>6 DEF Bits, unit

(* Numbers put together digit by digit hold their digits.                  *)
LEMMA DigitsHeld ==
    ASSUME NEW dig \in [Nat -> 0..3], NEW g \in [Nat -> Nat], g[0] = 0,
           \A n \in Nat : g[n + 1] = g[n] + dig[n] * Two[2 * n]
    PROVE  \A n \in Nat : /\ g[n] < Two[2 * n]
                          /\ \A m \in Nat : m < n => Bits(g[n], 2 * m) = dig[m]
<1> DEFINE T == {n \in Nat : /\ g[n] < Two[2 * n]
                             /\ \A m \in Nat : m < n => Bits(g[n], 2 * m) = dig[m]}
<1>1. 0 \in T
  <2>1. 2 * 0 = 0 /\ Two[0] = 1
    BY TwoHolds
  <2> QED BY <2>1
<1>2. ASSUME NEW n \in Nat, n \in T PROVE n + 1 \in T
  <2> DEFINE unit == Two[2 * n]
  <2>1. unit \in Nat \ {0} /\ g[n] \in Nat /\ g[n] < unit /\ dig[n] \in 0..3 /\ n + 1 \in Nat
        /\ g[n + 1] \in Nat /\ g[n + 1] = g[n] + dig[n] * unit
    <3>1. 2 * n \in Nat /\ n + 1 \in Nat
      OBVIOUS
    <3>2. unit \in Nat \ {0}
      BY <3>1, TwoHolds
    <3>3. g[n] \in Nat /\ g[n + 1] \in Nat /\ dig[n] \in 0..3
      BY <3>1
    <3>4. g[n] < unit
      BY <1>2
    <3>5. g[n + 1] = g[n] + dig[n] * unit
      BY Zenon
    <3> QED BY <3>1, <3>2, <3>3, <3>4, <3>5, Zenon
  <2>2. Two[2 * (n + 1)] = 4 * unit
    <3>1. 2 * (n + 1) = (2 * n + 1) + 1 /\ 2 * n + 1 \in Nat /\ 2 * n \in Nat
      OBVIOUS
    <3>2. Two[(2 * n + 1) + 1] = 2 * Two[2 * n + 1] /\ Two[2 * n + 1] = 2 * unit
      BY <3>1, TwoHolds
    <3> HIDE DEF unit
    <3> QED BY <2>1, <3>1, <3>2
  <2>3. g[n + 1] < Two[2 * (n + 1)]
    <3> HIDE DEF unit
    <3> QED BY <2>1, <2>2
  <2>4. ASSUME NEW m \in Nat, m < n PROVE Bits(g[n + 1], 2 * m) = dig[m]
    <3>1. ASSUME NEW a \in Nat, NEW d \in 0..3 PROVE Bits(a + d * unit, 2 * m) = Bits(a, 2 * m)
      BY <2>4, DigitOnTop
    <3> HIDE DEF unit
    <3>2. Bits(g[n] + dig[n] * unit, 2 * m) = Bits(g[n], 2 * m)
      BY <2>1, <3>1
    <3> QED BY <1>2, <2>1, <2>4, <3>2
  <2>5. Bits(g[n + 1], 2 * n) = dig[n]
    <3>1. g[n + 1] \div unit = dig[n]
      <4> HIDE DEF unit
      <4>1. g[n + 1] = dig[n] * unit + g[n] /\ g[n] \in 0..(unit - 1) /\ dig[n] \in Int
        <5> DEFINE h == g[n]
                   i == g[n + 1]
                   d == dig[n]
                   p == dig[n] * unit
        <5>1. unit \in Nat \ {0} /\ h \in Nat /\ h < unit /\ d \in 0..3 /\ i = h + p
          BY <2>1, Zenon
        <5>2. d \in Int /\ h \in 0..(unit - 1)
          <6> HIDE DEF h, d
          <6> QED BY <5>1
        <5>3. p \in Int
          <6>1. d * unit \in Int
            <7> HIDE DEF d
            <7> QED BY <5>1, <5>2
          <6> QED BY <6>1, Zenon
        <5>4. i = p + h
          <6> HIDE DEF h, i, p
          <6> QED BY <5>1, <5>3
        <5> QED BY <5>2, <5>4, Zenon
      <4>2. ASSUME NEW a \in Int, NEW q \in Int, NEW r \in 0..(unit - 1), a = q * unit + r
            PROVE  a \div unit = q
        BY <2>1, <4>2, Quotient
      <4>3. g[n + 1] \in Int
        BY <2>1
      <4> QED BY <4>1, <4>2, <4>3, Zenon
    <3>2. dig[n] % 4 = dig[n]
      BY <2>1
    <3> QED BY <3>1, <3>2 DEF Bits
  <2>6. \A m \in Nat : m < n + 1 => m < n \/ m = n
    OBVIOUS
  <2> HIDE DEF unit
  <2> QED BY <2>1, <2>3, <2>4, <2>5, <2>6
<1>3. Nat \subseteq T
  <2> HIDE DEF T
  <2> QED BY <1>1, <1>2, Induct
<1> QED BY <1>3

(* The lower digits of a number, and the one above them.                   *)
Low(val, layer) == val % Two[2 * layer]
LEMMA LowHolds ==
    ASSUME NEW val \in Nat, NEW layer \in Nat
    PROVE  /\ Low(val, 0) = 0
           /\ Low(val, layer) \in Nat /\ Low(val, layer) < Two[2 * layer]
           /\ Bits(val, 2 * layer) \in 0..3
           /\ Low(val, layer + 1) = Low(val, layer) + Two[2 * layer] * Bits(val, 2 * layer)
<1> DEFINE unit == Two[2 * layer]
           high == val \div unit
<1>1. unit \in Nat \ {0} /\ Two[2 * (layer + 1)] = 4 * unit
  <2>1. 2 * (layer + 1) = (2 * layer + 1) + 1 /\ 2 * layer + 1 \in Nat /\ 2 * layer \in Nat
    OBVIOUS
  <2> QED BY <2>1, TwoHolds
<1>2. Low(val, 0) = 0
  <2>1. 2 * 0 = 0 /\ Two[0] = 1 /\ val % 1 = 0
    BY TwoHolds
  <2> QED BY <2>1 DEF Low
<1>3. val = high * unit + (val % unit) /\ high \in Nat /\ val % unit \in 0..(unit - 1)
  <2> HIDE DEF unit
  <2> QED BY <1>1, Divided
<1>4. high = (high \div 4) * 4 + (high % 4) /\ high \div 4 \in Nat /\ high % 4 \in 0..3
  <2>1. high \in Nat /\ 4 \in Nat \ {0} /\ 4 - 1 = 3
    BY <1>3
  <2> HIDE DEF high
  <2> QED BY <2>1, Divided
<1>5. val % (4 * unit) = (val % unit) + unit * (high % 4)
  <2> HIDE DEF unit, high
  <2>2. val = (high \div 4) * (4 * unit) + ((val % unit) + unit * (high % 4))
    <3> DEFINE q == high \div 4
               d == high % 4
               r == val % unit
    <3>1. unit \in Int /\ q \in Int /\ d \in Int /\ r \in Int
      BY <1>1, <1>3, <1>4
    <3>2. high = q * 4 + d /\ val = high * unit + r
      BY <1>3, <1>4
    <3> HIDE DEF q, d, r
    <3>3. (q * 4 + d) * unit + r = q * (4 * unit) + (r + unit * d)
      BY <3>1
    <3>4. val = q * (4 * unit) + (r + unit * d)
      BY <3>2, <3>3, Zenon
    <3> QED BY <3>4 DEF q, d, r
  <2>3. (val % unit) + unit * (high % 4) \in 0..(4 * unit - 1)
    <3>1. ASSUME NEW u \in Nat \ {0}, NEW r \in 0..(u - 1), NEW d \in 0..3
          PROVE  r + u * d \in 0..(4 * u - 1)
      <4>1. d = 0 \/ d = 1 \/ d = 2 \/ d = 3
        OBVIOUS
      <4> QED BY <4>1
    <3> QED BY <1>1, <1>3, <1>4, <3>1
  <2>4. 4 * unit \in Nat \ {0} /\ high \div 4 \in Int /\ val \in Int
    BY <1>1, <1>4
  <2> QED BY <2>2, <2>3, <2>4, Quotient
<1>6. Low(val, layer) = val % unit /\ Bits(val, 2 * layer) = high % 4
      /\ Low(val, layer + 1) = val % (4 * unit)
  BY <1>1 DEF Low, Bits
<1> HIDE DEF unit, high
<1>7. Low(val, layer) \in Nat /\ Low(val, layer) < unit /\ Bits(val, 2 * layer) \in 0..3
  BY <1>1, <1>3, <1>4, <1>6
<1>8. Low(val, layer + 1) = Low(val, layer) + unit * Bits(val, 2 * layer)
  BY <1>5, <1>6
<1> QED BY <1>2, <1>7, <1>8 DEF unit

(* Two bits are a digit.                                                   *)
LEMMA BitsDigit == \A val \in Nat, m \in Nat : Bits(val, 2 * m) \in 0..3
BY LowHolds

(* A word of the table after the skew: its digits come from the entries    *)

(* that were drawn as many clocks earlier as the layer of the mux is late. *)
LEMMA SkewHolds ==
    ASSUME NEW order \in [1..PERIOD -> Slots], NEW k \in 1..PERIOD
    PROVE  /\ Skew(order, k) \in Nat
           /\ \A m \in Nat : m < Layers =>
                Bits(Skew(order, k), 2 * m) = Bits(order[((k - 1 - m) % PERIOD) + 1], 2 * m)
<1> DEFINE At(late) == order[((k - 1 - late) % PERIOD) + 1]
           dig == [n \in Nat |-> Bits(At(n), 2 * n)]
           step == [n \in Nat |-> [sum \in Nat |-> sum + dig[n] * Two[2 * n]]]
           OfLayer[layer \in 0..Layers] ==
              IF layer = 0 THEN 0
              ELSE OfLayer[layer - 1] + Bits(At(layer - 1), 2 * (layer - 1)) * Two[2 * (layer - 1)]
<1>1. ASSUME NEW n \in Nat PROVE At(n) \in Nat
  <2>1. ((k - 1 - n) % PERIOD) + 1 \in 1..PERIOD
    BY Sizes
  <2>2. At(n) \in Slots
    BY <2>1
  <2> QED BY <2>2, Sizes DEF Slots
<1>2. dig \in [Nat -> 0..3]
  <2> HIDE DEF At
  <2> QED BY <1>1, BitsDigit
<1>3. step \in [Nat -> [Nat -> Nat]]
  <2>1. ASSUME NEW n \in Nat PROVE dig[n] \in 0..3 /\ Two[2 * n] \in Nat
    <3>1. 2 * n \in Nat
      OBVIOUS
    <3> HIDE DEF dig
    <3> QED BY <1>2, <3>1, TwoHolds
  <2>2. ASSUME NEW n \in Nat, NEW sum \in Nat PROVE sum + dig[n] * Two[2 * n] \in Nat
    <3>1. \A a \in Nat, b \in Nat : sum + a * b \in Nat
      OBVIOUS
    <3>2. dig[n] \in Nat /\ Two[2 * n] \in Nat
      <4> HIDE DEF dig
      <4>1. \A d \in 0..3 : d \in Nat
        OBVIOUS
      <4> QED BY <2>1, <4>1, Zenon
    <3> HIDE DEF dig
    <3> QED BY <3>1, <3>2, Zenon
  <2> HIDE DEF dig
  <2> QED BY <2>2
<1>4. PICK g \in [Nat -> Nat] : g[0] = 0 /\ \A n \in Nat : g[n + 1] = step[n][g[n]]
  <2>1. 0 \in Nat
    OBVIOUS
  <2> HIDE DEF step
  <2> QED BY <1>3, <2>1, Recursion
<1>5. \A n \in Nat : g[n + 1] = g[n] + dig[n] * Two[2 * n]
  <2> HIDE DEF dig
  <2> QED BY <1>4
<1>6. \A n \in Nat : \A m \in Nat : m < n => Bits(g[n], 2 * m) = dig[m]
  <2> HIDE DEF dig
  <2> QED BY <1>2, <1>4, <1>5, DigitsHeld
<1>7. \A n \in Nat \ {0} : g[n] = g[n - 1] + Bits(At(n - 1), 2 * (n - 1)) * Two[2 * (n - 1)]
  <2> TAKE n \in Nat \ {0}
  <2>1. n - 1 \in Nat /\ (n - 1) + 1 = n
    OBVIOUS
  <2>2. dig[n - 1] = Bits(At(n - 1), 2 * (n - 1))
    BY <2>1
  <2> HIDE DEF dig
  <2> QED BY <1>5, <2>1, <2>2
<1> DEFINE f == [layer \in 0..Layers |-> g[layer]]
           Rule(h) == h = [layer \in 0..Layers |->
              IF layer = 0 THEN 0
              ELSE h[layer - 1] + Bits(At(layer - 1), 2 * (layer - 1)) * Two[2 * (layer - 1)]]
<1>8. Rule(f)
  <2>1. \A layer \in 0..Layers : layer # 0 => layer \in Nat \ {0} /\ layer - 1 \in 0..Layers
    BY SelectSizes
  <2> HIDE DEF At
  <2> QED BY <1>4, <1>7, <2>1
<1>9. Rule(OfLayer)
  <2>1. OfLayer = CHOOSE h : Rule(h)
    BY Zenon
  <2> HIDE DEF OfLayer, Rule
  <2> QED BY <1>8, <2>1, Zenon
<1>10. \A layer \in 0..Layers : OfLayer[layer] = IF layer = 0 THEN 0
         ELSE OfLayer[layer - 1] + Bits(At(layer - 1), 2 * (layer - 1)) * Two[2 * (layer - 1)]
  <2> HIDE DEF OfLayer, At
  <2> QED BY <1>9
<1> DEFINE T == {n \in Nat : n <= Layers => OfLayer[n] = g[n]}
<1>11. 0 \in T
  <2> HIDE DEF OfLayer, At
  <2>1. 0 \in 0..Layers
    BY SelectSizes
  <2> QED BY <1>4, <1>10, <2>1
<1>12. ASSUME NEW n \in Nat, n \in T PROVE n + 1 \in T
  <2> HIDE DEF OfLayer, At
  <2>1. CASE n + 1 <= Layers
    <3>1. n + 1 \in 0..Layers /\ n + 1 # 0 /\ (n + 1) - 1 = n /\ n <= Layers /\ n + 1 \in Nat \ {0}
      BY <2>1, SelectSizes
    <3>2. OfLayer[n] = g[n]
      BY <1>12, <3>1
    <3>3. OfLayer[n + 1] = OfLayer[n] + Bits(At(n), 2 * n) * Two[2 * n]
      BY <1>10, <3>1
    <3>4. g[n + 1] = g[n] + Bits(At(n), 2 * n) * Two[2 * n]
      BY <1>7, <3>1
    <3> QED BY <3>2, <3>3, <3>4
  <2> QED BY <2>1
<1>13. OfLayer[Layers] = g[Layers]
  <2>1. Nat \subseteq T
    <3> HIDE DEF T
    <3> QED BY <1>11, <1>12, Induct
  <2> HIDE DEF OfLayer
  <2> QED BY <2>1, SelectSizes
<1>14. Skew(order, k) = OfLayer[Layers]
  BY DEF Skew
<1>15. \A m \in Nat : dig[m] = Bits(At(m), 2 * m)
  OBVIOUS
<1> HIDE DEF OfLayer, dig, step
<1>16. Skew(order, k) \in Nat
  BY <1>4, <1>13, <1>14, SelectSizes
<1>17. \A m \in Nat : m < Layers => Bits(Skew(order, k), 2 * m) = Bits(At(m), 2 * m)
  <2> HIDE DEF At
  <2> QED BY <1>6, <1>13, <1>14, <1>15, SelectSizes
<1> QED BY <1>16, <1>17

(* Remainders may be taken early.                                          *)
LEMMA ModShift ==
    ASSUME NEW n \in Nat \ {0}, NEW x \in Int, NEW k \in Int
    PROVE  ((x % n) + k) % n = (x + k) % n
<1> DEFINE q == x \div n
           r == x % n
           q2 == (r + k) \div n
           r2 == (r + k) % n
<1>1. n \in Nat \ {0}
  OBVIOUS
<1>2. q \in Int /\ r \in Int /\ x = q * n + r
  BY <1>1
<1>3. q2 \in Int /\ r2 \in 0..(n - 1) /\ r + k = q2 * n + r2
  <2>1. r + k \in Int
    BY <1>2
  <2>2. ASSUME NEW y \in Int PROVE /\ y \div n \in Int /\ y % n \in 0..(n - 1)
                                   /\ y = (y \div n) * n + (y % n)
    BY <1>1
  <2> HIDE DEF r
  <2> QED BY <2>1, <2>2
<1> HIDE DEF q, r, q2, r2
<1>4. x + k = (q + q2) * n + r2
  <2>1. (q * n + r) + k = q * n + (r + k)
    BY <1>1, <1>2
  <2>2. q * n + (q2 * n + r2) = (q + q2) * n + r2
    BY <1>1, <1>2, <1>3
  <2> QED BY <1>2, <1>3, <2>1, <2>2
<1>5. (x + k) % n = r2
  <2>1. x + k \in Int /\ q + q2 \in Int
    BY <1>2, <1>3
  <2>2. ASSUME NEW a \in Int, NEW d \in Int, NEW e \in 0..(n - 1), a = d * n + e
        PROVE  a % n = e
    BY <1>1, <2>2, Quotient
  <2> QED BY <1>3, <1>4, <2>1, <2>2
<1> QED BY <1>5 DEF r, r2

(* The table as the counter reads it: digit m of the select at clock n is  *)

(* that of the entry drawn for the word MAX_DISPLACE + m clocks earlier.   *)
LEMMA TableHolds ==
    ASSUME NEW order \in [1..PERIOD -> Slots], NEW n \in Nat
    PROVE  /\ latency_adjustment(order)[(n % PERIOD) + 1] \in Nat
           /\ \A m \in Nat : m < Layers =>
                Bits(latency_adjustment(order)[(n % PERIOD) + 1], 2 * m)
                  = Bits(order[((n - MAX_DISPLACE - m) % PERIOD) + 1], 2 * m)
<1> DEFINE at == (n % PERIOD) + 1
           from == ((at - 1 - MAX_DISPLACE) % PERIOD) + 1
<1>1. PERIOD \in Nat \ {0} /\ at \in 1..PERIOD /\ from \in 1..PERIOD
  BY Sizes
<1>2. latency_adjustment(order)[at] = Skew(order, from)
  <2> HIDE DEF at
  <2> QED BY <1>1 DEF latency_adjustment
<1>3. from - 1 = (n - MAX_DISPLACE) % PERIOD
  <2>1. from - 1 = ((n % PERIOD) + (-MAX_DISPLACE)) % PERIOD
    BY Sizes
  <2>2. n + (-MAX_DISPLACE) = n - MAX_DISPLACE /\ n \in Int /\ -MAX_DISPLACE \in Int
    BY Sizes
  <2> HIDE DEF from
  <2> QED BY <1>1, <2>1, <2>2, ModShift
<1>4. ASSUME NEW m \in Nat PROVE (from - 1 - m) % PERIOD = (n - MAX_DISPLACE - m) % PERIOD
  <2>1. n - MAX_DISPLACE \in Int /\ -m \in Int /\ (n - MAX_DISPLACE) + (-m) = n - MAX_DISPLACE - m
    BY Sizes
  <2>2. (((n - MAX_DISPLACE) % PERIOD) + (-m)) % PERIOD = ((n - MAX_DISPLACE) + (-m)) % PERIOD
    BY <1>1, <2>1, ModShift
  <2>3. from - 1 - m = ((n - MAX_DISPLACE) % PERIOD) + (-m)
    <3>1. from - 1 \in Int
      BY <1>1
    <3> HIDE DEF from
    <3> QED BY <1>3, <3>1
  <2> HIDE DEF from
  <2> QED BY <2>1, <2>2, <2>3
<1> HIDE DEF at, from
<1>5. /\ Skew(order, from) \in Nat
      /\ \A m \in Nat : m < Layers =>
           Bits(Skew(order, from), 2 * m) = Bits(order[((from - 1 - m) % PERIOD) + 1], 2 * m)
  BY <1>1, SkewHolds
<1>6. at = (n % PERIOD) + 1
  BY DEF at
<1> QED BY <1>2, <1>4, <1>5, <1>6

(* The select bits are enough for a slot.                                  *)
LEMMA SlotBelow == \A val \in Slots : val \in Nat /\ val < Two[NUM_SEL]
<1> TAKE val \in Slots
<1>1. val \in Nat /\ val <= 2 * MAX_DISPLACE /\ 2 * MAX_DISPLACE \in Nat
  BY Sizes DEF Slots
<1>2. 2 * MAX_DISPLACE < Two[NUM_SEL] /\ NUM_SEL \in Nat
  BY SelectSizes
<1>3. Two[NUM_SEL] \in Nat
  BY <1>2, TwoHolds
<1> DEFINE two == Two[NUM_SEL]
           far == 2 * MAX_DISPLACE
<1> HIDE DEF two, far
<1>4. two \in Nat /\ far \in Nat /\ far < two /\ val <= far
  BY <1>1, <1>2, <1>3 DEF two, far
<1>5. val < two
  BY <1>1, <1>4
<1> QED BY <1>1, <1>5 DEF two

(* What a layer selects from is there.                                     *)
LEMMA WidthHolds ==
    ASSUME NEW layer \in 1..Layers, NEW way \in 0..(Width(layer) - 1), NEW val \in Slots
    PROVE  4 * way + Bits(val, 2 * (layer - 1))
             \in 0..((IF layer = 1 THEN PaddedWords ELSE Width(layer - 1)) - 1)
<1> DEFINE digit == Bits(val, 2 * (layer - 1))
           rest == NUM_SEL - 2 * (layer - 1)
<1>1. layer \in Nat /\ layer - 1 \in Nat /\ val \in Nat /\ val < Two[NUM_SEL] /\ rest \in Nat
      /\ rest >= 1 /\ NUM_SEL \in Nat /\ 2 * (layer - 1) \in Nat
  <2>1. val \in Nat /\ val < Two[NUM_SEL]
    BY SlotBelow
  <2>2. layer \in Nat /\ layer <= Layers /\ layer - 1 \in Nat /\ 2 * (layer - 1) \in Nat
        /\ 2 * Layers <= NUM_SEL + 1 /\ NUM_SEL \in Nat /\ Layers \in Nat
    BY SelectSizes
  <2>3. rest \in Nat /\ rest >= 1
    BY <2>2
  <2> QED BY <2>1, <2>2, <2>3
<1>2. digit \in 0..3
  BY <1>1, BitsDigit
<1>3. (IF layer = 1 THEN PaddedWords ELSE Width(layer - 1)) = Two[rest]
  <2>1. CASE layer = 1
    <3>1. rest = NUM_SEL
      BY <1>1, <2>1
    <3> QED BY <2>1, <3>1 DEF PaddedWords
  <2>2. CASE layer # 1
    BY <1>1, <2>2 DEF Width
  <2> QED BY <2>1, <2>2
<1>4. CASE rest >= 2
  <2>1. Width(layer) = Two[rest - 2]
    <3>1. CASE rest = 2
      <4>1. rest - 2 = 0 /\ 2 * layer >= NUM_SEL
        BY <1>1, <3>1
      <4> QED BY <4>1, TwoHolds DEF Width
    <3>2. CASE rest # 2
      <4>1. rest - 2 = NUM_SEL - 2 * layer /\ ~(2 * layer >= NUM_SEL)
        BY <1>1, <1>4, <3>2
      <4> QED BY <4>1 DEF Width
    <3> QED BY <3>1, <3>2
  <2>2. Two[rest] = 4 * Two[rest - 2] /\ Two[rest - 2] \in Nat
    <3>1. rest = ((rest - 2) + 1) + 1 /\ rest - 2 \in Nat /\ (rest - 2) + 1 \in Nat
      BY <1>1, <1>4
    <3>2. \A a \in Nat : Two[(a + 1) + 1] = 4 * Two[a] /\ Two[a] \in Nat
      <4> TAKE a \in Nat
      <4>1. a + 1 \in Nat
        OBVIOUS
      <4>2. Two[(a + 1) + 1] = 2 * Two[a + 1] /\ Two[a + 1] = 2 * Two[a] /\ Two[a] \in Nat
        BY <4>1, TwoHolds
      <4> QED BY <4>2
    <3> HIDE DEF rest
    <3> QED BY <3>1, <3>2
  <2> HIDE DEF digit, rest
  <2> QED BY <1>2, <1>3, <2>1, <2>2 DEF digit
<1>5. CASE rest = 1
  <2>1. Width(layer) = 1 /\ way = 0
    BY <1>1, <1>5 DEF Width
  <2>2. Two[NUM_SEL] = 2 * Two[2 * (layer - 1)]
    <3>1. NUM_SEL = 2 * (layer - 1) + 1
      BY <1>1, <1>5
    <3> QED BY <1>1, <3>1, TwoHolds
  <2>3. digit < 2
    <3> DEFINE unit == Two[2 * (layer - 1)]
    <3>1. unit \in Nat \ {0} /\ val < 2 * unit
      BY <1>1, <2>2, TwoHolds
    <3>2. val \div unit \in Nat /\ val = (val \div unit) * unit + (val % unit)
          /\ val % unit \in 0..(unit - 1)
      <4> HIDE DEF unit
      <4> QED BY <1>1, <3>1, Divided
    <3>3. val \div unit < 2
      <4> DEFINE q == val \div unit
                 r == val % unit
      <4>1. q \in Nat /\ r \in Nat /\ val = q * unit + r
        BY <3>2
      <4> HIDE DEF q, r, unit
      <4>2. ASSUME q >= 2 PROVE FALSE
        <5>1. q * unit >= 2 * unit
          BY <3>1, <4>1, <4>2
        <5> QED BY <1>1, <3>1, <4>1, <5>1
      <4>3. q < 2
        BY <4>1, <4>2
      <4> QED BY <4>3 DEF q
    <3>4. \A a \in Nat : a < 2 => a % 4 = a
      OBVIOUS
    <3>5. digit = (val \div unit) % 4
      BY DEF Bits
    <3> HIDE DEF unit, digit
    <3> QED BY <3>2, <3>3, <3>4, <3>5
  <2>4. Two[rest] = 2
    <3>1. 0 + 1 = 1 /\ Two[0] = 1
      BY TwoHolds
    <3>2. Two[1] = 2
      BY <3>1, TwoHolds
    <3> QED BY <1>5, <3>2
  <2> HIDE DEF digit, rest
  <2>5. digit \in 0..(2 - 1) /\ 4 * way + digit = digit
    BY <1>2, <2>1, <2>3
  <2> QED BY <1>3, <2>4, <2>5 DEF digit
<1> QED BY <1>1, <1>4, <1>5

(* All digits of a slot are the slot.                                      *)
LEMMA LowWhole == \A val \in Slots : Low(val, Layers) = val
<1> TAKE val \in Slots
<1>1. val \in Nat /\ val < Two[NUM_SEL]
  BY SlotBelow
<1>2. Two[NUM_SEL] <= Two[2 * Layers]
  <2>1. NUM_SEL \in Nat /\ (2 * Layers = NUM_SEL \/ 2 * Layers = NUM_SEL + 1)
    BY SelectSizes
  <2> QED BY <2>1, TwoHolds
<1>3. 2 * Layers \in Nat /\ Two[2 * Layers] \in Nat /\ Two[NUM_SEL] \in Nat
  BY SelectSizes, TwoHolds
<1>4. \A a \in Nat, b \in Nat : a < b => a % b = a
  OBVIOUS
<1> QED BY <1>1, <1>2, <1>3, <1>4 DEF Low
------------------------------------------------------------------------------
(* The order a unit applies, the word it takes in at a clock, and what is  *)
(* in a slot of its window after so many clocks.                           *)
Turns(unit) == IF unit = "undo" THEN undo_indices ELSE indices
Turn(unit, n) == Turns(unit)[(n % PERIOD) + 1]
Word(unit, n) == (IF unit = "undo" THEN (n - (n % PERIOD)) + data_stream[(n % PERIOD) + 1]
                                   ELSE n) % WordLimit
Held(unit, n, slot) == IF slot < HIST_WORDS /\ slot < n THEN Word(unit, n - 1 - slot) ELSE Empty

(* The tables of the program: the counterpart's index leads back to the    *)
(* place of the word.                                                      *)
Drew(done) == /\ indices \in [1..done -> Slots]
              /\ \A k \in 1..done : indices[k] = k - 1 + MAX_DISPLACE - data_stream[k]
Found(done) == /\ undo_indices \in [1..done -> Slots]
               /\ \A k \in 1..done : LET place == k + MAX_DISPLACE - undo_indices[k] IN
                    place \in 1..PERIOD /\ data_stream[place] = k - 1
Tabled == /\ Drew(IF pass = "scramble" THEN cycle ELSE PERIOD)
          /\ Found(IF pass = "scramble" THEN 0 ELSE cycle)
          /\ pass = "stream" => /\ cycle = PERIOD
                                /\ table = [unit \in Units |-> latency_adjustment(Turns(unit))]

(* The unit after n clocks of its own.                                     *)
Run(unit, n) ==
    /\ cntr[unit] = n % PERIOD
    /\ history[unit] \in Windows
    /\ \A slot \in Slots : Slot(history[unit], slot) = Held(unit, n, slot)
    /\ n >= 1 => sel[unit] = table[unit][((n - 1) % PERIOD) + 1]
    /\ \A layer \in 1..Layers : n >= MAX_DISPLACE + 1 + layer =>
         \A way \in 0..(Width(layer) - 1) :
            pipe[unit][layer][way] = Held(unit, n - layer,
                Low(Turn(unit, n - MAX_DISPLACE - 1 - layer), layer) + Two[2 * layer] * way)
    /\ dout_active[unit] \in BOOLEAN /\ (dout_active[unit] <=> n > StartCount)
    /\ dout_valid[unit] \in BOOLEAN /\ (dout_valid[unit] => n >= StartCount + 2)

(* Words that have left a unit after n clocks, the valid one among them.   *)
Passed(n) == IF n <= StartCount + 1 THEN 0 ELSE n - (StartCount + 1)
Shown(unit) == IF dout_valid[unit] THEN 1 ELSE 0
Both(first, second, taken) ==
    /\ Run("scramble", first) /\ Run("undo", second)
    /\ second + Shown("scramble") = Passed(first)
    /\ taken + Shown("undo") = Passed(second)
    /\ din = first % WordLimit /\ got = taken % WordLimit
Streams == tripped \/ \E first \in Nat, second \in Nat, taken \in Nat : Both(first, second, taken)

(* The counter wraps at the period, and the layers of the mux are as many  *)
(* as the starting count allows for: so it is with the program's 15 and 64.*)
CountFits == PERIOD = Two[CNTR_BITS] /\ Layers = (CNTR_BITS \div 2) + (CNTR_BITS % 2)

(* A unit starts when the first word is about to leave the mux.            *)
LEMMA StartSizes ==
    ASSUME CountFits
    PROVE  /\ StartCount = MAX_DISPLACE + Layers - 1
           /\ StartCount \in Nat /\ StartCount < PERIOD
<1>1. StartCount = MAX_DISPLACE + Layers - 1
  <2>1. CNTR_BITS \in Nat
    <3>1. PERIOD - 1 \in Nat
      BY Sizes
    <3>2. pseudo_log2(PERIOD - 1) \in 0..(PERIOD - 1)
      BY <3>1, LogHolds
    <3> QED BY <3>2 DEF CNTR_BITS
  <2>2. \A a \in Nat : a \div 2 \in Int /\ a % 2 \in Int
    OBVIOUS
  <2> DEFINE half == CNTR_BITS \div 2
             odd == CNTR_BITS % 2
  <2>3. half \in Int /\ odd \in Int
    BY <2>1, <2>2
  <2>4. StartCount = MAX_DISPLACE + half + odd - 1 /\ Layers = half + odd
    BY DEF StartCount, CountFits
  <2> HIDE DEF half, odd
  <2> QED BY <2>3, <2>4, Sizes
<1> QED BY <1>1, SelectSizes, Sizes

(* The words of a stream are numbers, and the tables have all slots.       *)
LEMMA WordsHold ==
    ASSUME Tabled, pass = "stream", Order(data_stream, PERIOD), NEW unit \in Units
    PROVE  /\ Turns(unit) \in [1..PERIOD -> Slots]
           /\ \A n \in Nat : Turn(unit, n) \in Slots /\ Word(unit, n) \in Nat
           /\ \A n \in Nat, slot \in Int : Held(unit, n, slot) \in Int
<1>1. Turns(unit) \in [1..PERIOD -> Slots]
  BY DEF Turns, Tabled, Drew, Found
<1>2. ASSUME NEW n \in Nat PROVE (n % PERIOD) + 1 \in 1..PERIOD /\ n - (n % PERIOD) \in Nat
  BY Sizes
<1>3. WordLimit \in Nat \ {0}
  BY ScrambleAssumption
<1>4. ASSUME NEW n \in Nat PROVE Word(unit, n) \in Nat
  <2> DEFINE r == n % PERIOD
             val == (n - r) + data_stream[r + 1]
  <2>1. val \in Nat
    <3>1. r + 1 \in 1..PERIOD /\ n - r \in Nat
      BY <1>2
    <3>2. data_stream[r + 1] \in Nat
      <4>1. \A x \in 0..(PERIOD - 1) : x \in Nat
        OBVIOUS
      <4> HIDE DEF r
      <4> QED BY <3>1, <4>1 DEF Order
    <3> HIDE DEF r
    <3> QED BY <3>1, <3>2
  <2>2. Word(unit, n) = (IF unit = "undo" THEN val ELSE n) % WordLimit
    BY DEF Word
  <2> HIDE DEF val
  <2> QED BY <1>3, <2>1, <2>2
<1>5. ASSUME NEW n \in Nat PROVE Turn(unit, n) \in Slots
  <2> DEFINE at == (n % PERIOD) + 1
  <2>1. at \in 1..PERIOD
    BY <1>2
  <2>2. Turn(unit, n) = Turns(unit)[at]
    BY DEF Turn
  <2> HIDE DEF at
  <2> QED BY <1>1, <2>1, <2>2
<1>6. ASSUME NEW n \in Nat, NEW slot \in Int PROVE Held(unit, n, slot) \in Int
  <2>1. CASE slot < HIST_WORDS /\ slot < n
    <3>1. n - 1 - slot \in Int
      OBVIOUS
    <3> QED BY <1>4, <2>1, <3>1 DEF Held
  <2>2. CASE ~(slot < HIST_WORDS /\ slot < n)
    BY <2>2 DEF Held, Empty
  <2> QED BY <2>1, <2>2
<1> QED BY <1>1, <1>4, <1>5, <1>6
(* Where the index of a unit points to in its stream: the scrambler puts   *)
(* out the word the table of build_scrambler says, its counterpart the     *)
(* words in their order.                                                   *)
Left(unit, n) == IF unit = "undo" THEN n % WordLimit ELSE Word("undo", n)
LEMMA TurnLeads ==
    ASSUME Tabled, pass = "stream", Order(data_stream, PERIOD), NEW unit \in Units, NEW n \in Nat
    PROVE  /\ n + MAX_DISPLACE - Turn(unit, n) \in Nat
           /\ Word(unit, n + MAX_DISPLACE - Turn(unit, n)) = Left(unit, n)
<1> DEFINE r == n % PERIOD
           at == r + 1
           first == n - r
           turn == Turn(unit, n)
<1>1. PERIOD \in Nat \ {0} /\ r \in 0..(PERIOD - 1) /\ at \in 1..PERIOD /\ first \in Nat
      /\ n = first + r /\ at - 1 = r /\ MAX_DISPLACE \in Nat
  BY Sizes
<1>2. turn = Turns(unit)[at] /\ turn \in Slots /\ turn \in Nat
  <2>1. turn \in Slots
    BY WordsHold
  <2>2. turn = Turns(unit)[at]
    BY DEF Turn
  <2>3. \A slot \in Slots : slot \in Nat
    BY Sizes DEF Slots
  <2> HIDE DEF turn
  <2> QED BY <2>1, <2>2, <2>3
<1>3. Word("undo", n) = (first + data_stream[at]) % WordLimit
  BY DEF Word
<1>4. data_stream[at] \in 0..(PERIOD - 1)
  <2> HIDE DEF at
  <2> QED BY <1>1 DEF Order
<1>5. CASE unit = "undo"
  <2> DEFINE place == at + MAX_DISPLACE - turn
             to == n + MAX_DISPLACE - turn
  <2>1. place \in 1..PERIOD /\ data_stream[place] = at - 1
    <3>1. Found(PERIOD)
      BY DEF Tabled
    <3>2. \A k \in 1..PERIOD : /\ k + MAX_DISPLACE - undo_indices[k] \in 1..PERIOD
                               /\ data_stream[k + MAX_DISPLACE - undo_indices[k]] = k - 1
      BY <3>1 DEF Found
    <3>3. turn = undo_indices[at]
      BY <1>2, <1>5 DEF Turns
    <3> HIDE DEF at, turn
    <3> QED BY <1>1, <3>2, <3>3
  <2>2. place \in Int /\ to = first + (place - 1) /\ place - 1 \in 0..(PERIOD - 1)
    <3>1. place \in 1..PERIOD
      BY <2>1
    <3>2. place \in Int /\ place - 1 \in 0..(PERIOD - 1)
      <4> HIDE DEF place
      <4> QED BY <1>1, <3>1
    <3>3. to = first + (place - 1)
      <4> HIDE DEF r, turn
      <4> QED BY <1>1, <1>2
    <3> QED BY <3>2, <3>3
  <2>3. to \in Nat
    <3> HIDE DEF to, first, place
    <3> QED BY <1>1, <2>2
  <2>4. to % PERIOD = place - 1
    <3> DEFINE q == n \div PERIOD
    <3>1. q \in Int /\ first = q * PERIOD
      <4>1. n = (n \div PERIOD) * PERIOD + r /\ n \div PERIOD \in Int
        <5>1. PERIOD \in Nat \ {0}
          BY <1>1
        <5> QED BY <5>1, Divided
      <4> DEFINE p == q * PERIOD
      <4>2. p \in Int /\ n = p + r
        BY <1>1, <4>1
      <4>3. first = p
        <5> HIDE DEF p, r, first
        <5>1. n = first + r /\ first \in Int /\ r \in Int
          BY <1>1
        <5> QED BY <4>2, <5>1
      <4> HIDE DEF first
      <4> QED BY <4>1, <4>3
    <3> HIDE DEF to, first, place, q
    <3>2. to = q * PERIOD + (place - 1) /\ to \in Int
      BY <2>2, <2>3, <3>1
    <3>3. ASSUME NEW a \in Int, NEW d \in Int, NEW e \in 0..(PERIOD - 1), a = d * PERIOD + e
          PROVE  a % PERIOD = e
      BY <1>1, <3>3, Quotient
    <3> QED BY <2>2, <3>1, <3>2, <3>3, Zenon
  <2>5. to - (to % PERIOD) = first /\ (to % PERIOD) + 1 = place
    <3> HIDE DEF to, first, place
    <3>1. first \in Int /\ place \in Int
      BY <1>1, <2>2
    <3> QED BY <2>2, <2>4, <3>1
  <2>6. Word(unit, to) = (first + data_stream[place]) % WordLimit
    <3>1. Word(unit, to) = ((to - (to % PERIOD)) + data_stream[(to % PERIOD) + 1]) % WordLimit
      BY <1>5 DEF Word
    <3> HIDE DEF to, first, place
    <3> QED BY <2>5, <3>1
  <2>7. first + data_stream[place] = n
    <3>1. data_stream[place] = r
      <4> HIDE DEF place, r
      <4> QED BY <1>1, <2>1
    <3> HIDE DEF place, first, r
    <3> QED BY <1>1, <3>1
  <2>8. Left(unit, n) = n % WordLimit
    BY <1>5 DEF Left
  <2> HIDE DEF place, first, to
  <2>9. to \in Nat /\ Word(unit, to) = Left(unit, n)
    BY <2>3, <2>6, <2>7, <2>8, Zenon
  <2> QED BY <2>9 DEF to
<1>6. CASE unit = "scramble"
  <2> DEFINE to == n + MAX_DISPLACE - turn
             word == data_stream[at]
  <2>1. turn = at - 1 + MAX_DISPLACE - word
    <3>1. Drew(PERIOD)
      BY DEF Tabled
    <3>2. \A k \in 1..PERIOD : indices[k] = k - 1 + MAX_DISPLACE - data_stream[k]
      BY <3>1 DEF Drew
    <3>3. turn = indices[at]
      BY <1>2, <1>6 DEF Turns
    <3> HIDE DEF at, turn
    <3> QED BY <1>1, <3>2, <3>3
  <2>2. to = first + word /\ to \in Nat
    <3> HIDE DEF at, turn, word, first, r
    <3>1. word \in 0..(PERIOD - 1)
      BY <1>4 DEF word
    <3>2. n = first + r /\ at - 1 = r /\ first \in Nat /\ r \in Int /\ word \in Nat /\ turn \in Int
          /\ MAX_DISPLACE \in Int /\ at \in Int
      BY <1>1, <1>2, <3>1
    <3>3. n + MAX_DISPLACE - turn = first + word /\ first + word \in Nat
      BY <2>1, <3>2
    <3> QED BY <3>3 DEF to
  <2>3. Word(unit, to) = to % WordLimit /\ Left(unit, n) = Word("undo", n)
    BY <1>6 DEF Word, Left
  <2> HIDE DEF to, first
  <2>4. to \in Nat /\ Word(unit, to) = Left(unit, n)
    BY <1>3, <2>2, <2>3, Zenon
  <2> QED BY <2>4 DEF to
<1> QED BY <1>5, <1>6 DEF Units

(* What a unit puts out when its output is valid.                          *)
LEMMA DoutHolds ==
    ASSUME CountFits, Tabled, pass = "stream", Order(data_stream, PERIOD),
           NEW unit \in Units, NEW n \in Nat, Run(unit, n), n >= StartCount + 2
    PROVE  dout(unit) = Left(unit, n - (StartCount + 2))
<1> DEFINE j == n - (StartCount + 2)
           turn == Turn(unit, j)
<1>1. /\ Layers \in Nat /\ Layers >= 1 /\ MAX_DISPLACE \in Nat /\ j \in Nat
      /\ n - MAX_DISPLACE - 1 - Layers = j /\ n - Layers = j + MAX_DISPLACE + 1
      /\ n >= MAX_DISPLACE + 1 + Layers /\ Layers \in 1..Layers
  <2>1. StartCount = MAX_DISPLACE + Layers - 1
    BY StartSizes
  <2>2. Layers \in Nat /\ Layers >= 1 /\ MAX_DISPLACE \in Nat
    BY SelectSizes, Sizes
  <2> QED BY <2>1, <2>2
<1>2. Width(Layers) = 1 /\ 0 \in 0..(Width(Layers) - 1)
  <2>1. 2 * Layers >= NUM_SEL
    BY SelectSizes
  <2>2. Width(Layers) = 1
    BY <2>1 DEF Width
  <2> QED BY <2>2
<1>3. turn \in Slots /\ turn \in Nat /\ turn < HIST_WORDS
  <2>1. turn \in Slots
    BY <1>1, WordsHold
  <2>2. \A slot \in Slots : slot \in Nat /\ slot < HIST_WORDS
    BY Sizes DEF Slots, HIST_WORDS
  <2> HIDE DEF turn
  <2> QED BY <2>1, <2>2
<1>4. j + MAX_DISPLACE - turn \in Nat /\ Word(unit, j + MAX_DISPLACE - turn) = Left(unit, j)
  <2> HIDE DEF j
  <2> QED BY <1>1, TurnLeads
<1>5. dout(unit) = Held(unit, n - Layers, Low(turn, Layers) + Two[2 * Layers] * 0)
  <2>1. \A way \in 0..(Width(Layers) - 1) : pipe[unit][Layers][way] =
          Held(unit, n - Layers, Low(Turn(unit, n - MAX_DISPLACE - 1 - Layers), Layers)
                                   + Two[2 * Layers] * way)
    BY <1>1 DEF Run
  <2>2. dout(unit) = Held(unit, n - Layers, Low(Turn(unit, n - MAX_DISPLACE - 1 - Layers), Layers)
                                   + Two[2 * Layers] * 0)
    BY <1>2, <2>1, Zenon DEF dout
  <2> HIDE DEF j
  <2> QED BY <1>1, <2>2
<1>6. Low(turn, Layers) + Two[2 * Layers] * 0 = turn
  <2>1. Low(turn, Layers) = turn
    BY <1>3, LowWhole
  <2>2. \A a \in Nat : turn + a * 0 = turn
    BY <1>3
  <2>3. Two[2 * Layers] \in Nat
    BY <1>1, TwoHolds
  <2> HIDE DEF turn
  <2> QED BY <2>1, <2>2, <2>3
<1>7. Held(unit, n - Layers, turn) = Word(unit, j + MAX_DISPLACE - turn)
  <2> HIDE DEF j, turn
  <2>1. turn < HIST_WORDS /\ turn < n - Layers
        /\ (n - Layers) - 1 - turn = j + MAX_DISPLACE - turn
    BY <1>1, <1>3, <1>4
  <2> QED BY <2>1 DEF Held
<1> QED BY <1>4, <1>5, <1>6, <1>7
------------------------------------------------------------------------------
(* One clock of a unit that is enabled, and takes in the next word of its  *)

(* stream: the window ...                                                  *)
LEMMA WindowMoves ==
    ASSUME Tabled, pass = "stream", Order(data_stream, PERIOD),
           NEW unit \in Units, NEW n \in Nat, Run(unit, n),
           NEW next, next = shift_in(history[unit], Word(unit, n))
    PROVE  /\ next \in Windows
           /\ \A slot \in Slots : Slot(next, slot) = Held(unit, n + 1, slot)
<1>1. /\ history[unit] \in Windows
      /\ \A slot \in Slots : Slot(history[unit], slot) = Held(unit, n, slot)
  BY DEF Run
<1>2. Word(unit, n) \in Int
  BY WordsHold
<1>3. /\ next \in Windows
      /\ Slot(next, 0) = Word(unit, n)
      /\ \A slot \in Slots \ {0} : Slot(next, slot) = Slot(history[unit], slot - 1)
  BY <1>1, <1>2, ShiftIn
<1>4. ASSUME NEW slot \in Slots PROVE Slot(next, slot) = Held(unit, n + 1, slot)
  <2>1. slot \in Nat /\ slot < HIST_WORDS
    BY Sizes DEF Slots, HIST_WORDS
  <2>2. CASE slot = 0
    <3>1. slot < n + 1 /\ (n + 1) - 1 - slot = n
      BY <2>2
    <3> QED BY <1>3, <2>1, <2>2, <3>1 DEF Held
  <2>3. CASE slot # 0
    <3>1. slot - 1 \in Slots /\ slot - 1 < HIST_WORDS
      BY <2>1, <2>3, Sizes DEF Slots, HIST_WORDS
    <3>2. Slot(next, slot) = Held(unit, n, slot - 1)
      BY <1>1, <1>3, <2>3, <3>1
    <3>3. n - 1 - (slot - 1) = (n + 1) - 1 - slot /\ (slot - 1 < n <=> slot < n + 1)
      BY <2>1
    <3> QED BY <2>1, <3>1, <3>2, <3>3 DEF Held
  <2> QED BY <2>2, <2>3
<1> QED BY <1>3, <1>4

(* ... and a layer of the mux, which takes the next digit of the select.   *)
LEMMA LayerMoves ==
    ASSUME Tabled, pass = "stream", Order(data_stream, PERIOD),
           NEW unit \in Units, NEW n \in Nat, Run(unit, n),
           NEW next \in Nat, next = n + 1,
           NEW layer \in 1..Layers, next >= MAX_DISPLACE + 1 + layer,
           NEW way \in 0..(Width(layer) - 1)
    PROVE  Source(unit, layer)[4 * way + Bits(sel[unit], 2 * (layer - 1))] =
             Held(unit, next - layer,
                  Low(Turn(unit, next - MAX_DISPLACE - 1 - layer), layer) + Two[2 * layer] * way)
<1> DEFINE m == layer - 1
           j == n - MAX_DISPLACE - layer
           turn == Turn(unit, j)
           digit == Bits(turn, 2 * m)
           from == 4 * way + digit
<1>1. /\ layer \in Nat /\ m \in Nat /\ m < Layers /\ j \in Nat /\ n - 1 \in Nat /\ n >= 1
      /\ next - MAX_DISPLACE - 1 - layer = j /\ m + 1 = layer
      /\ (n - 1) - MAX_DISPLACE - m = j /\ MAX_DISPLACE \in Nat
  BY SelectSizes, Sizes
<1>2. turn \in Slots /\ turn \in Nat
  <2>1. turn \in Slots
    BY <1>1, WordsHold
  <2> HIDE DEF turn
  <2> QED BY <2>1, SlotBelow
<1>3. Bits(sel[unit], 2 * m) = digit
  <2>1. sel[unit] = latency_adjustment(Turns(unit))[((n - 1) % PERIOD) + 1]
    <3>1. sel[unit] = table[unit][((n - 1) % PERIOD) + 1]
      BY <1>1 DEF Run
    <3>2. table[unit] = latency_adjustment(Turns(unit))
      <4>1. table = [u \in Units |-> latency_adjustment(Turns(u))]
        BY DEF Tabled
      <4> QED BY <4>1
    <3> QED BY <3>1, <3>2
  <2>2. Turns(unit) \in [1..PERIOD -> Slots]
    BY WordsHold
  <2>3. \A k \in Nat : k < Layers =>
          Bits(latency_adjustment(Turns(unit))[((n - 1) % PERIOD) + 1], 2 * k)
            = Bits(Turns(unit)[(((n - 1) - MAX_DISPLACE - k) % PERIOD) + 1], 2 * k)
    BY <1>1, <2>2, TableHolds
  <2>4. Bits(sel[unit], 2 * m) =
          Bits(Turns(unit)[(((n - 1) - MAX_DISPLACE - m) % PERIOD) + 1], 2 * m)
    <3> HIDE DEF m
    <3> QED BY <1>1, <2>1, <2>3
  <2>5. turn = Turns(unit)[(((n - 1) - MAX_DISPLACE - m) % PERIOD) + 1]
    <3> HIDE DEF m, j
    <3> QED BY <1>1 DEF Turn
  <2> HIDE DEF m, j, turn
  <2> QED BY <2>4, <2>5 DEF turn
<1>4. /\ digit \in 0..3 /\ Low(turn, 0) = 0
      /\ Low(turn, m) \in Nat
      /\ Low(turn, layer) = Low(turn, m) + Two[2 * m] * digit
  <2> HIDE DEF turn, m
  <2>1. ASSUME NEW a \in Nat, NEW k \in Nat
        PROVE /\ Low(a, 0) = 0 /\ Low(a, k) \in Nat /\ Bits(a, 2 * k) \in 0..3
              /\ Low(a, k + 1) = Low(a, k) + Two[2 * k] * Bits(a, 2 * k)
    BY LowHolds
  <2> QED BY <1>1, <1>2, <2>1
<1>5. from \in 0..((IF layer = 1 THEN PaddedWords ELSE Width(layer - 1)) - 1) /\ way \in Nat
  <2>1. way \in Nat
    OBVIOUS
  <2> HIDE DEF turn
  <2> QED BY <1>2, <2>1, WidthHolds
<1>6. Two[2 * layer] = 4 * Two[2 * m] /\ Two[2 * m] \in Nat
  <2>1. 2 * layer = (2 * m + 1) + 1 /\ 2 * m + 1 \in Nat /\ 2 * m \in Nat
    BY <1>1
  <2> HIDE DEF m
  <2>2. Two[(2 * m + 1) + 1] = 2 * Two[2 * m + 1] /\ Two[2 * m + 1] = 2 * Two[2 * m]
        /\ Two[2 * m] \in Nat
    BY <2>1, TwoHolds
  <2> QED BY <2>1, <2>2
<1>7. Low(turn, m) + Two[2 * m] * from = Low(turn, layer) + Two[2 * layer] * way
  <2> DEFINE low == Low(turn, m)
             unt == Two[2 * m]
  <2>1. low \in Nat /\ unt \in Nat /\ digit \in Nat
    BY <1>4, <1>6
  <2>2. Low(turn, layer) = low + unt * digit /\ Two[2 * layer] = 4 * unt
    BY <1>4, <1>6
  <2> HIDE DEF low, unt, digit
  <2>3. low + unt * (4 * way + digit) = (low + unt * digit) + (4 * unt) * way
    BY <1>5, <2>1
  <2>4. low + unt * from = Low(turn, layer) + Two[2 * layer] * way
    BY <2>2, <2>3, Zenon
  <2> QED BY <2>4 DEF low, unt
<1>8. Source(unit, layer)[from] = Held(unit, next - layer, Low(turn, m) + Two[2 * m] * from)
  <2> HIDE DEF from, turn
  <2>1. CASE layer = 1
    <3>1. from \in 0..(PaddedWords - 1) /\ from \in Nat
      <4>1. from \in 0..(PaddedWords - 1)
        BY <1>5, <2>1
      <4> QED BY <4>1
    <3>2. Source(unit, layer)[from] =
            IF from < HIST_WORDS THEN Slot(history[unit], from) ELSE Empty
      BY <2>1, <3>1 DEF Source
    <3>3. from < HIST_WORDS => from \in Slots
      BY <3>1, Sizes DEF HIST_WORDS, Slots
    <3>4. Source(unit, layer)[from] = Held(unit, n, from)
      BY <3>2, <3>3 DEF Run, Held
    <3>5. next - layer = n /\ Low(turn, m) + Two[2 * m] * from = from
      <4>1. m = 0 /\ 2 * m = 0 /\ Two[0] = 1
        BY <2>1, TwoHolds
      <4>2. Low(turn, m) = 0 /\ Two[2 * m] = 1
        BY <1>4, <4>1
      <4> QED BY <2>1, <3>1, <4>2
    <3> QED BY <3>4, <3>5
  <2>2. CASE layer # 1
    <3>1. m \in 1..Layers /\ layer - 1 = m /\ from \in 0..(Width(m) - 1)
          /\ n >= MAX_DISPLACE + 1 + m /\ n - MAX_DISPLACE - 1 - m = j /\ n - m = next - layer
      <4>1. from \in 0..(Width(m) - 1)
        BY <1>5, <2>2
      <4> HIDE DEF from
      <4>2. m \in 1..Layers /\ layer - 1 = m /\ n >= MAX_DISPLACE + 1 + m
            /\ n - MAX_DISPLACE - 1 - m = j /\ n - m = next - layer
        BY <1>1, <2>2, SelectSizes
      <4> QED BY <4>1, <4>2
    <3>2. Source(unit, layer) = pipe[unit][m]
      BY <2>2 DEF Source
    <3>3. \A w \in 0..(Width(m) - 1) : pipe[unit][m][w] =
            Held(unit, n - m, Low(Turn(unit, n - MAX_DISPLACE - 1 - m), m) + Two[2 * m] * w)
      <4> HIDE DEF m
      <4> QED BY <3>1 DEF Run
    <3>4. pipe[unit][m][from] =
            Held(unit, n - m, Low(Turn(unit, n - MAX_DISPLACE - 1 - m), m) + Two[2 * m] * from)
      <4> HIDE DEF m
      <4> QED BY <3>1, <3>3
    <3>5. Turn(unit, n - MAX_DISPLACE - 1 - m) = turn
      <4> HIDE DEF j, m
      <4> QED BY <3>1 DEF turn
    <3> HIDE DEF j, m
    <3> QED BY <3>1, <3>2, <3>4, <3>5
  <2> QED BY <2>1, <2>2
<1>9. 4 * way + Bits(sel[unit], 2 * (layer - 1)) = from
  <2>1. 2 * (layer - 1) = 2 * m
    OBVIOUS
  <2> QED BY <1>3, <2>1
<1>10. Turn(unit, next - MAX_DISPLACE - 1 - layer) = turn
  <2> HIDE DEF j
  <2> QED BY <1>1 DEF turn
<1> HIDE DEF from, turn, m
<1> QED BY <1>7, <1>8, <1>9, <1>10

(* The tables do not change, so what is said of the streams stays.         *)
LEMMA SteadyWords ==
    ASSUME UNCHANGED progVars, NEW unit \in Units
    PROVE  /\ \A n : Turn(unit, n)' = Turn(unit, n) /\ Word(unit, n)' = Word(unit, n)
           /\ \A n, slot : Held(unit, n, slot)' = Held(unit, n, slot)
<1>1. data_stream' = data_stream /\ indices' = indices /\ undo_indices' = undo_indices
  BY DEF progVars
<1>2. \A n : Turn(unit, n)' = Turn(unit, n)
  BY <1>1 DEF Turn, Turns
<1>3. \A n : Word(unit, n)' = Word(unit, n)
  BY <1>1 DEF Word
<1>4. \A n, slot : Held(unit, n, slot)' = Held(unit, n, slot)
  BY <1>1 DEF Held, Word
<1> QED BY <1>2, <1>3, <1>4

(* The whole unit, one clock on.                                           *)
LEMMA RunOn ==
    ASSUME CountFits, Tabled, pass = "stream", Order(data_stream, PERIOD), UNCHANGED progVars,
           NEW unit \in Units, NEW n \in Nat, Run(unit, n),
           history'[unit] = shift_in(history[unit], Word(unit, n)),
           pipe'[unit] = [layer \in 1..Layers |-> [way \in 0..(Width(layer) - 1) |->
              Source(unit, layer)[4 * way + Bits(sel[unit], 2 * (layer - 1))]]],
           cntr[unit] < PERIOD => sel'[unit] = table[unit][cntr[unit] + 1],
           cntr'[unit] = (cntr[unit] + 1) % Two[CNTR_BITS],
           dout_active'[unit] = (dout_active[unit] \/ cntr[unit] = StartCount),
           NEW on \in BOOLEAN, on, dout_valid'[unit] = (dout_active[unit] /\ on)
    PROVE  Run(unit, n + 1)'
<1>1. PICK next \in Nat : next = n + 1
  OBVIOUS
<1>2. cntr[unit] = n % PERIOD /\ PERIOD \in Nat \ {0}
  BY Sizes DEF Run
<1>3. cntr'[unit] = (n + 1) % PERIOD
  <2>1. ((n % PERIOD) + 1) % PERIOD = (n + 1) % PERIOD
    <3>1. n \in Int /\ 1 \in Int
      OBVIOUS
    <3> QED BY <1>2, <3>1, ModShift
  <2>2. cntr'[unit] = ((n % PERIOD) + 1) % PERIOD
    BY <1>2 DEF CountFits
  <2> QED BY <2>1, <2>2
<1>4. /\ history'[unit] \in Windows
      /\ \A slot \in Slots : Slot(history'[unit], slot) = Held(unit, n + 1, slot)
  BY WindowMoves
<1>5. sel'[unit] = table[unit][(n % PERIOD) + 1]
  <2>1. cntr[unit] < PERIOD
    BY <1>2
  <2> QED BY <1>2, <2>1
<1>6. ASSUME NEW layer \in 1..Layers, next >= MAX_DISPLACE + 1 + layer,
             NEW way \in 0..(Width(layer) - 1)
      PROVE  pipe'[unit][layer][way] = Held(unit, next - layer,
                Low(Turn(unit, next - MAX_DISPLACE - 1 - layer), layer) + Two[2 * layer] * way)
  <2>1. pipe'[unit][layer][way] =
          Source(unit, layer)[4 * way + Bits(sel[unit], 2 * (layer - 1))]
    OBVIOUS
  <2> QED BY <1>6, <1>1, <2>1, LayerMoves
<1>7. StartCount \in Nat /\ StartCount < PERIOD
  BY StartSizes
<1>8. dout_active[unit] \in BOOLEAN /\ (dout_active[unit] <=> n > StartCount)
  BY DEF Run
<1>9. n <= StartCount => cntr[unit] = n
  BY <1>2, <1>7
<1>10. dout_active'[unit] \in BOOLEAN /\ (dout_active'[unit] <=> n + 1 > StartCount)
  <2>1. CASE n > StartCount
    <3>1. n + 1 > StartCount
      BY <1>7, <2>1
    <3> QED BY <1>8, <2>1, <3>1, Zenon
  <2>2. CASE ~(n > StartCount)
    <3>1. cntr[unit] = StartCount <=> n + 1 > StartCount
      BY <1>7, <1>9, <2>2
    <3> QED BY <1>8, <2>2, <3>1, Zenon
  <2> QED BY <2>1, <2>2
<1>11. dout_valid'[unit] \in BOOLEAN /\ (dout_valid'[unit] => n + 1 >= StartCount + 2)
  <2>1. n > StartCount => n + 1 >= StartCount + 2
    BY <1>7
  <2> QED BY <1>8, <2>1, Zenon
<1>12. (n + 1) - 1 = n /\ n + 1 >= 1
  OBVIOUS
<1>13. table' = table /\ data_stream' = data_stream
  BY DEF progVars
<1>14. n + 1 >= 1 => sel'[unit] = table'[unit][((n + 1 - 1) % PERIOD) + 1]
  BY <1>5, <1>12, <1>13
<1>15. \A slot \in Slots : Slot(history'[unit], slot) = Held(unit, n + 1, slot)'
  BY <1>4, SteadyWords
<1>16. Run(unit, next)'
  <2>1. \A layer \in 1..Layers : next >= MAX_DISPLACE + 1 + layer =>
         \A way \in 0..(Width(layer) - 1) :
            pipe'[unit][layer][way] = Held(unit, next - layer,
                Low(Turn(unit, next - MAX_DISPLACE - 1 - layer), layer) + Two[2 * layer] * way)'
    <3> SUFFICES ASSUME NEW layer \in 1..Layers, next >= MAX_DISPLACE + 1 + layer,
                        NEW way \in 0..(Width(layer) - 1)
                 PROVE  pipe'[unit][layer][way] = Held(unit, next - layer,
                  Low(Turn(unit, next - MAX_DISPLACE - 1 - layer), layer) + Two[2 * layer] * way)'
      OBVIOUS
    <3>1. pipe'[unit][layer][way] = Held(unit, next - layer,
            Low(Turn(unit, next - MAX_DISPLACE - 1 - layer), layer) + Two[2 * layer] * way)
      BY <1>6
    <3>2. Turn(unit, next - MAX_DISPLACE - 1 - layer)' = Turn(unit, next - MAX_DISPLACE - 1 - layer)
      BY SteadyWords
    <3>3. Held(unit, next - layer, Low(Turn(unit, next - MAX_DISPLACE - 1 - layer), layer)
                 + Two[2 * layer] * way)'
        = Held(unit, next - layer, Low(Turn(unit, next - MAX_DISPLACE - 1 - layer), layer)
                 + Two[2 * layer] * way)
      BY <3>2, <1>13 DEF Held, Word, Low
    <3> QED BY <3>1, <3>3
  <2>2. \A slot \in Slots : Slot(history'[unit], slot) = Held(unit, next, slot)'
    BY <1>1, <1>15
  <2>3. next >= 1 => sel'[unit] = table'[unit][((next - 1) % PERIOD) + 1]
    BY <1>14, <1>1
  <2>4. /\ dout_active'[unit] \in BOOLEAN /\ (dout_active'[unit] <=> next > StartCount)
        /\ dout_valid'[unit] \in BOOLEAN /\ (dout_valid'[unit] => next >= StartCount + 2)
        /\ cntr'[unit] = next % PERIOD
    BY <1>3, <1>10, <1>11, <1>1
  <2> QED BY <1>4, <2>1, <2>2, <2>3, <2>4 DEF Run
<1> QED BY <1>1, <1>16

(* A unit that is held keeps what it has; its output is no longer valid.   *)
LEMMA RunOff ==
    ASSUME CountFits, UNCHANGED progVars,
           NEW unit \in Units, NEW n \in Nat, Run(unit, n),
           history'[unit] = history[unit], pipe'[unit] = pipe[unit],
           sel'[unit] = sel[unit], cntr'[unit] = cntr[unit],
           dout_active'[unit] = (dout_active[unit] \/ cntr[unit] = StartCount),
           dout_active[unit] \/ cntr[unit] # StartCount,
           dout_valid'[unit] = FALSE
    PROVE  Run(unit, n)'
<1>1. dout_active'[unit] = dout_active[unit]
  <2>1. dout_active[unit] \in BOOLEAN
    BY DEF Run
  <2> QED BY <2>1, Zenon
<1>2. table' = table /\ data_stream' = data_stream
  BY DEF progVars
<1>3. \A layer \in 1..Layers : n >= MAX_DISPLACE + 1 + layer =>
         \A way \in 0..(Width(layer) - 1) :
            pipe'[unit][layer][way] = Held(unit, n - layer,
                Low(Turn(unit, n - MAX_DISPLACE - 1 - layer), layer) + Two[2 * layer] * way)'
  <2> SUFFICES ASSUME NEW layer \in 1..Layers, n >= MAX_DISPLACE + 1 + layer,
                      NEW way \in 0..(Width(layer) - 1)
               PROVE  pipe'[unit][layer][way] = Held(unit, n - layer,
                Low(Turn(unit, n - MAX_DISPLACE - 1 - layer), layer) + Two[2 * layer] * way)'
    OBVIOUS
  <2>1. Turn(unit, n - MAX_DISPLACE - 1 - layer)' = Turn(unit, n - MAX_DISPLACE - 1 - layer)
    BY SteadyWords
  <2>2. Held(unit, n - layer, Low(Turn(unit, n - MAX_DISPLACE - 1 - layer), layer)
               + Two[2 * layer] * way)'
      = Held(unit, n - layer, Low(Turn(unit, n - MAX_DISPLACE - 1 - layer), layer)
               + Two[2 * layer] * way)
    BY <2>1, <1>2 DEF Held, Word, Low
  <2> QED BY <2>2 DEF Run
<1>4. \A slot \in Slots : Slot(history'[unit], slot) = Held(unit, n, slot)'
  BY SteadyWords DEF Run
<1> QED BY <1>1, <1>2, <1>3, <1>4 DEF Run

(* One clock of either unit.                                               *)
LEMMA UnitClocked ==
    ASSUME CountFits, Tabled, pass = "stream", Order(data_stream, PERIOD), UNCHANGED progVars,
           NEW ena \in BOOLEAN, Clock(ena), ~tripped',
           NEW unit \in Units, NEW n \in Nat, Run(unit, n),
           NEW on \in BOOLEAN, on = IF unit = "undo" THEN dout_valid["scramble"] ELSE ena,
           on => (IF unit = "undo" THEN dout("scramble") ELSE din) = Word(unit, n)
    PROVE  /\ on => Run(unit, n + 1)'
           /\ ~on => Run(unit, n)'
           /\ dout_valid'[unit] = (on /\ n > StartCount)
<1>1. /\ history'[unit] = IF on THEN shift_in(history[unit],
                             IF unit = "undo" THEN dout("scramble") ELSE din) ELSE history[unit]
      /\ sel'[unit] = IF on /\ cntr[unit] < PERIOD THEN table[unit][cntr[unit] + 1] ELSE sel[unit]
      /\ cntr'[unit] = IF on THEN (cntr[unit] + 1) % Two[CNTR_BITS] ELSE cntr[unit]
      /\ dout_active'[unit] = (dout_active[unit] \/ cntr[unit] = StartCount)
  BY DEF Clock
<1>2. pipe'[unit] = IF ~on THEN pipe[unit] ELSE
        [layer \in 1..Layers |-> [way \in 0..(Width(layer) - 1) |->
           Source(unit, layer)[4 * way + Bits(sel[unit], 2 * (layer - 1))]]]
  BY DEF Clock
<1>3. dout_valid'[unit] = (dout_active[unit] /\ on)
  BY DEF Clock
<1>4. on \/ dout_active[unit] \/ cntr[unit] # StartCount
  BY DEF Clock
<1>5. dout_active[unit] \in BOOLEAN /\ (dout_active[unit] <=> n > StartCount)
  BY DEF Run
<1>6. CASE on
  <2>1. history'[unit] = shift_in(history[unit], Word(unit, n))
    BY <1>1, <1>6
  <2>2. pipe'[unit] = [layer \in 1..Layers |-> [way \in 0..(Width(layer) - 1) |->
           Source(unit, layer)[4 * way + Bits(sel[unit], 2 * (layer - 1))]]]
    BY <1>2, <1>6, Zenon
  <2>3. /\ cntr[unit] < PERIOD => sel'[unit] = table[unit][cntr[unit] + 1]
        /\ cntr'[unit] = (cntr[unit] + 1) % Two[CNTR_BITS]
    BY <1>1, <1>6
  <2>4. Run(unit, n + 1)'
    BY <1>1, <1>3, <1>6, <2>1, <2>2, <2>3, RunOn
  <2> QED BY <1>3, <1>5, <1>6, <2>4, Zenon
<1>7. CASE ~on
  <2>1. /\ history'[unit] = history[unit] /\ sel'[unit] = sel[unit] /\ cntr'[unit] = cntr[unit]
        /\ pipe'[unit] = pipe[unit]
    BY <1>1, <1>2, <1>7, Zenon
  <2>2. dout_valid'[unit] = FALSE
    BY <1>3, <1>5, <1>7, Zenon
  <2>3. Run(unit, n)'
    BY <1>1, <1>4, <1>7, <2>1, <2>2, RunOff
  <2> QED BY <1>7, <2>2, <2>3, Zenon
<1> QED BY <1>6, <1>7, Zenon

(* From the count that starts a unit on, a clock passes a word.            *)
LEMMA PassedOn ==
    ASSUME CountFits, NEW n \in Nat
    PROVE  /\ Passed(n) \in Nat
           /\ Passed(n + 1) = Passed(n) + IF n > StartCount THEN 1 ELSE 0
           /\ n >= StartCount + 2 => Passed(n) = n - (StartCount + 1)
<1>1. StartCount \in Nat
  BY StartSizes
<1> QED BY <1>1 DEF Passed

(* Both units, one clock on.                                               *)
LEMMA StreamsOn ==
    ASSUME CountFits, Tabled, pass = "stream", Order(data_stream, PERIOD), Streams,
           UNCHANGED progVars, NEW ena \in BOOLEAN, Clock(ena)
    PROVE  Streams'
<1> SUFFICES ASSUME ~tripped'
             PROVE  \E first \in Nat, second \in Nat, taken \in Nat : Both(first, second, taken)'
  BY DEF Streams
<1>1. ~tripped
  BY DEF Clock
<1>2. PICK first \in Nat, second \in Nat, taken \in Nat : Both(first, second, taken)
  BY <1>1 DEF Streams
<1>3. Run("scramble", first) /\ Run("undo", second) /\ "scramble" \in Units /\ "undo" \in Units
      /\ "scramble" # "undo"
  BY <1>2 DEF Both, Units
<1>4. dout_valid["scramble"] \in BOOLEAN /\ dout_valid["undo"] \in BOOLEAN
  BY <1>3 DEF Run
<1>5. /\ second + Shown("scramble") = Passed(first) /\ taken + Shown("undo") = Passed(second)
      /\ din = first % WordLimit /\ got = taken % WordLimit
  BY <1>2 DEF Both
<1> DEFINE shown == dout_valid["scramble"]
           shown2 == dout_valid["undo"]
<1>6. /\ ena => Run("scramble", first + 1)'
      /\ ~ena => Run("scramble", first)'
      /\ dout_valid'["scramble"] = (ena /\ first > StartCount)
  <2>1. din = Word("scramble", first)
    BY <1>5 DEF Word
  <2>2. ena = IF "scramble" = "undo" THEN dout_valid["scramble"] ELSE ena
    OBVIOUS
  <2>3. (IF "scramble" = "undo" THEN dout("scramble") ELSE din) = Word("scramble", first)
    BY <2>1
  <2> QED BY <1>3, <2>2, <2>3, UnitClocked
<1>7. /\ shown => Run("undo", second + 1)'
      /\ ~shown => Run("undo", second)'
      /\ dout_valid'["undo"] = (shown /\ second > StartCount)
  <2>1. shown => dout("scramble") = Word("undo", second)
    <3> SUFFICES ASSUME shown PROVE dout("scramble") = Word("undo", second)
      OBVIOUS
    <3>1. first >= StartCount + 2
      BY <1>3 DEF Run
    <3>2. dout("scramble") = Left("scramble", first - (StartCount + 2))
      BY <1>3, <3>1, DoutHolds
    <3>3. second = first - (StartCount + 2)
      <4>1. second + 1 = Passed(first)
        BY <1>5 DEF Shown
      <4>2. StartCount \in Nat
        BY StartSizes
      <4> QED BY <3>1, <4>1, <4>2 DEF Passed
    <3> QED BY <1>3, <3>2, <3>3 DEF Left
  <2>2. shown = IF "undo" = "undo" THEN dout_valid["scramble"] ELSE ena
    OBVIOUS
  <2>3. shown => (IF "undo" = "undo" THEN dout("scramble") ELSE din) = Word("undo", second)
    BY <2>1
  <2>4. shown \in BOOLEAN
    BY <1>4
  <2> HIDE DEF shown
  <2> QED BY <1>3, <2>2, <2>3, <2>4, UnitClocked
<1>8. ASSUME NEW flag \in BOOLEAN
      PROVE  \A n \in Nat : n + (IF flag THEN 1 ELSE 0) \in Nat
  OBVIOUS
<1> DEFINE One(flag) == IF flag THEN 1 ELSE 0
<1>9. PICK first2 \in Nat : first2 = first + One(ena)
  BY <1>8
<1>10. PICK second2 \in Nat : second2 = second + One(shown)
  BY <1>4, <1>8
<1>11. PICK taken2 \in Nat : taken2 = taken + One(shown2)
  BY <1>4, <1>8
<1>12. Run("scramble", first2)'
  <2>1. CASE ena
    <3>1. first2 = first + 1
      BY <1>9, <2>1
    <3> QED BY <1>6, <2>1, <3>1
  <2>2. CASE ~ena
    <3>1. first2 = first
      BY <1>9, <2>2
    <3> QED BY <1>6, <2>2, <3>1
  <2> QED BY <2>1, <2>2
<1>13. Run("undo", second2)'
  <2>1. CASE shown
    <3>1. second2 = second + 1
      BY <1>10, <2>1
    <3> QED BY <1>7, <2>1, <3>1
  <2>2. CASE ~shown
    <3>1. second2 = second
      BY <1>10, <2>2
    <3> QED BY <1>7, <2>2, <3>1
  <2> QED BY <2>1, <2>2
<1>14. second2 = Passed(first) /\ taken2 = Passed(second)
  BY <1>5, <1>10, <1>11 DEF Shown
<1>15. ASSUME NEW n \in Nat, NEW flag \in BOOLEAN
       PROVE  Passed(n + One(flag)) = Passed(n) + One(flag /\ n > StartCount)
  <2>1. Passed(n) \in Nat
    BY PassedOn
  <2>2. CASE flag
    <3>1. Passed(n + 1) = Passed(n) + IF n > StartCount THEN 1 ELSE 0
      BY PassedOn
    <3> QED BY <2>2, <3>1
  <2>3. CASE ~flag
    BY <2>1, <2>3
  <2> QED BY <2>2, <2>3
<1>16. second2 + Shown("scramble")' = Passed(first2)
  <2>1. Shown("scramble")' = One(ena /\ first > StartCount)
    BY <1>6 DEF Shown
  <2> QED BY <1>9, <1>14, <1>15, <2>1
<1>17. taken2 + Shown("undo")' = Passed(second2)
  <2>1. Shown("undo")' = One(shown /\ second > StartCount)
    BY <1>7 DEF Shown
  <2>2. shown \in BOOLEAN
    BY <1>4
  <2> HIDE DEF shown
  <2> QED BY <1>10, <1>14, <1>15, <2>1, <2>2
<1>18. ASSUME NEW n \in Nat
       PROVE  ((n % WordLimit) + 1) % WordLimit = (n + 1) % WordLimit
  <2>1. WordLimit \in Nat \ {0} /\ n \in Int /\ 1 \in Int
    BY ScrambleAssumption
  <2> QED BY <2>1, ModShift
<1>19. din' = first2 % WordLimit /\ got' = taken2 % WordLimit
  <2>1. din' = (IF ena THEN (din + 1) % WordLimit ELSE din)
        /\ got' = (IF shown2 THEN (got + 1) % WordLimit ELSE got)
    BY DEF Clock
  <2>2. din' = first2 % WordLimit
    <3>1. CASE ena
      BY <1>5, <1>9, <1>18, <2>1, <3>1
    <3>2. CASE ~ena
      BY <1>5, <1>9, <2>1, <3>2
    <3> QED BY <3>1, <3>2
  <2>3. got' = taken2 % WordLimit
    <3>1. CASE shown2
      BY <1>5, <1>11, <1>18, <2>1, <3>1
    <3>2. CASE ~shown2
      BY <1>5, <1>11, <2>1, <3>2
    <3> QED BY <3>1, <3>2
  <2> QED BY <2>2, <2>3
<1>20. Both(first2, second2, taken2)'
  BY <1>12, <1>13, <1>16, <1>17, <1>19 DEF Both, Passed
<1> QED BY <1>20
(* The units as rst leaves them.                                           *)
Fresh == /\ din = 0 /\ got = 0
         /\ \A unit \in Units : /\ cntr[unit] = 0 /\ history[unit] = Blank(HIST_WORDS)
                                /\ dout_active[unit] = FALSE /\ dout_valid[unit] = FALSE

(* They hold the streams of no clock at all, with whatever tables.         *)
LEMMA FreshRuns == ASSUME Fresh, CountFits PROVE Streams
<1>1. StartCount \in Nat /\ PERIOD \in Nat \ {0} /\ HIST_WORDS \in Nat
  BY StartSizes, Sizes DEF HIST_WORDS
<1>2. 0 % PERIOD = 0 /\ 0 % WordLimit = 0 /\ 0 \in Nat
  BY <1>1, ScrambleAssumption
<1>3. ASSUME NEW unit \in Units PROVE Run(unit, 0)
  <2>1. cntr[unit] = 0 /\ history[unit] = Blank(HIST_WORDS)
        /\ dout_active[unit] = FALSE /\ dout_valid[unit] = FALSE
    BY DEF Fresh
  <2>2. Blank(HIST_WORDS) \in Windows
    BY DEF Blank, Windows, Empty
  <2>3. \A slot \in Slots : Slot(Blank(HIST_WORDS), slot) = Held(unit, 0, slot)
    <3> TAKE slot \in Slots
    <3>1. slot + 1 \in 1..HIST_WORDS /\ ~(slot < 0)
      BY Sizes DEF Slots, HIST_WORDS
    <3> QED BY <3>1 DEF Blank, Slot, Held
  <2>4. \A layer \in 1..Layers : ~(0 >= MAX_DISPLACE + 1 + layer)
    BY SelectSizes, Sizes
  <2>5. ~(0 > StartCount) /\ ~(0 >= 1)
    BY <1>1
  <2> QED BY <1>2, <2>1, <2>2, <2>3, <2>4, <2>5 DEF Run
<1>4. Shown("scramble") = 0 /\ Shown("undo") = 0 /\ Passed(0) = 0
  BY <1>1 DEF Shown, Passed, Fresh, Units
<1>5. Both(0, 0, 0)
  BY <1>2, <1>3, <1>4 DEF Both, Units, Fresh
<1> QED BY <1>2, <1>5 DEF Streams

(* The invariant of both parts of the system.                              *)
Whole == /\ IInv /\ Tabled
         /\ pass # "stream" => Fresh
         /\ pass = "stream" => Streams

(* It holds before the first draw ...                                      *)
LEMMA WholeInit == ScrambleInit => Whole
<1> SUFFICES ASSUME ScrambleInit PROVE Whole
  OBVIOUS
<1>1. IInv
  BY InitHolds
<1>2. pass = "scramble" /\ cycle = 0 /\ indices = <<>> /\ undo_indices = <<>>
  BY DEF ScrambleInit
<1>3. Tabled
  <2>1. <<>> \in [1..0 -> Slots] /\ 1..0 = {}
    OBVIOUS
  <2> QED BY <1>2, <2>1 DEF Tabled, Drew, Found
<1>4. Fresh
  BY DEF ScrambleInit, Fresh, Off
<1> QED BY <1>1, <1>2, <1>3, <1>4 DEF Whole

(* One more index at the end of a table.                                   *)
LEMMA AppendSlot ==
    ASSUME NEW n \in Nat, NEW s \in [1..n -> Slots], NEW e \in Slots
    PROVE  /\ Append(s, e) \in [1..(n + 1) -> Slots]
           /\ \A k \in 1..n : Append(s, e)[k] = s[k]
           /\ Append(s, e)[n + 1] = e
<1>1. Slots \subseteq Int
  BY DEF Slots
<1>2. s \in [1..n -> Int] /\ e \in Int
  BY <1>1
<1>3. /\ Append(s, e) \in [1..(n + 1) -> Int]
      /\ \A k \in 1..n : Append(s, e)[k] = s[k]
      /\ Append(s, e)[n + 1] = e
  BY <1>2, AppendHolds
<1>4. ASSUME NEW k \in 1..(n + 1) PROVE Append(s, e)[k] \in Slots
  <2>1. k \in 1..n \/ k = n + 1
    OBVIOUS
  <2> QED BY <1>3, <2>1
<1> QED BY <1>3, <1>4

(* The index of the draw says how far its word was moved.                  *)
LEMMA SelectDrew ==
    ASSUME IInv, Drew(cycle), Select, NEW next \in Nat, next = cycle + 1 PROVE Drew(next)'
<1>1. pass = "scramble" /\ cycle \in Nat /\ cycle < PERIOD /\ cycle' = cycle + 1
  BY Sizes DEF IInv, Select
<1>2. PICK slot \in Candidates :
        /\ data_stream' = Append(data_stream, Slot(shifter, slot))
        /\ indices' = Append(indices, slot)
  BY DEF Select
<1>3. slot \in Filled(shifter) /\ slot \in Slots
  BY <1>1, <1>2, Drawable DEF Filled
<1>4. Window /\ Order(data_stream, cycle)
  BY <1>1 DEF IInv
<1> DEFINE word == Slot(shifter, slot)
<1>5. word = cycle + MAX_DISPLACE - slot /\ word \in Int /\ slot \in Int /\ MAX_DISPLACE \in Int
  BY <1>1, <1>3, <1>4, Sizes DEF Window, Slots
<1>6. /\ \A k \in 1..cycle : data_stream'[k] = data_stream[k]
      /\ data_stream'[cycle + 1] = word
  <2>1. data_stream \in [1..cycle -> Int] /\ data_stream' = Append(data_stream, word)
    BY <1>2, <1>4 DEF Order
  <2> HIDE DEF word
  <2> QED BY <1>1, <1>5, <2>1, AppendHolds
<1>7. /\ indices' \in [1..(cycle + 1) -> Slots]
      /\ \A k \in 1..cycle : indices'[k] = indices[k]
      /\ indices'[cycle + 1] = slot
  <2>1. indices \in [1..cycle -> Slots] /\ indices' = Append(indices, slot) /\ cycle \in Nat
    BY <1>1, <1>2 DEF Drew
  <2>2. /\ Append(indices, slot) \in [1..(cycle + 1) -> Slots]
        /\ \A k \in 1..cycle : Append(indices, slot)[k] = indices[k]
        /\ Append(indices, slot)[cycle + 1] = slot
    BY <1>3, <2>1, AppendSlot
  <2> QED BY <2>1, <2>2, Zenon
<1>8. ASSUME NEW k \in 1..(cycle + 1)
      PROVE  indices'[k] = k - 1 + MAX_DISPLACE - data_stream'[k]
  <2>1. CASE k \in 1..cycle
    <3>1. indices[k] = k - 1 + MAX_DISPLACE - data_stream[k]
      BY <2>1 DEF Drew
    <3> QED BY <1>6, <1>7, <2>1, <3>1
  <2>2. CASE k = cycle + 1
    <3>1. slot = k - 1 + MAX_DISPLACE - word
      <4> HIDE DEF word
      <4> QED BY <1>1, <1>5, <2>2
    <3> QED BY <1>6, <1>7, <2>2, <3>1
  <2>3. k \in 1..cycle \/ k = cycle + 1
    BY <1>1
  <2> QED BY <2>1, <2>2, <2>3
<1> QED BY <1>7, <1>8 DEF Drew

(* The index of the counterpart leads to the place where the word came out. *)
LEMMA UndoFound ==
    ASSUME IInv, Found(cycle), Undo, NEW next \in Nat, next = cycle + 1 PROVE Found(next)'
<1>1. pass = "undo" /\ cycle \in Nat /\ cycle < PERIOD
      /\ undo_indices' = Append(undo_indices, index_of_value(cycle)) /\ data_stream' = data_stream
  BY Sizes DEF IInv, Undo
<1> DEFINE slot == index_of_value(cycle)
<1>2. slot \in Slots /\ LET place == cycle + 1 + MAX_DISPLACE - slot IN
        place \in 1..PERIOD /\ data_stream[place] = cycle
  BY <1>1, IndexFound
<1> HIDE DEF slot
<1>3. /\ undo_indices' \in [1..(cycle + 1) -> Slots]
      /\ \A k \in 1..cycle : undo_indices'[k] = undo_indices[k]
      /\ undo_indices'[cycle + 1] = slot
  <2>1. undo_indices \in [1..cycle -> Slots] /\ undo_indices' = Append(undo_indices, slot)
    BY <1>1 DEF Found, slot
  <2> QED BY <1>1, <1>2, <2>1, AppendSlot
<1>4. ASSUME NEW k \in 1..(cycle + 1)
      PROVE  LET place == k + MAX_DISPLACE - undo_indices'[k] IN
               place \in 1..PERIOD /\ data_stream'[place] = k - 1
  <2>1. CASE k \in 1..cycle
    <3>1. LET place == k + MAX_DISPLACE - undo_indices[k] IN
            place \in 1..PERIOD /\ data_stream[place] = k - 1
      BY <2>1 DEF Found
    <3> QED BY <1>1, <1>3, <2>1, <3>1
  <2>2. CASE k = cycle + 1
    <3>1. k - 1 = cycle
      BY <1>1, <2>2
    <3> QED BY <1>1, <1>2, <1>3, <2>2, <3>1
  <2>3. k \in 1..cycle \/ k = cycle + 1
    BY <1>1
  <2> QED BY <2>1, <2>2, <2>3
<1> QED BY <1>3, <1>4 DEF Found

(* The tables are filled in step with the passes of the program ...        *)
LEMMA TabledNext == ASSUME IInv, Tabled, [ScrambleNext]_scrambleVars PROVE Tabled'
<1>1. cycle \in 0..PERIOD /\ PERIOD \in Nat
  BY Sizes DEF IInv
<1>2. CASE Select
  <2>1. /\ pass = "scramble" /\ pass' = "scramble"
        /\ cycle' = cycle + 1 /\ undo_indices' = undo_indices
    BY <1>2 DEF Select
  <2>2. Drew(cycle) /\ Found(0)
    BY <2>1 DEF Tabled
  <2>3. PICK next \in Nat : next = cycle + 1
    BY <1>1
  <2>4. Drew(next)'
    BY <1>2, <2>2, <2>3, SelectDrew
  <2>5. Found(0)'
    BY <2>1, <2>2 DEF Found
  <2> QED BY <2>1, <2>3, <2>4, <2>5 DEF Tabled, Drew, Found
<1>3. CASE StartUndo
  BY <1>3 DEF StartUndo, Tabled, Drew, Found
<1>4. CASE Undo
  <2>1. pass = "undo" /\ pass' = "undo" /\ cycle' = cycle + 1 /\ indices' = indices
        /\ data_stream' = data_stream
    BY <1>4 DEF Undo
  <2>2. Drew(PERIOD) /\ Found(cycle)
    BY <2>1 DEF Tabled
  <2>3. PICK next \in Nat : next = cycle + 1
    BY <1>1
  <2>4. Found(next)'
    BY <1>4, <2>2, <2>3, UndoFound
  <2>5. Drew(PERIOD)'
    BY <2>1, <2>2 DEF Drew
  <2> QED BY <2>1, <2>3, <2>4, <2>5 DEF Tabled, Drew, Found
<1>5. CASE PrintTables
  BY <1>5 DEF PrintTables, Tabled, Drew, Found, Turns
<1>6. CASE Stream(TRUE) \/ Stream(FALSE)
  BY <1>6 DEF Stream, progVars, Tabled, Drew, Found, Turns
<1>7. CASE UNCHANGED scrambleVars
  BY <1>7 DEF scrambleVars, progVars, Tabled, Drew, Found, Turns
<1> QED BY <1>2, <1>3, <1>4, <1>5, <1>6, <1>7 DEF ScrambleNext

(* ... and the units start with them and hold their streams.               *)
LEMMA WholeNext == ASSUME CountFits, Whole, [ScrambleNext]_scrambleVars PROVE Whole'
<1>1. IInv' /\ Tabled'
  BY NextHolds, TabledNext DEF Whole
<1>2. CASE Select \/ StartUndo \/ Undo
  <2>1. pass # "stream" /\ pass' # "stream" /\ UNCHANGED unitVars
    BY <1>2 DEF Select, StartUndo, Undo
  <2>2. Fresh'
    BY <2>1 DEF Whole, Fresh, unitVars
  <2> QED BY <1>1, <2>1, <2>2 DEF Whole
<1>3. CASE PrintTables
  <2>1. pass # "stream" /\ pass' = "stream" /\ UNCHANGED unitVars
    BY <1>3 DEF PrintTables
  <2>2. Fresh'
    BY <2>1 DEF Whole, Fresh, unitVars
  <2>3. (Fresh /\ CountFits => Streams)'
    BY FreshRuns, PTL
  <2>4. CountFits'
    BY DEF CountFits
  <2> QED BY <1>1, <2>1, <2>2, <2>3 DEF Whole
<1>4. ASSUME NEW ena \in BOOLEAN, Stream(ena) PROVE Whole'
  <2>1. pass = "stream" /\ pass' = "stream" /\ Clock(ena) /\ UNCHANGED progVars
    BY <1>4 DEF Stream, progVars
  <2>2. Order(data_stream, PERIOD)
    BY <2>1 DEF Whole, IInv
  <2>3. Streams'
    BY <2>1, <2>2, StreamsOn DEF Whole
  <2> QED BY <1>1, <2>1, <2>3 DEF Whole
<1>5. CASE UNCHANGED scrambleVars
  <2>1. pass' = pass /\ UNCHANGED unitVars /\ UNCHANGED progVars
    BY <1>5 DEF scrambleVars, progVars
  <2>2. Fresh => Fresh'
    BY <2>1 DEF Fresh, unitVars
  <2>3. Streams => Streams'
    BY <2>1 DEF Streams, Both, Run, Shown, Held, Word, Turn, Turns, unitVars, progVars
  <2> QED BY <1>1, <2>1, <2>2, <2>3 DEF Whole
<1> QED BY <1>2, <1>3, <1>4, <1>5 DEF ScrambleNext

(* A valid word of the second unit is the next of the stream.              *)
LEMMA WholeImplies == ASSUME CountFits, Whole PROVE BackInOrder
<1> SUFFICES ASSUME dout_valid["undo"], ~tripped PROVE dout("undo") = got
  BY DEF BackInOrder
<1>1. pass = "stream"
  BY DEF Whole, Fresh, Units
<1>2. Tabled /\ Order(data_stream, PERIOD) /\ Streams
  BY <1>1 DEF Whole, IInv
<1>3. PICK first \in Nat, second \in Nat, taken \in Nat : Both(first, second, taken)
  BY <1>2 DEF Streams
<1>4. Run("undo", second) /\ "undo" \in Units /\ taken + Shown("undo") = Passed(second)
      /\ got = taken % WordLimit
  BY <1>3 DEF Both, Units
<1>5. second >= StartCount + 2 /\ StartCount \in Nat
  BY <1>4, StartSizes DEF Run
<1>6. dout("undo") = Left("undo", second - (StartCount + 2))
  BY <1>1, <1>2, <1>4, <1>5, DoutHolds
<1>7. taken = second - (StartCount + 2)
  BY <1>4, <1>5 DEF Shown, Passed
<1> QED BY <1>4, <1>6, <1>7 DEF Left

(***************************************************************************)
(* Whatever order is drawn, and however the stream is stalled, but for the *)
(* one stall of ValidIsFresh, the counterpart puts every word back in its  *)
(* place and its first valid word is the first word (make_scrambler.cpp).  *)
(***************************************************************************)
THEOREM BackInOrderCorrect == ASSUME CountFits PROVE ScrambleSpec => []BackInOrder
<1>1. ScrambleInit => Whole
  BY WholeInit
<1>2. Whole /\ [ScrambleNext]_scrambleVars => Whole'
  BY WholeNext
<1>3. Whole => BackInOrder
  BY WholeImplies
<1> QED BY <1>1, <1>2, <1>3, PTL DEF ScrambleSpec
=============================================================================
