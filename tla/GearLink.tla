------------------------------- MODULE GearLink -------------------------------
(***************************************************************************)
(* The test bench gearbox_40_67_tb: gearbox_67_40 sends words of 67 bits   *)
(* as 40 bits a clock, gearbox_40_67 makes words of 67 again and slips     *)
(* until their framing bits are right.  Both follow the schedules that     *)
(* GearSearch finds; the bench starts when the programs have ended.        *)
(*                                                                         *)
(* A bit is its place in the stream, modulo the bits of a whole schedule;  *)
(* Zero is a bit no word put there and Mixed the OR of two that did.       *)
(***************************************************************************)
EXTENDS GearSearch, Functions

VARIABLES
    word,       \* the next word of the sender
    sender, receiver,     \* the registers of the gearboxes
    prev_slip, rx_valid,
    last_bit,   \* history: the last bit of the last word received
    ticks,     \* history: clocks since the reset
    quiet       \* history: clocks since the reset or the last slip
linkVars == <<word, sender, receiver, prev_slip, rx_valid, last_bit, ticks, quiet>>
gearboxVars == <<searchVars, linkVars>>

Period == 40 * 67
Zero == -1
Mixed == -2
Latency == 7     \* of the first bits through a gearbox
Settled == 11    \* of a slip, up to the second word after it

Words(from, len) == [bit \in 0..(len - 1) |-> (from + len - 1 - bit) % Period]
Nothing(len) == [bit \in 0..(len - 1) |-> Zero]
Reset(in_bits, out_bits) ==
    [phase |-> 0, entry |-> [ds |-> 0, ss |-> 0, ep |-> 0], chosen |-> [ds |-> 0, ss |-> 0, ep |-> 0],
     din_r |-> Nothing(in_bits), dist |-> 0, positioned |-> Nothing(in_bits),
     storage |-> Nothing(storage_len), dout |-> Nothing(out_bits)]

GearInit == /\ SearchInit
        /\ word = 0 /\ sender = Reset(67, 40) /\ receiver = Reset(40, 67)
        /\ prev_slip = <<FALSE, FALSE, FALSE>> /\ rx_valid = FALSE
        /\ last_bit = Zero /\ ticks = 0 /\ quiet = 0
------------------------------------------------------------------------------
Or(one, other) == IF one = Zero THEN other ELSE IF other = Zero THEN one ELSE Mixed
Merged(box, dist) ==    \* the shifted storage and the positioned data
    [bit \in 0..(storage_len - 1) |->
        Or(IF bit >= dist THEN box.storage[bit - dist] ELSE Zero,
           IF bit - box.dist \in DOMAIN box.positioned THEN box.positioned[bit - box.dist] ELSE Zero)]
Extract(box, point, len) == [bit \in 0..(len - 1) |-> box.storage[point - len + 1 + bit]]

(* One clock of a gearbox: hold keeps the phase, and the code 15 of        *)
(* gearbox_67_40 puts in no data.                                          *)
Step(box, table, din, hold, dist, no_data, shift, dout) ==
    [phase |-> IF hold THEN box.phase ELSE IF box.phase = Phases - 2 THEN 0 ELSE box.phase + 1,
     entry |-> table[box.phase],
     chosen |-> box.entry,
     din_r |-> din,
     dist |-> dist,
     positioned |-> IF no_data THEN Nothing(Cardinality(DOMAIN din)) ELSE box.din_r,
     storage |-> Merged(box, shift),
     dout |-> dout]

din_ready == sender.chosen.ds # 15
Send ==
    sender' = LET at == sender.chosen IN
        Step(sender, schedule["gear_expt2"],
             IF din_ready THEN Words(67 * word, 67) ELSE sender.din_r,
             FALSE, IF din_ready THEN Coded[at.ds + 1] ELSE 0, ~din_ready,
             IF at.ss = 0 THEN 40 ELSE 45,
             Extract(sender, <<95, 100, 105, 105>>[at.ep + 1], 40))

(* Mutant: the slip does not hold the phase. *)
slip_never == FALSE
slip_now == prev_slip[1]
Accept ==
    receiver' = LET at == receiver.chosen IN
        Step(receiver, schedule["gear_expt"], sender.dout, slip_now, at.ds, FALSE,
             <<33, 34, 40, 47>>[at.ss + 1],
             IF at.ep = 0 THEN Nothing(67) ELSE Extract(receiver, <<0, 78, 92, 105>>[at.ep + 1], 67))

(* dout[65:64] hold the framing bits, which differ: what a word made of    *)
(* other bits has there depends on the data.                               *)
RightFrame == receiver.dout[66] >= 0 /\ receiver.dout[66] % 67 = 0
(* "I haven't slipped in a few cycles". *)
MaySlip == IF rx_valid /\ ~RightFrame /\ (\A k \in 1..3 : ~prev_slip[k]) THEN BOOLEAN ELSE {FALSE}

(* One clock of the bench. *)
BenchClock ==
    /\ prog = "none"
    /\ Send /\ Accept
    /\ word' = IF din_ready THEN (word + 1) % 40 ELSE word
    /\ rx_valid' = (receiver.chosen.ep # 0)
    /\ last_bit' = IF rx_valid THEN receiver.dout[0] ELSE last_bit
    /\ ticks' = IF ticks < Latency THEN ticks + 1 ELSE ticks
    /\ quiet' = IF slip_now THEN 0 ELSE IF quiet < Settled THEN quiet + 1 ELSE quiet
    /\ \E slip \in MaySlip : prev_slip' = <<slip, prev_slip[1], prev_slip[2]>>
    /\ UNCHANGED searchVars

GearNext == (SearchNext /\ UNCHANGED linkVars) \/ BenchClock
GearSpec == GearInit /\ [][GearNext]_gearboxVars /\ WF_gearboxVars(GearNext)
------------------------------------------------------------------------------
(* "Found a solution": both searches end with a schedule, and every choice *)
(* they made has a code of its own among those the programs print.         *)
ScheduleFound ==
    /\ prog \in Programs => ~(Exhausted /\ frames = <<>>)
    /\ prog = "gear_expt2" /\ phase = Phases => \A level \in DOMAIN frames :
         LET frame == frames[level] IN
         /\ (ds(frame.dat_shift) = 15) = (frame.dat_shift = NoData)
         /\ ep(frame.extract_point) < 3

Follows(one, other) == one >= 0 /\ other = (one + 1) % Period
InOrder(dout) == \A bit \in DOMAIN dout : bit > 0 => Follows(dout[bit], dout[bit - 1])

(***************************************************************************)
(* With the schedule that was found gearbox_67_40 puts every bit of every  *)
(* word on the line once and in order, also from one round of the schedule *)
(* to the next, although its storage is never cleared and the search       *)
(* starts from a storage the hardware does not have.                       *)
(***************************************************************************)
BitsOnLine == prog = "none" /\ ticks = Latency =>
                 InOrder(sender.dout) /\ Follows(receiver.din_r[0], sender.dout[39])

(* A slip upsets the order of the bits in storage, and a few clocks later  *)
(* the words of gearbox_40_67 are whole again, none lost, none repeated.   *)
WordsWhole == rx_valid /\ quiet = Settled =>
                 InOrder(receiver.dout) /\ Follows(last_bit, receiver.dout[66])

(***************************************************************************)
(* The receiver finds the words, once no wrong framing passes for a right  *)
(* one by the chance of its data any more, and it then slips no more.      *)
(***************************************************************************)
Missed == TRUE \in MaySlip /\ ~prev_slip'[1]
Locks == <>[][~Missed]_gearboxVars => <>[](rx_valid => RightFrame)
=============================================================================
