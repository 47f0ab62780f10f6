------------------------------- MODULE CdcStrobe -------------------------------
(***************************************************************************)
(* basic_verilog/cdc_strobe.sv: single events cross from clk1 to clk2 as   *)
(* steps of a two bit gray counter.  The receiver takes a strobe at every  *)
(* clk2 edge that finds strb2 high.                                        *)
(*                                                                         *)
(* History: owed counts the events of the sender for which no strobe has   *)
(* been taken yet.  An event is strb1 high at a clk1 edge out of reset     *)
(* whose predecessor was in reset or found strb1 low.  paced says that     *)
(* clk2 has always ticked between two events, the restriction of the event *)
(* rate that the header asks for when clk2 is slow.  torn says that strb2  *)
(* is high because the stages, both loaded from the counter at an edge in  *)
(* reset, have settled apart, the first one behind the second: a strobe of *)
(* no event, and the event itself still comes.                             *)
(***************************************************************************)
EXTENDS Integers

CONSTANTS StrobeInReset,  \* may strb1 be high while nrst1 is low?
          MaxOwed         \* bound of the model: events not yet taken

VARIABLES arst,
          strb1_b, gc,    \* clk1 domain; gc is {gc_FP_ATTR[1], gc_FP_ATTR[0]}
          gc_b,           \* clk2 domain: stages 0 and 1
          owed, paced, seen, torn
vars == <<arst, strb1_b, gc, gc_b, owed, paced, seen, torn>>

Bits == 0..1
Gray == [Bits -> {0, 1}]
(* Mutant: a binary counter. *)
IncBinary(g) == IF g[0] = 0 THEN [g EXCEPT ![0] = 1]
                            ELSE [i \in Bits |-> IF i = 0 THEN 0 ELSE 1 - g[1]]
(* {gc[0], ~gc[1]} *)
Inc(g) == [i \in Bits |-> IF i = 1 THEN g[0] ELSE 1 - g[1]]
Sampled(old, new) == {g \in Gray : \A i \in Bits : g[i] \in {old[i], new[i]}}

strb2 == gc_b[1] # gc_b[0]
Taken == IF strb2 THEN 1 ELSE 0

Init == /\ arst = FALSE /\ strb1_b = FALSE /\ gc = [i \in Bits |-> 0]
        /\ gc_b = [s \in 0..1 |-> gc]
        /\ owed = 0 /\ paced = TRUE /\ seen = TRUE /\ torn = FALSE

strb1_ed(strb1) == ~strb1_b /\ strb1

(* An edge of clk1: the buffered strobe and the counter. *)
Clk1(nrst1, strb1) ==
    /\ strb1_b' = (nrst1 /\ strb1 /\ ~arst)
    /\ gc' = IF ~arst /\ strb1_ed(strb1) THEN Inc(gc) ELSE gc

(* Whether this clk1 edge is an event, as the sender means it. *)
Event(nrst1, strb1) == nrst1 /\ ~arst /\ strb1 /\ ~strb1_b

Sender == {r \in [nrst1 : BOOLEAN, strb1 : BOOLEAN] :
             /\ r.strb1 => r.nrst1 \/ StrobeInReset
             /\ Event(r.nrst1, r.strb1) => owed < MaxOwed}

(* An edge of clk2: stage 0 samples g0; in reset stage 1 samples the       *)
(* counter as well, with flops of its own, and gets g1.                    *)
InReset(nrst2) == arst \/ ~nrst2
Clk2(nrst2, g0, g1) ==
    gc_b' = [s \in 0..1 |-> IF s = 0 THEN g0 ELSE IF InReset(nrst2) THEN g1 ELSE gc_b[0]]

(* What the edge does to the account, the counter being now after it.      *)
(* Events that reach the receiver while it is in reset are forgotten, and  *)
(* a torn strobe answers no event.                                         *)
Account(nrst2, g0, g1, now, events) ==
    /\ owed' = IF InReset(nrst2) THEN IF g0 # now \/ g1 # now THEN 1 ELSE 0
               ELSE owed - (IF torn THEN 0 ELSE Taken) + events
    /\ torn' = (InReset(nrst2) /\ g0 # g1 /\ g0 # now)

Clk1Edge ==
    \E r \in Sender :
        LET e == Event(r.nrst1, r.strb1) IN
        /\ Clk1(r.nrst1, r.strb1)
        /\ owed' = IF e THEN owed + 1 ELSE owed
        /\ paced' = (paced /\ (e => seen))
        /\ seen' = (seen /\ ~e)
        /\ UNCHANGED <<arst, gc_b, torn>>

Clk2Edge ==
    \E nrst2 \in BOOLEAN :
        /\ Clk2(nrst2, gc, gc) /\ Account(nrst2, gc, gc, gc, 0)
        /\ seen' = TRUE
        /\ paced' = (paced \/ owed' = 0)
        /\ UNCHANGED <<arst, strb1_b, gc>>

(* Both edges at once: each bit of the counter settles by itself, in each  *)
(* of the flops that sample it.                                            *)
BothEdges ==
    \E r \in Sender, nrst2 \in BOOLEAN :
        LET e == Event(r.nrst1, r.strb1) IN
        /\ Clk1(r.nrst1, r.strb1)
        /\ \E g0, g1 \in Sampled(gc, gc') :
             Clk2(nrst2, g0, g1) /\ Account(nrst2, g0, g1, gc', IF e THEN 1 ELSE 0)
        /\ paced' = (paced /\ (e => seen))
        /\ seen' = ~e
        /\ UNCHANGED arst

AssertArst == /\ ~arst /\ arst' = TRUE /\ strb1_b' = FALSE
              /\ gc_b' = [s \in 0..1 |-> gc]
              /\ owed' = 0 /\ paced' = TRUE /\ seen' = TRUE /\ torn' = FALSE
              /\ UNCHANGED gc

ReleaseArst == arst /\ arst' = FALSE
               /\ UNCHANGED <<strb1_b, gc, gc_b, owed, paced, seen, torn>>

Next == Clk1Edge \/ Clk2Edge \/ BothEdges \/ AssertArst \/ ReleaseArst

(* clk2 keeps running for as long as an edge out of reset would change     *)
(* anything; nothing is assumed of clk1 or of the resets.                  *)
Clk2Quiet == Clk2(TRUE, gc, gc) /\ UNCHANGED <<arst, strb1_b, gc, owed, paced, seen, torn>>
Fairness == []<>~ENABLED <<Clk2Quiet>>_vars \/ []<><<Clk2Edge \/ BothEdges>>_vars
Spec == Init /\ [][Next]_vars /\ Fairness
------------------------------------------------------------------------------
TypeOK == /\ {arst, strb1_b, paced, seen, torn} \subseteq BOOLEAN
          /\ gc \in Gray /\ gc_b \in [0..1 -> Gray]
          /\ owed \in 0..MaxOwed

(* The strobes that the receiver is going to take.                         *)
Pending == Taken + (IF gc # gc_b[0] THEN 1 ELSE 0)
Torn == IF torn THEN 1 ELSE 0

(***************************************************************************)
(* The receiver never takes more strobes than there were events, however   *)
(* long strb1 stays high and however the clocks and resets interleave,     *)
(* but for a torn one at the end of a reset.                               *)
(***************************************************************************)
NoSpuriousStrobe == owed + Torn >= Pending

(* Paced events are never lost or merged: what is owed is in the stages,   *)
(* so each event is taken at most three clk2 edges later.                  *)
NoEventLost == paced => owed + Torn = Pending

(* "it will be considered one event and only one single-cycle strobe will  *)
(* be generated to the output" (cdc_strobe.sv:12-13): not so, when the     *)
(* event meets the last clk2 edge in reset and the stages settle apart.    *)
OneStrobePerEvent == owed >= Pending

(* A paced event is eventually shown to the receiver, or reset away. *)
EventShown == (owed > 0 /\ paced) ~> (strb2 \/ owed = 0 \/ ~paced)
=============================================================================
