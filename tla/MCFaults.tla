------------------------------ MODULE MCFaults -------------------------------
(***************************************************************************)
(* What works on while bits flip under it, on small instances, one of the  *)
(* two at work in every behaviour: the memory with its Hamming codes, and  *)
(* the word and frame alignment of a lane.  The other stays in one of its  *)
(* initial states.                                                         *)
(***************************************************************************)
EXTENDS EccRam, LaneRx

VARIABLE unit     \* the one at work
allVars == <<unit, eccVars, vars>>

AllInit == /\ unit \in {"ecc", "lane"}
           /\ EccInit /\ (unit # "ecc" => NoTrial)
           /\ Init /\ (unit # "lane" => ~aligned)

EccStep == unit = "ecc" /\ EccNext /\ UNCHANGED <<unit, vars>>
LaneStep(action) == unit = "lane" /\ action /\ UNCHANGED <<unit, eccVars>>

(* The bound on the wrong bits of a code word on trial. *)
Ended == /\ unit = "ecc" /\ ~NoTrial /\ Cardinality(bench.hits) = MaxHits(bench.bits)
         /\ UNCHANGED allVars

AllNext == EccStep \/ LaneStep(Next) \/ Ended

(* The fairness of LaneRx, when it is the one at work. *)
AllSpec == /\ AllInit /\ [][AllNext]_allVars
           /\ WF_allVars(LaneStep(Idle \/ Word)) /\ WF_allVars(LaneStep(Word))
=============================================================================
