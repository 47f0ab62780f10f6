------------------------------- MODULE MCLinks -------------------------------
(***************************************************************************)
(* Three test benches that send words over a line and get them back, on    *)
(* small instances, one of them at work in every behaviour: the clocked    *)
(* Reed-Solomon link, the gearboxes, for which the searches find their     *)
(* schedules first, and lane_rx on the traffic of make_lane_traffic.  The  *)
(* others stay in one of their initial states.                             *)
(***************************************************************************)
EXTENDS ReedSolomonLink, GearLink, LaneBench

VARIABLE unit     \* the one at work
allVars == <<unit, rsVars, gearboxVars, vars>>

AllInit == /\ unit \in {"rs", "gear", "lanes"}
           /\ RsInit /\ (unit # "rs" => rx = RxInit(0, 0))
           /\ GearInit
           /\ LaneInitial /\ (unit # "lanes" => ~error_injection /\ weights = "mixed")

RsStep == unit = "rs" /\ RsNext /\ UNCHANGED <<unit, gearboxVars, vars>>
GearStep == unit = "gear" /\ GearNext /\ UNCHANGED <<unit, rsVars, vars>>
LanesStep == unit = "lanes" /\ Next /\ UNCHANGED <<unit, rsVars, gearboxVars>>

(* The bound on the clocks of the Reed-Solomon link; the lane has read all *)
(* words of its file.                                                      *)
Ended == /\ \/ unit = "rs" /\ clocks = Clocks
            \/ unit = "lanes" /\ pass = "bench" /\ pos > Whole
         /\ UNCHANGED allVars

AllNext == RsStep \/ GearStep \/ LanesStep \/ Ended

(* The fairness of GearLink, when it is the one at work. *)
AllSpec == AllInit /\ [][AllNext]_allVars /\ WF_allVars(GearStep)
=============================================================================
