------------------------------ MODULE MCPrograms ------------------------------
(***************************************************************************)
(* Two programs of the repository on small instances, one of them at work  *)
(* in every behaviour: c_probe, the client of a JTAG library whose calls   *)
(* may fail, and make_scrambler with the pair of units that it writes.     *)
(* The other stays in one of its initial states.                           *)
(***************************************************************************)
EXTENDS CProbe, WordScramble

VARIABLE unit     \* the one at work
allVars == <<unit, vars, scrambleVars>>

AllInit == /\ unit \in {"probe", "scramble"}
           /\ Init /\ (unit # "probe" => matching = {} /\ buffer = <<0, 0>>)
           /\ ScrambleInit

ProbeStep(action) == unit = "probe" /\ action /\ UNCHANGED <<unit, scrambleVars>>
ScrambleStep == unit = "scramble" /\ ScrambleNext /\ UNCHANGED <<unit, vars>>

(* c_probe has returned. *)
Ended == unit = "probe" /\ at = "ended" /\ UNCHANGED allVars

AllNext == ProbeStep(Next) \/ ScrambleStep \/ Ended

(* The fairness of CProbe, when it is the one at work. *)
AllSpec == /\ AllInit /\ [][AllNext]_allVars
           /\ WF_allVars(ProbeStep(Scan \/ Command \/ Main)) /\ WF_allVars(ProbeStep(OtherReleases))
=============================================================================
