------------------------------ MODULE ReadySkid ------------------------------
(***************************************************************************)
(* Advanced Synthesis Cookbook/storage/ready_skid.v: a pipeline stage for  *)
(* ready/valid data whose ready is registered.  The source hears of a      *)
(* stall one clock late, so a second register, backup_storage, takes the   *)
(* word that is already on its way.  The internal_* registers are assigned *)
(* together with ready_i and valid_o and are one variable with them.       *)
(*                                                                         *)
(* History: taken is the word the sink took last, offered the word the     *)
(* source last held valid.                                                 *)
(***************************************************************************)
EXTENDS Sequences, Naturals, StreamWords

VARIABLES arst,
          ready_i, valid_o, dat_o, backup_valid, backup_storage,
          taken, offered
regs == <<ready_i, valid_o, dat_o, backup_valid, backup_storage>>
vars == <<arst, regs, taken, offered>>

(* The registers have no initial values: the life of the stage starts in reset. *)
Init == /\ arst = TRUE
        /\ ready_i = FALSE /\ valid_o = FALSE /\ dat_o = Zero
        /\ backup_valid = FALSE /\ backup_storage = Zero
        /\ taken = Zero /\ offered = Zero

AssertArst ==
    /\ ~arst /\ arst' = TRUE
    /\ ready_i' = FALSE /\ valid_o' = FALSE /\ dat_o' = Zero
    /\ backup_valid' = FALSE /\ backup_storage' = Zero
    /\ UNCHANGED <<taken, offered>>
ReleaseArst == arst /\ arst' = FALSE /\ UNCHANGED <<regs, taken, offered>>

(* Mutant: the source may only send while a word is leaving. *)
ReadyWhileLeaving(toBackup, ready_o) == valid_o /\ ready_o /\ ~toBackup
(* The source may send after this edge if the sink was ready, *)
(* unless a word has just gone to the backup: "stop stop!".   *)
NextReady(toBackup, ready_o) == ready_o /\ ~toBackup

(* Mutant: the word is accepted to the main registers whenever they are free. *)
AcceptIfFree(ready_o) == ~valid_o
(* "accept to main registers" rather than to the backup. *)
AcceptToMain(ready_o) == ready_o \/ ~valid_o

(* "dump the backup word to main storage". *)
Dumping(leaving) == leaving /\ backup_valid

(* One edge of clk: what the sink and the source drive is sampled.  The    *)
(* later assignments of the block win: an accepted word overrides the      *)
(* backup word that is dumped at the same edge.                            *)
Clocked(ready_o, valid_i, dat_i) ==
    LET leaving  == valid_o /\ ready_o
        accept   == ready_i /\ valid_i
        toMain   == accept /\ AcceptToMain(ready_o)
        toBackup == accept /\ ~AcceptToMain(ready_o)
        dumping  == Dumping(leaving)
    IN /\ ready_i' = NextReady(toBackup, ready_o)
       /\ valid_o' = (toMain \/ dumping \/ (valid_o /\ ~leaving))
       /\ dat_o' = IF toMain THEN dat_i ELSE IF dumping THEN backup_storage ELSE dat_o
       /\ backup_valid' = (toBackup \/ (backup_valid /\ ~dumping))
       /\ backup_storage' = IF toBackup THEN dat_i ELSE backup_storage
       /\ taken' = IF leaving THEN dat_o ELSE taken
       /\ offered' = IF valid_i THEN dat_i ELSE offered
       /\ UNCHANGED arst

Edge(ready_o) == \E valid_i \in BOOLEAN, dat_i \in Word :
                    ~arst /\ Clocked(ready_o, valid_i, dat_i)

Next == AssertArst \/ ReleaseArst \/ Edge(TRUE) \/ Edge(FALSE)

(* The reset ends, and a running clock finds the sink ready again and again, *)
(* whether or not a word is offered to it.                                   *)
Fairness == WF_vars(ReleaseArst) /\ WF_vars(Edge(TRUE))

Spec == Init /\ [][Next]_vars
FairSpec == Spec /\ Fairness
------------------------------------------------------------------------------
TypeOK == /\ {arst, ready_i, valid_o, backup_valid} \subseteq BOOLEAN
          /\ {dat_o, backup_storage, taken, offered} \subseteq Word

(***************************************************************************)
(* "ERROR: data lost in skid buffer" (ready_skid.v:80) is never reported:  *)
(* a source that still sees ready_i never meets an occupied backup, and    *)
(* the backup is only used behind a word in the main register.             *)
(***************************************************************************)
NoDataLost == backup_valid => valid_o /\ ~ready_i

(* Both together are kept by every step. *)
Inv == TypeOK /\ NoDataLost

(* The stage is a queue of at most two words: nothing is lost, repeated or *)
(* overtaken, however the sink stalls and the source pauses.               *)
Content == IF ~valid_o THEN <<>>
           ELSE IF backup_valid THEN <<dat_o, backup_storage>> ELSE <<dat_o>>
Queue == INSTANCE BoundedQueue WITH
    Capacity <- 2, offered <- offered, queue <- Content,
    delivered <- taken, reset <- arst
RefinesQueue == Queue!Spec

(* A stall is left behind: with a sink that becomes ready again the source *)
(* sees ready_i again, from every state.                                   *)
SourceServed == []<>(ready_i \/ arst)

(* A word waiting in the backup reaches the output or is reset away. *)
BackupDrains == backup_valid ~> ~backup_valid
=============================================================================
