------------------------------- MODULE RxBuffer -------------------------------
(***************************************************************************)
(* Advanced Synthesis Cookbook/storage/rx_buffer_fifo_2.v: a receive       *)
(* buffer that cannot refuse a word.  Two stores and the output register   *)
(* hold what dout_wait keeps back; when they are full, the word waiting on *)
(* dout is given up and overflow is raised.                                *)
(*                                                                         *)
(* History: owed is what an observer of the pins knows of the words on     *)
(* their way: it grows with din_valid and loses its oldest word whenever   *)
(* dout_valid is seen or overflow is raised.                               *)
(***************************************************************************)
EXTENDS Naturals, Sequences, StreamWords

VARIABLES arst, wr_ptr, rd_ptr, store, dout, dout_content_valid, overflow,
          owed
vars == <<arst, wr_ptr, rd_ptr, store, dout, dout_content_valid, overflow, owed>>

Inc(ptr) == (ptr + 1) % 4
Low(ptr) == ptr % 2                      \* ptr[0]: 0 is store_a, 1 is store_b
empty == wr_ptr = rd_ptr
full == wr_ptr = (rd_ptr + 2) % 4        \* ptr[1] differs, ptr[0] agrees

Init ==
    /\ arst = TRUE
    /\ wr_ptr = 0 /\ rd_ptr = 0 /\ store = [i \in 0..1 |-> Zero]
    /\ dout = Zero /\ dout_content_valid = FALSE /\ overflow = FALSE
    /\ owed = <<>>

AssertArst ==
    /\ ~arst /\ arst' = TRUE
    /\ wr_ptr' = 0 /\ rd_ptr' = 0 /\ store' = [i \in 0..1 |-> Zero]
    /\ dout' = Zero /\ dout_content_valid' = FALSE /\ overflow' = FALSE
    /\ owed' = <<>>

ReleaseArst == /\ arst /\ arst' = FALSE
               /\ UNCHANGED <<wr_ptr, rd_ptr, store, dout, dout_content_valid, overflow, owed>>

dout_valid(dout_wait) == dout_content_valid /\ ~dout_wait

(* "read if caller wants a read and data is available". *)
Wanted(dout_wait) == ~empty /\ (~dout_content_valid \/ ~dout_wait)
read_now(din_valid, dout_wait) == Wanted(dout_wait) \/ (din_valid /\ full)

(* Mutant: every word that meets full stores raises overflow. *)
lost_when_full(din_valid, dout_wait) == din_valid /\ full
(* "New data and no place to keep it". *)
lost(din_valid, dout_wait) == din_valid /\ full /\ dout_content_valid /\ dout_wait

Count(b) == IF b THEN 1 ELSE 0

(* One edge of clk. *)
Edge(din_valid, din, dout_wait) ==
    LET read == read_now(din_valid, dout_wait) IN
    /\ ~arst
    /\ wr_ptr' = IF din_valid THEN Inc(wr_ptr) ELSE wr_ptr
    /\ store' = IF din_valid THEN [store EXCEPT ![Low(wr_ptr)] = din] ELSE store
    /\ rd_ptr' = IF read THEN Inc(rd_ptr) ELSE rd_ptr
    /\ dout' = IF read THEN store[Low(rd_ptr)] ELSE dout
    /\ dout_content_valid' = (read \/ (dout_content_valid /\ dout_wait))
    /\ overflow' = lost(din_valid, dout_wait)
    /\ LET gone == Count(dout_valid(dout_wait)) + Count(overflow')
       IN owed' = SubSeq(owed, gone + 1, Len(owed)) \o (IF din_valid THEN <<din>> ELSE <<>>)
    /\ UNCHANGED arst

Next == \/ AssertArst \/ ReleaseArst
        \/ \E din_valid, dout_wait \in BOOLEAN, din \in Word : Edge(din_valid, din, dout_wait)

(* The clock runs, and dout_wait is low at an edge again and again, for as *)
(* long as such an edge would change anything; no word need ever come.     *)
Released == \E din_valid \in BOOLEAN, din \in Word : Edge(din_valid, din, FALSE)
Fairness == /\ WF_vars(ReleaseArst)
            /\ []<>~ENABLED <<Edge(FALSE, Zero, FALSE)>>_vars \/ []<><<Released>>_vars
Spec == Init /\ [][Next]_vars /\ Fairness
------------------------------------------------------------------------------
TypeOK == /\ {arst, dout_content_valid, overflow} \subseteq BOOLEAN
          /\ wr_ptr \in 0..3 /\ rd_ptr \in 0..3
          /\ store \in [0..1 -> Word] /\ dout \in Word

Stored == [i \in 1..((wr_ptr + 4 - rd_ptr) % 4) |-> store[Low(rd_ptr + i - 1)]]
Content == (IF dout_content_valid THEN <<dout>> ELSE <<>>) \o Stored

(***************************************************************************)
(* "overflow with loss of data" (rx_buffer_fifo_2.v:35): the words inside  *)
(* are exactly those the pins account for.  A word lost without overflow,  *)
(* an overflow without a loss, a repetition or a word out of order would   *)
(* leave a difference.                                                     *)
(***************************************************************************)
LossIffOverflow == Content = owed

(* Words only wait in the stores behind one in the output register, save   *)
(* for the single word that arrived at the last edge.                      *)
OutputFirst == ~dout_content_valid => Len(Stored) <= 1

(* A word in the stores does not stay there while dout_wait lets go again  *)
(* and again: the read pointer moves for as long as the stores have words. *)
StoresMove == []<>(empty \/ arst) \/ []<><<rd_ptr' # rd_ptr>>_vars
=============================================================================
