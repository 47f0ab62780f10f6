------------------------------ MODULE FifoFamily ------------------------------
(***************************************************************************)
(* The single clock FIFOs side by side on the same inputs: v1 and v2 of    *)
(* fifo_single_clock_reg and fifo_single_clock_ram.                        *)
(***************************************************************************)
EXTENDS Integers, Sequences, StreamWords

CONSTANTS DEPTH, INIT_CNT

VARIABLES nrst,                              \* the reset input at the last edge
          cnt1, data1, buf1,                 \* fifo_single_clock_reg_v1
          cnt2, data2, buf2, wp2, rp2,       \* fifo_single_clock_reg_v2
          cnt3, wp3, rp3, mem3, out3,        \* fifo_single_clock_ram
          offered,     \* history: the word last requested to be written
          just_read    \* history: the last edge took a word
vars == <<nrst, cnt1, data1, buf1, cnt2, data2, buf2, wp2, rp2,
          cnt3, wp3, rp3, mem3, out3, offered, just_read>>

X == -1
InitData == [i \in 0..(DEPTH - 1) |-> Zero]

V1 == INSTANCE FifoRegV1 WITH INIT_DATA <- InitData,
        cnt <- cnt1, data <- data1, data_buf <- buf1
V2 == INSTANCE FifoRegV2 WITH INIT_DATA <- InitData,
        cnt <- cnt2, data <- data2, data_buf <- buf2, w_ptr <- wp2, r_ptr <- rp2
V3 == INSTANCE FifoRam WITH INIT_DATA <- InitData,
        cnt <- cnt3, w_ptr <- wp3, r_ptr <- rp3, data_mem <- mem3, ram_data_b <- out3

Init == /\ nrst = TRUE /\ V1!Init /\ V2!Init /\ V3!Init
        /\ offered = Zero /\ just_read = FALSE

(* One edge of clk, with any requests. *)
Edge ==
    \E rst, w_req, r_req \in BOOLEAN, w \in Word :
        /\ nrst' = rst
        /\ V1!Edge(rst, w_req, w, r_req)
        /\ V2!Edge(rst, w_req, w, r_req)
        /\ V3!Edge(rst, w_req, w, r_req)
        /\ just_read' = (rst /\ r_req /\ ~V1!empty)
        /\ offered' = IF rst /\ w_req THEN w ELSE offered

Spec == Init /\ [][Edge]_vars
------------------------------------------------------------------------------
TypeOK ==
    /\ {cnt1, cnt2, cnt3} \subseteq 0..DEPTH
    /\ {wp2, rp2, wp3, rp3} \subseteq 0..(DEPTH - 1)
    /\ data1 \in [0..(DEPTH - 1) -> Word] /\ data2 \in [0..(DEPTH - 1) -> Word]
    /\ mem3 \in [0..(DEPTH - 1) -> Word]
    /\ {buf1, buf2, out3} \subseteq Word

(***************************************************************************)
(* "Both variants are valid, both operate identically from an outside      *)
(* observer's view" (fifo_single_clock_reg_v1.sv:11): after any history of *)
(* requests and resets the counts, and with them empty and full, and the   *)
(* data outputs of both modes agree.  So it is with every initial count    *)
(* but DEPTH itself: full from the start, v2 has its write pointer outside *)
(* data, and the words it accepts are lost until the pointer has wrapped. *)
(***************************************************************************)
OperateIdentically ==
    /\ cnt1 = cnt2
    /\ V1!r_data_fwft = V2!r_data_fwft
    /\ V1!r_data_normal = V2!r_data_normal

(* The block RAM variant counts like them, and after a read shows the same *)
(* word, although it shares no pointer discipline with v1 and keeps its    *)
(* output and its contents through a reset.                                *)
RamSameView ==
    /\ cnt3 = cnt1
    /\ just_read => out3 = V1!r_data_normal

(* A queue of DEPTH words: nothing lost, repeated or reordered, also when  *)
(* reads and writes meet at the empty and at the full FIFO.                *)
Queue == INSTANCE BoundedQueue WITH
    Capacity <- DEPTH, offered <- offered, queue <- [i \in 1..cnt1 |-> data1[i - 1]],
    delivered <- buf1, reset <- ~nrst
RefinesQueue == Queue!Spec
=============================================================================
