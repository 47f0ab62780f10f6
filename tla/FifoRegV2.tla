------------------------------ MODULE FifoRegV2 ------------------------------
(***************************************************************************)
(* basic_verilog/fifo_single_clock_reg_v2.sv: the same FIFO with read and  *)
(* write pointers instead of moving words.  An index outside data is what  *)
(* simulation makes of it: a write is lost, a read returns X.              *)
(***************************************************************************)
EXTENDS Integers

CONSTANTS DEPTH, Word, Zero, INIT_CNT, INIT_DATA,
          X          \* an unknown word

VARIABLES cnt, data, data_buf, w_ptr, r_ptr
vars == <<cnt, data, data_buf, w_ptr, r_ptr>>

Slots == 0..(DEPTH - 1)
empty == cnt = 0
full == cnt = DEPTH

(* clogb2(DEPTH) + 1 bits hold a pointer, where clogb2(2 ^ n) is n + 1. *)
PtrModulus == 4 * DEPTH
inc_ptr(ptr) == IF ptr = DEPTH - 1 THEN 0 ELSE (ptr + 1) % PtrModulus

At(ptr) == IF ptr \in Slots THEN data[ptr] ELSE X

Init == /\ cnt = INIT_CNT /\ data = INIT_DATA /\ data_buf = Zero
        /\ w_ptr = INIT_CNT /\ r_ptr = 0

Reset == /\ cnt' = INIT_CNT /\ data' = INIT_DATA /\ data_buf' = Zero
         /\ w_ptr' = INIT_CNT /\ r_ptr' = 0

ReadSide == r_ptr' = inc_ptr(r_ptr) /\ data_buf' = At(r_ptr)
WriteSide(w) == w_ptr' = inc_ptr(w_ptr) /\ data' = [data EXCEPT ![w_ptr] = w]

ReadOut == ReadSide /\ cnt' = cnt - 1 /\ UNCHANGED <<data, w_ptr>>
WriteIn(w) == WriteSide(w) /\ cnt' = cnt + 1 /\ UNCHANGED <<data_buf, r_ptr>>
ReadWrite(w) == ReadSide /\ WriteSide(w) /\ UNCHANGED cnt

Edge(nrst, w_req, w, r_req) ==
    \/ ~nrst /\ Reset
    \/ /\ nrst
       /\ \/ w_req /\ r_req /\ ~empty /\ ~full /\ ReadWrite(w)
          \/ r_req /\ (w_req => full) /\ ~empty /\ ReadOut
          \/ w_req /\ (r_req => empty) /\ ~full /\ WriteIn(w)
          \/ /\ (w_req => full /\ ~r_req) /\ (r_req => empty /\ ~w_req)
             /\ UNCHANGED vars

r_data_fwft == IF empty THEN Zero ELSE At(r_ptr)
r_data_normal == data_buf
=============================================================================
