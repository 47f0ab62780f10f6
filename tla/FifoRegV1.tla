------------------------------ MODULE FifoRegV1 ------------------------------
(***************************************************************************)
(* basic_verilog/fifo_single_clock_reg_v1.sv: a single clock FIFO whose    *)
(* words move towards data[0] as they are read.  One operator per branch   *)
(* of the case on {w_req, r_req}; Edge is the whole always_ff block.       *)
(***************************************************************************)
EXTENDS Integers

CONSTANTS DEPTH,     \* words the FIFO holds
          Word,      \* data words; Zero is '0
          Zero,
          INIT_CNT,  \* words present after a reset
          INIT_DATA  \* and what they are: the included init file

VARIABLES cnt, data, data_buf
vars == <<cnt, data, data_buf>>

Slots == 0..(DEPTH - 1)
empty == cnt = 0
full == cnt = DEPTH

Init == cnt = INIT_CNT /\ data = INIT_DATA /\ data_buf = Zero

(* USE_INIT_FILE is a string and so never zero: the file is always loaded. *)
Reset == cnt' = INIT_CNT /\ data' = INIT_DATA /\ data_buf' = Zero

Shifted == [i \in Slots |-> IF i + 1 \in Slots THEN data[i + 1] ELSE data[i]]

ReadOut ==
    /\ data' = Shifted
    /\ cnt' = cnt - 1
    /\ data_buf' = data[0]

WriteIn(w) ==
    /\ data' = [data EXCEPT ![cnt] = w]
    /\ cnt' = cnt + 1
    /\ UNCHANGED data_buf

(* Mutant: the word is stored where it would go without the shift. *)
ReadWriteUnshifted(w) ==
    /\ data' = [Shifted EXCEPT ![cnt] = w]
    /\ data_buf' = data[0]
    /\ UNCHANGED cnt

(* The words move down and the new one takes the place that falls free. *)
ReadWrite(w) ==
    /\ data' = [Shifted EXCEPT ![cnt - 1] = w]
    /\ data_buf' = data[0]
    /\ UNCHANGED cnt

Edge(nrst, w_req, w, r_req) ==
    \/ ~nrst /\ Reset
    \/ /\ nrst
       /\ \/ w_req /\ r_req /\ ~empty /\ ~full /\ ReadWrite(w)
          \/ r_req /\ (w_req => full) /\ ~empty /\ ReadOut
          \/ w_req /\ (r_req => empty) /\ ~full /\ WriteIn(w)
          \/ /\ (w_req => full /\ ~r_req) /\ (r_req => empty /\ ~w_req)
             /\ UNCHANGED vars

(* What the reader sees in first-word-fall-through and in normal mode. *)
r_data_fwft == IF empty THEN Zero ELSE data[0]
r_data_normal == data_buf
=============================================================================
