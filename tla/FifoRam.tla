------------------------------- MODULE FifoRam -------------------------------
(***************************************************************************)
(* basic_verilog/fifo_single_clock_ram.sv over the two-port RAM of         *)
(* true_dual_port_write_first_2_clock_ram.sv.  The RAM has no reset and is *)
(* not gated by nrst: its ports follow w_req_f and r_req_f at every edge.  *)
(***************************************************************************)
EXTENDS Integers

CONSTANTS DEPTH, Word, Zero, INIT_CNT, INIT_DATA

VARIABLES cnt, w_ptr, r_ptr,
          data_mem, ram_data_b  \* the RAM, and the output register of port b
vars == <<cnt, w_ptr, r_ptr, data_mem, ram_data_b>>

empty == cnt = 0
full == cnt = DEPTH
PtrModulus == 4 * DEPTH
inc_ptr(ptr) == IF ptr = DEPTH - 1 THEN 0 ELSE (ptr + 1) % PtrModulus

(* The address port of the RAM keeps the low bits of the pointer. *)
Addr(ptr) == ptr % DEPTH

Init == /\ cnt = INIT_CNT /\ w_ptr = INIT_CNT /\ r_ptr = 0
        /\ data_mem = INIT_DATA /\ ram_data_b = Zero

(* Both ports at one edge; port b returns the word from before the edge. *)
Ram(w_req_f, w, r_req_f) ==
    /\ data_mem' = IF w_req_f THEN [data_mem EXCEPT ![Addr(w_ptr)] = w] ELSE data_mem
    /\ ram_data_b' = IF r_req_f THEN data_mem[Addr(r_ptr)] ELSE ram_data_b

Pointers(w_req_f, r_req_f) ==
    /\ w_ptr' = IF w_req_f THEN inc_ptr(w_ptr) ELSE w_ptr
    /\ r_ptr' = IF r_req_f THEN inc_ptr(r_ptr) ELSE r_ptr
    /\ cnt' = IF w_req_f = r_req_f THEN cnt ELSE IF w_req_f THEN cnt + 1 ELSE cnt - 1

Edge(nrst, w_req, w, r_req) ==
    LET w_req_f == w_req /\ ~full
        r_req_f == r_req /\ ~empty
    IN /\ Ram(w_req_f, w, r_req_f)
       /\ IF nrst
            THEN Pointers(w_req_f, r_req_f)
            ELSE cnt' = 0 /\ w_ptr' = 0 /\ r_ptr' = 0
=============================================================================
