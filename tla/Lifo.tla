--------------------------------- MODULE Lifo ---------------------------------
(***************************************************************************)
(* basic_verilog/lifo.sv: writes go to data[cnt], reads take data[0] and   *)
(* move the others down.  One operator per branch of the case on the       *)
(* filtered requests; Edge is the whole always_ff.                         *)
(*                                                                         *)
(* History: stack holds the words that a stack would hold after the same   *)
(* requests, its top last.                                                 *)
(***************************************************************************)
EXTENDS Integers, SequencesExt

CONSTANTS DEPTH,        \* words it holds
          Word, Zero    \* data words, and '0

VARIABLES cnt, data, data_buf, stack
vars == <<cnt, data, data_buf, stack>>

Slots == 0..(DEPTH - 1)
empty == cnt = 0
full == cnt = DEPTH
r_data == IF empty THEN Zero ELSE data[0]

Init == cnt = 0 /\ data = [i \in Slots |-> Zero] /\ data_buf = Zero /\ stack = <<>>

Reset == cnt' = 0 /\ data' = [i \in Slots |-> Zero] /\ data_buf' = Zero /\ stack' = <<>>

ReadOut ==
    /\ data_buf' = data[0]
    /\ cnt' = cnt - 1
    /\ data' = [i \in Slots |-> IF i + 1 \in Slots THEN data[i + 1] ELSE data[i]]
    /\ stack' = Front(stack)

WriteIn(w) ==
    /\ data' = [data EXCEPT ![cnt] = w]
    /\ cnt' = cnt + 1
    /\ stack' = Append(stack, w)
    /\ UNCHANGED data_buf

(* The word written last is overwritten, the first one shown and kept. *)
ReadWrite(w) ==
    /\ data' = [data EXCEPT ![cnt - 1] = w]
    /\ data_buf' = data[0]
    /\ stack' = Append(Front(stack), w)
    /\ UNCHANGED cnt

(* The requests are filtered by full and empty first. *)
Edge(nrst, w_req, w, r_req) ==
    LET w_req_f == w_req /\ ~full
        r_req_f == r_req /\ ~empty
    IN \/ ~nrst /\ Reset
       \/ nrst /\ w_req_f /\ r_req_f /\ ReadWrite(w)
       \/ nrst /\ w_req_f /\ ~r_req_f /\ WriteIn(w)
       \/ nrst /\ ~w_req_f /\ r_req_f /\ ReadOut
       \/ nrst /\ ~w_req_f /\ ~r_req_f /\ UNCHANGED vars

Next == \E nrst, w_req, r_req \in BOOLEAN, w \in Word : Edge(nrst, w_req, w, r_req)
Spec == Init /\ [][Next]_vars
------------------------------------------------------------------------------
(***************************************************************************)
(* "Single-clock LIFO buffer implementation, also known as "stack""        *)
(* (lifo.sv:7): what it shows is the top of the stack, the word written    *)
(* last of those it holds.  The code shows the one written first: after    *)
(* two writes it is a queue.                                               *)
(***************************************************************************)
ShowsTop == ~empty => r_data = Last(stack)
=============================================================================
