------------------------------- MODULE TxBuffer -------------------------------
(***************************************************************************)
(* Advanced Synthesis Cookbook/storage/tx_buffer_fifo_8word.v: an eight    *)
(* word transmit buffer.  Its ready comes from a count that is one clock   *)
(* old, and its output is the word that was read at the last edge.         *)
(*                                                                         *)
(* History: offered is the word last held valid; asked and due say that    *)
(* the last edge requested a word, and which word, if any, was the oldest. *)
(***************************************************************************)
EXTENDS Integers, Sequences, StreamWords

VARIABLES arst, wr_ptr, rd_ptr, store, rdmux, last_read_now, last_dout,
          din_ready, hungry, underflow,
          offered, asked, due
regs == <<wr_ptr, rd_ptr, store, rdmux, last_read_now, last_dout, din_ready, hungry, underflow>>
hist == <<offered, asked, due>>
vars == <<arst, regs, hist>>

Pointer == 0..15
Slots == 0..7                   \* store_a to store_h
Inc(ptr) == (ptr + 1) % 16
Slot(ptr) == ptr % 8            \* ptr[2:0]
words_used == (wr_ptr - rd_ptr) % 16
full == words_used = 8
empty == words_used = 0

(* Mutant: the late count is compared with the size itself. *)
full_only == words_used >= 8
(* words_used[3] | &words_used[2:0] *)
almost_full == words_used >= 7

dout == IF last_read_now THEN rdmux ELSE last_dout

write_now(din_valid) == din_valid /\ din_ready
(* A request with data available, or an overflow: "stay semi consistent". *)
read_now(din_valid, dout_ready) ==
    \/ dout_ready /\ ~empty
    \/ write_now(din_valid) /\ full

(* Mutant: the test is one word too generous. *)
hungry_late == words_used <= 5
(* ~|words_used[3:2] *)
few_words == words_used < 4

(* "No data to back read request means underflow". *)
starved(dout_ready) == dout_ready /\ empty

Init == /\ arst = TRUE
        /\ wr_ptr = 0 /\ rd_ptr = 0 /\ store = [s \in Slots |-> Zero]
        /\ rdmux = Zero /\ last_read_now = FALSE /\ last_dout = Zero
        /\ din_ready = TRUE /\ hungry = TRUE /\ underflow = FALSE
        /\ offered = Zero /\ asked = FALSE /\ due = <<>>

AssertArst ==
    /\ ~arst /\ arst' = TRUE
    /\ wr_ptr' = 0 /\ rd_ptr' = 0 /\ store' = [s \in Slots |-> Zero]
    /\ rdmux' = Zero /\ last_read_now' = FALSE /\ last_dout' = Zero
    /\ din_ready' = TRUE /\ hungry' = TRUE /\ underflow' = FALSE
    /\ offered' = Zero /\ asked' = FALSE /\ due' = <<>>

ReleaseArst == arst /\ arst' = FALSE /\ UNCHANGED <<regs, hist>>

(* One edge of clk. *)
Edge(din_valid, din, dout_ready) ==
    /\ ~arst
    /\ IF write_now(din_valid)
         THEN wr_ptr' = Inc(wr_ptr) /\ store' = [store EXCEPT ![Slot(wr_ptr)] = din]
         ELSE UNCHANGED <<wr_ptr, store>>
    /\ rd_ptr' = IF read_now(din_valid, dout_ready) THEN Inc(rd_ptr) ELSE rd_ptr
    /\ rdmux' = store[Slot(rd_ptr)]
    /\ last_read_now' = read_now(din_valid, dout_ready)
    /\ last_dout' = dout
    /\ underflow' = starved(dout_ready)
    /\ hungry' = few_words
    /\ din_ready' = ~almost_full
    /\ offered' = IF din_valid THEN din ELSE offered
    /\ asked' = dout_ready
    /\ due' = IF empty THEN <<>> ELSE <<store[Slot(rd_ptr)]>>
    /\ UNCHANGED arst

Next == \/ AssertArst \/ ReleaseArst
        \/ \E din_valid, dout_ready \in BOOLEAN, din \in Word : Edge(din_valid, din, dout_ready)

Spec == Init /\ [][Next]_vars
------------------------------------------------------------------------------
TypeOK == /\ {arst, last_read_now, din_ready, hungry, underflow} \subseteq BOOLEAN
          /\ {wr_ptr, rd_ptr} \subseteq Pointer
          /\ store \in [Slots -> Word] /\ {rdmux, last_dout, offered} \subseteq Word

(***************************************************************************)
(* The late ready is early enough: a writer that still sees din_ready      *)
(* never meets full stores, so that no word is dropped to "stay semi       *)
(* consistent" (tx_buffer_fifo_8word.v:209), and hungry, as late as it is, *)
(* promises room for four words without a look at din_ready.               *)
(***************************************************************************)
ReadyHasRoom == /\ words_used <= 8
                /\ din_ready => ~full
                /\ hungry => words_used <= 4 /\ din_ready

(* A reader that asks gets the oldest word at the next edge or is told of  *)
(* the underflow, never both and never neither.                            *)
AnswerOrUnderflow ==
    asked => due = IF underflow THEN <<>> ELSE <<dout>>

(* A queue of eight words: in order, nothing lost, repeated or replaced.   *)
Queue == INSTANCE BoundedQueue WITH
    Capacity <- 8, delivered <- dout, reset <- arst,
    queue <- [i \in 1..words_used |-> store[Slot(rd_ptr + i - 1)]]
RefinesQueue == Queue!Spec
=============================================================================
