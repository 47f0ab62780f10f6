----------------------------- MODULE BoundedQueue -----------------------------
(***************************************************************************)
(* What every FIFO of the library promises, whatever its implementation:   *)
(* a queue of at most Capacity words, in the order in which they were      *)
(* accepted, of which the reader takes the oldest.  Writer and reader may  *)
(* act in the same step.  Only a reset discards words.  A request that     *)
(* cannot be honoured leaves the queue as it is: it is a stuttering step.  *)
(***************************************************************************)
EXTENDS Naturals, Sequences

CONSTANTS Word,      \* the words the queue carries
          Capacity   \* how many of them it holds at most

VARIABLES offered,   \* the word most recently put to the input
          queue,     \* the words accepted and not yet delivered, oldest first
          delivered, \* the word most recently delivered
          reset      \* whether the reset line is asserted
vars == <<queue, delivered>>

Init == queue = <<>>

(* The word offered is accepted, but only when there is room for it. *)
Push ==
    /\ Len(queue) < Capacity
    /\ offered' \in Word
    /\ queue' = Append(queue, offered')
    /\ UNCHANGED delivered

(* The reader takes the oldest word. *)
Pop ==
    /\ queue # <<>>
    /\ delivered' = Head(queue)
    /\ queue' = Tail(queue)

(* Both at once: there is room, and the word taken is not the one accepted. *)
PushPop ==
    /\ queue # <<>>
    /\ Len(queue) < Capacity
    /\ offered' \in Word
    /\ delivered' = Head(queue)
    /\ queue' = Append(Tail(queue), offered')

(* Only the reset line empties the queue without delivering; what the      *)
(* output shows afterwards is not promised.                                *)
Discard ==
    /\ reset'
    /\ queue' = <<>>

Next == Push \/ PushPop \/ Pop \/ Discard

Spec == Init /\ [][Next]_vars
=============================================================================
