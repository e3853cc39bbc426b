-------------------------------- MODULE Fifo --------------------------------
(***************************************************************************)
(* What a ring buffer promises its two threads: a bounded queue.  The      *)
(* producer appends any number of elements that fit; the consumer is given *)
(* exactly the elements it removes from the front; nobody sees a position. *)
(* The elements are numbered as they are written, modulo Modulus.          *)
(***************************************************************************)
EXTENDS Integers, Sequences

CONSTANT Modulus

VARIABLES capacity,   \* fixed when the buffer is made
          queue,      \* the elements that wait, oldest first
          next,       \* the number of the next element written
          given       \* the elements just removed

vars == <<capacity, queue, next, given>>

Init == capacity \in Nat /\ queue = <<>> /\ next = 0 /\ given = <<>>

Put(n) == /\ Len(queue) + n <= capacity
          /\ queue' = queue \o [j \in 1 .. n |-> (next + j - 1) % Modulus]
          /\ next' = (next + n) % Modulus
          /\ UNCHANGED <<capacity, given>>

Get(n) == /\ given = <<>>
          /\ given' = SubSeq(queue, 1, n)
          /\ queue' = SubSeq(queue, n + 1, Len(queue))
          /\ UNCHANGED <<capacity, next>>

\* The consumer comes back for more.
Consume == given' = <<>> /\ UNCHANGED <<capacity, queue, next>>

Clear == queue' = <<>> /\ next' = 0 /\ UNCHANGED <<capacity, given>>

Next == \/ \E n \in 1 .. capacity : Put(n)
        \/ \E n \in 1 .. Len(queue) : Get(n)
        \/ Consume \/ Clear

Spec == Init /\ [][Next]_vars
=============================================================================
