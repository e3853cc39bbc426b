---------------------------- MODULE BlockChannel ----------------------------
(***************************************************************************)
(* What the receive queue promises the decoder, free of positions, slots   *)
(* and threads: the blocks the radio delivered are handed out one at a     *)
(* time, each whole, in the order they were received, none twice and none  *)
(* skipped, and at most Capacity of them are outstanding.  A block keeps   *)
(* its contents from the moment it is taken to the moment it is returned.  *)
(***************************************************************************)
EXTENDS Naturals

CONSTANT Capacity   \* Blocks that may be published and not yet returned

VARIABLES
  sent,       \* Number of blocks published; block i is the i-th of them
  returned,   \* Number of blocks taken and returned
  held        \* The block the consumer holds, 0 for none

vars == <<sent, returned, held>>

None == 0

Init == sent = 0 /\ returned = 0 /\ held = None

Publish == /\ sent - returned < Capacity
           /\ sent' = sent + 1
           /\ UNCHANGED <<returned, held>>

Take == /\ held = None
        /\ returned < sent
        /\ held' = returned + 1
        /\ UNCHANGED <<sent, returned>>

Return == /\ held # None
          /\ returned' = held
          /\ held' = None
          /\ UNCHANGED sent

\* The consumer leaves with a block in its hands: it has stopped reading it.
Abandon == /\ held # None
           /\ held' = None
           /\ UNCHANGED <<sent, returned>>

Next == Publish \/ Take \/ Return \/ Abandon

Spec == Init /\ [][Next]_vars
=============================================================================
