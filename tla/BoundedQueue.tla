---------------------------- MODULE BoundedQueue ----------------------------
(***************************************************************************)
(* What a fifo_obj promises to its callers, whatever its implementation:   *)
(* a FIFO queue of at most Capacity elements.  A push and a pop each take  *)
(* effect at one instant between call and return; a push takes effect only *)
(* when there is room, a pop only when there is an element, and the pop    *)
(* returns the oldest one.                                                 *)
(***************************************************************************)
EXTENDS Naturals, Sequences

CONSTANTS Producers,  \* threads that call push
          Consumers,  \* threads that call pop
          Elements,   \* what can be pushed: pointers to message objects
          Capacity,   \* nMaxElements
          None        \* no call in progress, or no result yet

VARIABLES queue,      \* the elements in the queue, oldest first
          in,         \* in[p]: element of p's push that has not taken effect
          out         \* out[c]: result of c's pop that has not returned

vars == <<queue, in, out>>

Init == /\ queue = <<>>
        /\ in = [p \in Producers |-> None]
        /\ out = [c \in Consumers |-> None]

Call(p) == /\ in[p] = None
           /\ \E e \in Elements : in' = [in EXCEPT ![p] = e]
           /\ UNCHANGED <<queue, out>>

Put(p) == /\ in[p] # None
          /\ Len(queue) < Capacity
          /\ queue' = Append(queue, in[p])
          /\ in' = [in EXCEPT ![p] = None]
          /\ UNCHANGED out

Get(c) == /\ out[c] = None
          /\ queue # <<>>
          /\ out' = [out EXCEPT ![c] = Head(queue)]
          /\ queue' = Tail(queue)
          /\ UNCHANGED in

Return(c) == /\ out[c] # None
             /\ out' = [out EXCEPT ![c] = None]
             /\ UNCHANGED <<queue, in>>

Next == \/ \E p \in Producers : Call(p) \/ Put(p)
        \/ \E c \in Consumers : Get(c) \/ Return(c)

Spec == Init /\ [][Next]_vars

=============================================================================
