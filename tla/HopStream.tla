----------------------------- MODULE HopStream ------------------------------
(***************************************************************************)
(* What the whole pipeline promises to those who connect a source and some *)
(* sinks to it: each sink gets hop 1, hop 2, ... up to the last hop of the *)
(* source, whatever happens in between, and is closed after the last one.  *)
(***************************************************************************)
EXTENDS Naturals

CONSTANT Sinks

VARIABLES produced,   \* hops that the source emitted
          ended,      \* the source sent its "0" message
          delivered,  \* delivered[s]: hops that sink s wrote
          closed      \* closed[s]: sink s was closed

vars == <<produced, ended, delivered, closed>>

Init == /\ produced = 0
        /\ ended = FALSE
        /\ delivered = [s \in Sinks |-> 0]
        /\ closed = [s \in Sinks |-> FALSE]

Produce == /\ ~ended
           /\ produced' = produced + 1
           /\ UNCHANGED <<ended, delivered, closed>>

End == /\ ~ended
       /\ ended' = TRUE
       /\ UNCHANGED <<produced, delivered, closed>>

Deliver(s) == /\ ~closed[s]
              /\ delivered[s] < produced
              /\ delivered' = [delivered EXCEPT ![s] = @ + 1]
              /\ UNCHANGED <<produced, ended, closed>>

Close(s) == /\ ~closed[s]
            /\ ended
            /\ delivered[s] = produced
            /\ closed' = [closed EXCEPT ![s] = TRUE]
            /\ UNCHANGED <<produced, ended, delivered>>

Next == Produce \/ End \/ \E s \in Sinks : Deliver(s) \/ Close(s)

Spec == Init /\ [][Next]_vars

=============================================================================
