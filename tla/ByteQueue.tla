----------------------------- MODULE ByteQueue -----------------------------
(***************************************************************************)
(* What a ring of bytes promises its users (the comments of                *)
(* src/comm/aml_ringbuffer.c and of include/odas/comm/ring_buffer.h): bytes *)
(* leave in the order in which they came, and no more than `room' of them   *)
(* wait.  A write to a prompt ring takes as many bytes as fit; in a ring    *)
(* without a lock it may take fewer, by what the reader has just taken.  How *)
(* many bytes a reader asked for is not part of the queue: it gets some of   *)
(* those that wait.  Both rings of src/comm are shown to implement this.     *)
(***************************************************************************)
EXTENDS Integers, Sequences

CONSTANTS Rooms,     \* the capacities a ring can be given
          Prompt     \* whether a write is one step and takes all that fits

VARIABLES room,      \* how many bytes may wait; 0 when there is no ring
          bytes,     \* the bytes that wait, the oldest one first
          given,     \* what the last write was given
          got        \* what the last read returned

queueVars == <<room, bytes, given, got>>

Init == room \in Rooms \cup {0} /\ bytes = <<>> /\ given = <<>> /\ got = <<>>

\* A ring is made, or emptied and given a new size.
Open == /\ room' \in Rooms
        /\ bytes' = <<>>
        /\ UNCHANGED <<given, got>>

Release == room' = 0 /\ bytes' = <<>> /\ UNCHANGED <<given, got>>

\* Where a call takes more than a step a writer comes with bytes and waits to put them.
Offer == ~ Prompt /\ UNCHANGED <<room, bytes, got>>

\* A reader comes with an empty buffer, or leaves with one.
Ask == got' = <<>> /\ UNCHANGED <<room, bytes, given>>

\* The first bytes that the writer gives are added at the end, as room allows.
Put == /\ \E n \in 0 .. Len(given') : bytes' = bytes \o SubSeq(given', 1, n)
       /\ Len(bytes') <= room
       /\ Prompt => Len(bytes') = room \/ Len(bytes') = Len(bytes) + Len(given')
       /\ UNCHANGED <<room, got>>

\* Some bytes are taken from the front and handed to the reader.
Take == /\ bytes = got' \o bytes'
        /\ UNCHANGED <<room, given>>

Next == Open \/ Release \/ Offer \/ Ask \/ Put \/ Take

Spec == Init /\ [][Next]_queueVars
=============================================================================
