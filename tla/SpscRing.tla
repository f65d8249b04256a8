----------------------------- MODULE SpscRing -----------------------------
(***************************************************************************)
(* The ring of src/comm/ring_buffer.c: one thread writes, one thread reads, *)
(* and no lock.  Each access to an atomic field, and each byte that a memcpy *)
(* moves, is a step; the loads are acquires and the stores releases, so the *)
(* steps of the two threads interleave.  `head' and `tail' are size_t: they *)
(* count for ever and wrap at the width of the word.                        *)
(***************************************************************************)
EXTENDS Integers, Sequences

CONSTANTS Byte,        \* the bytes that are written
          Size,        \* rb->size, a power of two, as IS_POWER_OF_TWO asks
          Word,        \* number of values of a size_t
          MaxChunk     \* the longest read or write asked for

VARIABLES buffer, head, tail,   \* fields of ring_buffer_t
          wpc,                  \* next step of the producer
          wdata,                \* `data' and `bytes' of its call
          wtail,                \* its local `tail'
          wdone,                \* bytes it has copied
          rpc, rbytes, rhead,   \* the same of the consumer
          rdata                 \* what it has copied

vars == <<buffer, head, tail, wpc, wdata, wtail, wdone, rpc, rbytes, rhead, rdata>>
producerVars == <<head, wpc, wdata, wtail, wdone>>
consumerVars == <<tail, rpc, rbytes, rhead, rdata>>

Cells == 0 .. Size - 1
Chunks == UNION { [1 .. n -> Byte] : n \in 1 .. MaxChunk }

\* A size and a word are powers of two, so the size divides the word; and a buffer
\* holds bytes from the start.
RingSizes == /\ Size \in Nat \ {0} /\ Word \in Nat \ {0} /\ Word % Size = 0
             /\ MaxChunk \in Nat /\ 0 \in Byte

Least(a, b) == IF a < b THEN a ELSE b

\* malloc does not clear the buffer; zeros stand for what was there before.
Init == /\ buffer = [c \in Cells |-> 0] /\ head = 0 /\ tail = 0
        /\ wpc = "idle" /\ wdata = <<>> /\ wtail = 0 /\ wdone = 0
        /\ rpc = "idle" /\ rbytes = 0 /\ rhead = 0 /\ rdata = <<>>

ring_buffer_capacity == Size - 1

\* The number of bytes, as one of the two threads computes it.
Stored(h, t) == (h - t) % Size

-----------------------------------------------------------------------------
(* ring_buffer_write, by the producer; locals that are dead are 0 *)

WriteCall == /\ wpc = "idle"
             /\ wdata' \in Chunks
             /\ wpc' = "load_tail" /\ wdone' = 0
             /\ UNCHANGED <<buffer, head, wtail, consumerVars>>

WriteLoad == /\ wpc = "load_tail"
             /\ wtail' = tail
             /\ wpc' = "copy"
             /\ UNCHANGED <<buffer, head, wdata, wdone, consumerVars>>

\* Mutant: the cell that tells full from empty is used as well.
WriteSpace_Full == Size - Stored(head, wtail)

WriteSpace == (wtail + Size - head - 1) % Size

Writable == Least(Len(wdata), WriteSpace)

\* One byte of the two memcpy calls: the copy goes round the end of the buffer.
WriteCell == ((head % Size) + wdone) % Size

WriteCopy == /\ wpc = "copy" /\ wdone < Writable
             /\ buffer' = [buffer EXCEPT ![WriteCell] = wdata[wdone + 1]]
             /\ wdone' = wdone + 1
             /\ UNCHANGED <<head, wpc, wdata, wtail, consumerVars>>

WriteStore == /\ wpc = "copy" /\ wdone = Writable
              /\ head' = (head + wdone) % Word
              /\ wpc' = "idle" /\ wtail' = 0 /\ wdone' = 0
              /\ UNCHANGED <<buffer, wdata, consumerVars>>

-----------------------------------------------------------------------------
(* ring_buffer_read, by the consumer *)

ReadCall == /\ rpc = "idle"
            /\ rbytes' \in 1 .. MaxChunk
            /\ rpc' = "load_head" /\ rdata' = <<>>
            /\ UNCHANGED <<buffer, tail, rhead, producerVars>>

ReadLoad == /\ rpc = "load_head"
            /\ rhead' = head
            /\ rpc' = "copy"
            /\ UNCHANGED <<buffer, tail, rbytes, rdata, producerVars>>

Readable == Least(rbytes, Stored(rhead, tail))

ReadCell == ((tail % Size) + Len(rdata)) % Size

ReadCopy == /\ rpc = "copy" /\ Len(rdata) < Readable
            /\ rdata' = Append(rdata, buffer[ReadCell])
            /\ UNCHANGED <<buffer, tail, rpc, rbytes, rhead, producerVars>>

ReadStore == /\ rpc = "copy" /\ Len(rdata) = Readable
             /\ tail' = (tail + Len(rdata)) % Word
             /\ rpc' = "idle" /\ rbytes' = 0 /\ rhead' = 0
             /\ UNCHANGED <<buffer, rdata, producerVars>>

-----------------------------------------------------------------------------

Producer == WriteCall \/ WriteLoad \/ WriteCopy \/ WriteStore
Consumer == ReadCall \/ ReadLoad \/ ReadCopy \/ ReadStore

Next == Producer \/ Consumer

Spec == Init /\ [][Next]_vars

-----------------------------------------------------------------------------
(* Properties *)

TypeOK == /\ buffer \in [Cells -> Byte] /\ head \in 0 .. Word - 1 /\ tail \in 0 .. Word - 1
          /\ wpc \in {"idle", "load_tail", "copy"} /\ wtail \in 0 .. Word - 1
          /\ wdata \in {<<>>} \cup Chunks /\ wdone \in 0 .. MaxChunk
          /\ rpc \in {"idle", "load_head", "copy"} /\ rhead \in 0 .. Word - 1
          /\ rbytes \in 0 .. MaxChunk /\ rdata \in Seq(Byte) /\ Len(rdata) <= MaxChunk

\* No data race: while both threads copy, the producer never stores into a cell
\* that the consumer has still to copy, whatever either of them knew of the other.
CopiesDisjoint ==
    wpc = "copy" /\ wdone < Writable /\ rpc = "copy" =>
      WriteCell \notin { (tail + i) % Size : i \in 0 .. Readable - 1 }

\* The positions may be stale but never wrong: the producer sees no more room,
\* and the consumer no more bytes, than there are, even when the words wrap.
ViewsAreSafe ==
    /\ wpc = "copy" => WriteSpace <= ring_buffer_capacity - Stored(head, tail)
    /\ rpc = "copy" => Stored(rhead, tail) <= Stored(head, tail)

\* The bytes published and not yet taken.
Waiting == [i \in 1 .. Stored(head, tail) |-> buffer[(tail + i - 1) % Size]]

\* What the reader has been given: its copy counts when the read is complete.
Returned == IF rpc = "idle" THEN rdata ELSE <<>>

\* The ring is a queue of bytes (Queue!Init, Queue!Next): a write takes effect when
\* it stores head, a read when it stores tail, and no byte is torn, lost, repeated
\* or reordered.
Queue == INSTANCE ByteQueue WITH Rooms <- {ring_buffer_capacity}, Prompt <- FALSE,
                                 room <- ring_buffer_capacity, bytes <- Waiting, given <- wdata, got <- Returned
=============================================================================
