---------------------------- MODULE RingBuffer ----------------------------
(***************************************************************************)
(* The ring of bytes of src/comm/aml_ringbuffer.c, which src_pcm.c puts     *)
(* between the capture callback and the source thread.  Each function runs  *)
(* under the mutex of the ring, so it is one step; only                     *)
(* ring_buffer_reset_size works outside it, before and between its parts.    *)
(* That the mutex excludes is assumed: src_pcm.c takes the ring from malloc  *)
(* and nothing in the sources initialises its lock.  One thread initialises  *)
(* and resizes a ring; the other functions may be called by any thread.      *)
(*                                                                         *)
(* A pointer into the ring is its offset from start_addr.                  *)
(***************************************************************************)
EXTENDS Integers, Sequences, SequencesExt

CONSTANTS Byte,          \* the bytes that callers write
          MaxSize,       \* the largest ring asked for
          MaxChunk,      \* the longest read or write asked for
          Operations     \* the functions that callers use

VARIABLES allocated,     \* bytes behind start_addr; 0 for NULL
          size, rd, wr,  \* fields of struct ring_buffer
          lastIsWrite,   \* last_is_write
          memory,        \* the bytes themselves
          growing,       \* size that ring_buffer_reset_size is growing to, or 0
          shrinking,     \* size that it has found small enough, or 0
          fault,         \* a memset went to start_addr = NULL: the program is over
          given,         \* bytes given to the last write
          got,           \* bytes returned by the last read
          result         \* value returned by the last call

vars == <<allocated, size, rd, wr, lastIsWrite, memory, growing, shrinking, fault,
          given, got, result>>

block == <<allocated, size, growing, shrinking>>

\* What the theorems ask of the constants; memset writes the byte 0.
RingParameters == MaxSize \in Nat /\ MaxChunk \in Nat /\ 0 \in Byte

\* The functions whose steps are steps of a queue, the ones src_pcm.c calls (init, release,
\* write, read) among them; a cover overtakes the reader, clear and seek change the bytes.
PlainOperations == Operations \subseteq {"init", "release", "write", "read", "reset"}

Sizes == 1 .. MaxSize

Chunks == UNION { [1 .. n -> Byte] : n \in 0 .. MaxChunk }

Least(a, b) == IF a < b THEN a ELSE b

Init == /\ allocated = 0 /\ size = 0 /\ rd = 0 /\ wr = 0 /\ lastIsWrite = FALSE
        /\ memory = [i \in 0 .. MaxSize - 1 |-> 0]
        /\ growing = 0 /\ shrinking = 0 /\ fault = FALSE
        /\ given = <<>> /\ got = <<>> /\ result = 0

-----------------------------------------------------------------------------
(* Helpers of the source *)

\* Mutant: without the flag, equal pointers mean that the ring is empty.
get_write_space_NoFlag == IF wr > rd THEN size + rd - wr
                          ELSE IF wr < rd THEN rd - wr ELSE size

get_write_space == IF wr > rd THEN size + rd - wr
                   ELSE IF wr < rd THEN rd - wr
                   ELSE IF lastIsWrite THEN 0 ELSE size

get_read_space == IF wr > rd THEN wr - rd
                  ELSE IF wr < rd THEN size + wr - rd
                  ELSE IF lastIsWrite THEN size ELSE 0

\* The memory after `data' has been copied to `from', in two pieces at the end.
write_to_buffer(from, data) ==
    LET left == size - from
        cell(i) == IF i <= left THEN from + i - 1 ELSE i - left - 1
    IN  [a \in DOMAIN memory |->
            IF \E i \in DOMAIN data : cell(i) = a
            THEN data[CHOOSE i \in DOMAIN data : cell(i) = a]
            ELSE memory[a]]

\* `n' bytes copied from `from', in two pieces at the end.
read_from_buffer(from, n) ==
    LET left == size - from
    IN  [i \in 1 .. n |-> IF i <= left THEN memory[from + i - 1] ELSE memory[i - left - 1]]

\* Mutant: a pointer may stand behind the last byte.
update_pointer_Behind(p, n) == IF p + n > size THEN p + n - size ELSE p + n

update_pointer(p, n) == IF p + n >= size THEN p + n - size ELSE p + n

Usable == allocated # 0 /\ size # 0

Zeroed(n) == [a \in DOMAIN memory |-> IF a < n THEN 0 ELSE memory[a]]

\* memset(start_addr, 0, n); no function but write, read and seek looks for NULL.
Memset(n) == IF allocated = 0 /\ n # 0
             THEN fault' = TRUE /\ memory' = memory
             ELSE fault' = FALSE /\ memory' = Zeroed(n)

Resizing == growing # 0 \/ shrinking # 0

-----------------------------------------------------------------------------
(* Operations *)

\* memset over a new block; the block may be longer than the one released.
ring_buffer_init(n) ==
    /\ allocated' = n /\ size' = n
    /\ rd' = 0 /\ wr' = 0 /\ lastIsWrite' = FALSE
    /\ memory' = Zeroed(n)
    /\ growing' = 0
    /\ result' = 0
    /\ UNCHANGED <<shrinking, fault, given, got>>

Initialise == /\ "init" \in Operations
              /\ allocated = 0 /\ ~ Resizing
              /\ \E n \in Sizes : ring_buffer_init(n)

\* What a release leaves, but for the size.
released == allocated' = 0 /\ rd' = 0 /\ wr' = 0 /\ lastIsWrite' = FALSE

ring_buffer_release == /\ "release" \in Operations
                       /\ released /\ size' = 0
                       /\ result' = 0
                       /\ UNCHANGED <<memory, growing, shrinking, fault, given, got>>

\* A writer that may not cover takes what fits; one that covers takes it all.
\* No caller writes more than the size of the ring.
ring_buffer_write(data, cover) ==
    /\ (IF cover THEN "cover" ELSE "write") \in Operations
    /\ Usable => Len(data) <= size
    /\ LET written == IF ~ Usable THEN 0
                      ELSE IF cover THEN Len(data)
                      ELSE Least(Len(data), get_write_space)
       IN  /\ memory' = IF written = 0 THEN memory
                        ELSE write_to_buffer(wr, SubSeq(data, 1, written))
           /\ wr' = IF Usable THEN update_pointer(wr, written) ELSE wr
           /\ lastIsWrite' = (lastIsWrite \/ written # 0)
           /\ result' = written
    /\ given' = data
    /\ UNCHANGED <<block, fault, rd, got>>

ring_buffer_read(n) ==
    /\ "read" \in Operations
    /\ LET taken == IF Usable THEN Least(n, get_read_space) ELSE 0
       IN  /\ got' = IF taken = 0 THEN <<>> ELSE read_from_buffer(rd, taken)
           /\ rd' = IF Usable THEN update_pointer(rd, taken) ELSE rd
           /\ lastIsWrite' = (lastIsWrite /\ taken = 0)
           /\ result' = taken
    /\ UNCHANGED <<block, fault, wr, memory, given>>

\* Neither branch touches last_is_write.
ring_buffer_seek(n) ==
    /\ "seek" \in Operations /\ Usable /\ n # 0
    /\ IF n > 0
       THEN LET moved == Least(n, get_read_space)
            IN  rd' = update_pointer(rd, moved) /\ wr' = wr /\ result' = moved
       ELSE LET moved == Least(-n, get_write_space)
            IN  wr' = update_pointer(wr, moved) /\ rd' = rd /\ result' = -moved
    /\ UNCHANGED <<block, fault, lastIsWrite, memory, given, got>>

ring_buffer_reset ==
    /\ "reset" \in Operations
    /\ Memset(size)
    /\ rd' = 0 /\ wr' = 0 /\ lastIsWrite' = FALSE
    /\ result' = 0
    /\ UNCHANGED <<block, given, got>>

ring_buffer_clear ==
    /\ "clear" \in Operations
    /\ Memset(size)
    /\ result' = 0
    /\ UNCHANGED <<block, rd, wr, lastIsWrite, given, got>>

\* ring_buffer_reset_size looks at the size before it takes the mutex.
ShrinkCheck(n) ==
    /\ "reset_size" \in Operations /\ ~ Resizing /\ n <= size
    /\ shrinking' = n
    /\ UNCHANGED <<allocated, size, rd, wr, lastIsWrite, memory, growing, fault, given, got, result>>

\* In place, under one mutex: the block may have been released since the check, and
\* last_is_write stays as it is.
ShrinkSize ==
    /\ shrinking # 0
    /\ size' = shrinking
    /\ Memset(shrinking)
    /\ rd' = 0 /\ wr' = 0
    /\ shrinking' = IF fault' THEN shrinking ELSE 0
    /\ result' = 0
    /\ UNCHANGED <<allocated, growing, lastIsWrite, given, got>>

\* Growing: release, then the new size without the mutex, then init; another thread may
\* come in between and find a size without a block.  The release and the store are one
\* step: between them the size is 0 and a call does no more than it does without a ring.
GrowSize(n) ==
    /\ "reset_size" \in Operations /\ ~ Resizing /\ n > size
    /\ released /\ size' = n
    /\ growing' = n
    /\ UNCHANGED <<memory, shrinking, fault, given, got, result>>

GrowSizeInit == growing # 0 /\ ring_buffer_init(growing)

\* Nothing comes after a memset on NULL.
Next == /\ ~ fault
        /\ \/ Initialise
           \/ ring_buffer_release
           \/ \E data \in Chunks, cover \in BOOLEAN : ring_buffer_write(data, cover)
           \/ \E n \in 0 .. MaxChunk : ring_buffer_read(n)
           \/ \E n \in -MaxChunk .. MaxChunk : ring_buffer_seek(n)
           \/ ring_buffer_reset
           \/ ring_buffer_clear
           \/ \E n \in Sizes : ShrinkCheck(n) \/ GrowSize(n)
           \/ ShrinkSize
           \/ GrowSizeInit

Spec == Init /\ [][Next]_vars

-----------------------------------------------------------------------------
(* Properties *)

\* Types of the fields; the pointers stay inside the ring and the ring inside the block
\* that malloc returned, so no memcpy leaves the block: only while ring_buffer_reset_size
\* grows is there a size without a block, and only while it grows or shrinks can a memset
\* find that the block is gone.
TypeOK == /\ allocated \in 0 .. MaxSize /\ size \in 0 .. MaxSize
          /\ size <= allocated \/ (allocated = 0 /\ (size = growing \/ fault))
          /\ IF size = 0 THEN rd = 0 /\ wr = 0 ELSE rd \in 0 .. size - 1 /\ wr \in 0 .. size - 1
          /\ lastIsWrite \in BOOLEAN
          /\ DOMAIN memory = 0 .. MaxSize - 1
          /\ growing \in 0 .. MaxSize /\ shrinking \in 0 .. MaxSize
          /\ fault \in BOOLEAN /\ (fault => allocated = 0 /\ Resizing)
          /\ given \in Seq(Byte) /\ got \in Seq(Byte) /\ result \in -MaxChunk .. MaxChunk

\* The bytes between the read and the write pointer.
Waiting == IF Usable THEN read_from_buffer(rd, get_read_space) ELSE <<>>

\* The ring is a queue of bytes (Queue!Init, Queue!Next): whatever the position
\* of the two pointers and the flag that tells full from empty, bytes come out in
\* the order in which they went in, none twice, none from before, and a write takes
\* all that fit.
Queue == INSTANCE ByteQueue WITH Rooms <- Sizes, Prompt <- TRUE, room <- size, bytes <- Waiting

\* (of each step) A seek keeps last_is_write, so what it does depends on the last call.  Forward
\* it drops the oldest bytes; but one that skips all of them when a write came last makes the
\* ring full of bytes that were there before.  Backward it adds bytes at the end; but one that
\* fills the ring when a read came last empties it.
SeekKeepsFlag ==
    \A n \in 1 .. MaxChunk :
        /\ ring_buffer_seek(n) =>
             IF result' = Len(Waiting) /\ lastIsWrite
             THEN Len(Waiting') = size
             ELSE Waiting' = SubSeq(Waiting, result' + 1, Len(Waiting))
        /\ ring_buffer_seek(-n) =>
             IF -result' = size - Len(Waiting) /\ ~ lastIsWrite
             THEN Waiting' = <<>>
             ELSE IsPrefix(Waiting, Waiting') /\ Len(Waiting') = Len(Waiting) - result'

=============================================================================
