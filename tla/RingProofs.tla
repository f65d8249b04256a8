---------------------------- MODULE RingProofs ----------------------------
(***************************************************************************)
(* The two rings of bytes are queues, for every size and for reads and     *)
(* writes of any length.                                                   *)
(*                                                                         *)
(* The ring without a lock (SpscRing), for every size that is a power of   *)
(* two (only that it divides the number of values of a word is used) and   *)
(* every word.  The positions of its threads are numbers modulo Word, so   *)
(* they are compared by distance: tail is m behind what the producer       *)
(* loaded, head is n ahead of tail and what the consumer loaded is k ahead *)
(* of tail, with k <= n and m + n < Size.                                  *)
(*                                                                         *)
(* The ring under a mutex (Locked!, RingBuffer), for every size.  Its      *)
(* pointers stay below the size, so no modulo is needed: room and bytes    *)
(* make up the ring, a write fills the cells behind the last byte, and a   *)
(* read takes the first ones.                                              *)
(***************************************************************************)
EXTENDS SpscRing, SequenceTheorems, TLAPS

-----------------------------------------------------------------------------
(* The ring without a lock: arithmetic modulo a number *)

\* a quotient and a rest of the right size are the quotient and the rest
LEMMA ModIs ==
  ASSUME NEW n \in Nat \ {0}, NEW x \in Int, NEW q \in Int, NEW r \in 0 .. n - 1,
         x = n * q + r
  PROVE  x % n = r
  <1>1. PICK p \in Int, s \in 0 .. n - 1 : s = x % n /\ x = n * p + s
    <2>1. x \div n \in Int /\ x % n \in 0 .. n - 1 /\ x = n * (x \div n) + (x % n)
      BY SMTT(30)
    <2> QED
      BY <2>1
  <1>2. ASSUME NEW a \in Int, NEW b \in Int, NEW u \in 0 .. n - 1, NEW v \in 0 .. n - 1,
               n * a + u = n * b + v
        PROVE  ~(a < b)
    <2> SUFFICES ASSUME a < b
                 PROVE  FALSE
      OBVIOUS
    <2>1. PICK d \in Nat : b = a + 1 + d
      <3>1. b - (a + 1) \in Nat /\ b = a + 1 + (b - (a + 1))
        OBVIOUS
      <3> QED
        BY <3>1
    <2>2. n * b = n * a + n + n * d /\ n * d \in Nat /\ n * a \in Int
      BY <2>1, SMTT(30)
    <2>3. PICK e \in Int, f \in Nat : e = n * a /\ f = n * d
      BY <2>2
    <2>4. e + u = e + n + f + v
      BY <1>2, <2>2, <2>3
    <2> QED
      BY <2>4
  <1>3. n * q + r = n * p + s /\ n * p + s = n * q + r
    BY <1>1
  <1>4. ~(q < p) /\ ~(p < q)
    BY <1>1, <1>2, <1>3
  <1>5. p = q
    BY <1>4
  <1>6. PICK e \in Int : e = n * q
    OBVIOUS
  <1> QED
    BY <1>1, <1>3, <1>5, <1>6

LEMMA ModOf ==
  ASSUME NEW n \in Nat \ {0}, NEW x \in Int
  PROVE  /\ x % n \in 0 .. n - 1
         /\ \E q \in Int : x = n * q + (x % n)
  <1>1. x \div n \in Int /\ x % n \in 0 .. n - 1 /\ x = n * (x \div n) + (x % n)
    BY SMTT(30)
  <1> QED
    BY <1>1

\* numbers that differ by a multiple have the same rest
LEMMA ModShift ==
  ASSUME NEW n \in Nat \ {0}, NEW x \in Int, NEW y \in Int, NEW q \in Int, x = n * q + y
  PROVE  x % n = y % n
  <1>1. PICK p \in Int : y = n * p + (y % n)
    BY ModOf
  <1>2. y % n \in 0 .. n - 1
    BY ModOf
  <1>3. PICK r \in 0 .. n - 1 : r = y % n
    BY <1>2
  <1>4. x = n * (q + p) + r /\ q + p \in Int
    BY <1>1, <1>3, SMTT(30)
  <1> QED
    BY <1>3, <1>4, ModIs

LEMMA ModPlus ==
  ASSUME NEW n \in Nat \ {0}, NEW x \in Int, NEW y \in Int
  PROVE  ((x % n) + y) % n = (x + y) % n
  <1>1. PICK q \in Int : x = n * q + (x % n)
    BY ModOf
  <1>2. PICK r \in 0 .. n - 1 : r = x % n
    BY ModOf
  <1>3. x + y = n * q + (r + y) /\ r + y \in Int /\ x + y \in Int
    BY <1>1, <1>2
  <1> QED
    BY <1>2, <1>3, ModShift

LEMMA ModSmall ==
  ASSUME NEW n \in Nat \ {0}, NEW x \in 0 .. n - 1
  PROVE  x % n = x
  <1>1. x = n * 0 + x
    OBVIOUS
  <1> QED
    BY <1>1, ModIs

\* numbers less than n apart have different rests
LEMMA ModApart ==
  ASSUME NEW n \in Nat \ {0}, NEW x \in Int, NEW d \in 1 .. n - 1
  PROVE  (x + d) % n # x % n
  <1> SUFFICES ASSUME (x + d) % n = x % n
               PROVE  FALSE
    OBVIOUS
  <1>1. PICK q \in Int : x = n * q + (x % n)
    BY ModOf
  <1>2. PICK p \in Int : x + d = n * p + ((x + d) % n)
    <2>1. x + d \in Int
      OBVIOUS
    <2> QED
      BY <2>1, ModOf
  <1>3. PICK r \in 0 .. n - 1 : r = x % n
    BY ModOf
  <1>4. (x + d) - x = d /\ d \in Int /\ x + d \in Int
    OBVIOUS
  <1>5. d = n * (p - q) + 0 /\ p - q \in Int
    BY <1>1, <1>2, <1>3, SMTT(30)
  <1>6. d % n = 0
    BY <1>5, ModIs
  <1>7. d % n = d
    BY ModSmall
  <1> QED
    BY <1>6, <1>7

-----------------------------------------------------------------------------
(* Positions and cells *)

\* A cell does not change when a position wraps.
LEMMA WordMod ==
  ASSUME RingSizes, NEW x \in Int
  PROVE  (x % Word) % Size = x % Size
  <1>1. Word \in Nat \ {0} /\ Size \in Nat \ {0} /\ Word % Size = 0
    BY DEF RingSizes
  <1>2. PICK e \in Int : Word = Size * e
    <2>0. Word \in Int
      BY <1>1
    <2>1. PICK e \in Int : Word = Size * e + (Word % Size)
      BY <1>1, <2>0, ModOf
    <2> QED
      BY <1>1, <2>1
  <1>3. PICK q \in Int : x = Word * q + (x % Word)
    BY <1>1, ModOf
  <1>4. PICK r \in 0 .. Word - 1 : r = x % Word
    BY <1>1, ModOf
  <1>5. PICK g \in Int : g = e * q
    OBVIOUS
  <1>6. x = Size * g + r /\ r \in Int
    BY <1>1, <1>2, <1>3, <1>4, <1>5, SMTT(30)
  <1>7. x % Size = r % Size
    BY <1>1, <1>6, ModShift
  <1> QED
    BY <1>4, <1>7

LEMMA CellPlus ==
  ASSUME RingSizes, NEW x \in Int, NEW y \in Int
  PROVE  /\ ((x % Word) + y) % Size = (x + y) % Size
         /\ ((x % Size) + y) % Size = (x + y) % Size
         /\ (x + y) % Size \in Cells
  <1>1. Word \in Nat \ {0} /\ Size \in Nat \ {0}
    BY DEF RingSizes
  <1>2. PICK r \in Int : r = x % Word
    BY <1>1, ModOf
  <1>3. (r + y) % Size = ((r % Size) + y) % Size
    BY <1>1, ModPlus
  <1>4. r % Size = x % Size
    BY <1>2, WordMod
  <1>5. ((x % Size) + y) % Size = (x + y) % Size
    BY <1>1, ModPlus
  <1>6. x + y \in Int
    OBVIOUS
  <1> QED
    BY <1>1, <1>2, <1>3, <1>4, <1>5, <1>6, ModOf DEF Cells

\* the distance of two positions, as both threads compute it
LEMMA StoredIs ==
  ASSUME RingSizes, NEW t \in 0 .. Word - 1, NEW n \in 0 .. Size - 1
  PROVE  Stored((t + n) % Word, t) = n
  <1>1. Word \in Nat \ {0} /\ Size \in Nat \ {0}
    BY DEF RingSizes
  <1>2. PICK h \in Int : h = (t + n) % Word
    BY <1>1, ModOf
  <1>3. h % Size = (t + n) % Size
    BY <1>2, WordMod
  <1> DEFINE u == -t
             s == t + n
  <1>4. u \in Int /\ s \in Int /\ s + u = n /\ h + u = h - t
    BY <1>2
  <1> HIDE DEF u
  <1>5. ((h % Size) + u) % Size = (h + u) % Size
    BY <1>4, <1>1, ModPlus
  <1>6. ((s % Size) + u) % Size = (s + u) % Size
    <2> HIDE DEF s
    <2> QED
      BY <1>4, <1>1, ModPlus
  <1>7. n % Size = n
    BY <1>1, ModSmall
  <1> QED
    BY <1>2, <1>3, <1>5, <1>6, <1>4, <1>7 DEF Stored

\* the room that the producer computes from the tail it loaded
LEMMA SpaceIs ==
  ASSUME RingSizes, NEW t \in 0 .. Word - 1, NEW n \in 0 .. Size - 1,
         wtail = t, head = (t + n) % Word
  PROVE  WriteSpace = Size - 1 - n
  <1>1. Word \in Nat \ {0} /\ Size \in Nat \ {0}
    BY DEF RingSizes
  <1>2. head \in Int /\ Stored(head, t) = n
    BY <1>1, StoredIs, ModOf
  <1>3. (head - t) % Size = n /\ head - t \in Int
    BY <1>2 DEF Stored
  <1>4. PICK q \in Int : head - t = Size * q + n
    BY <1>1, <1>3, ModOf
  <1> DEFINE x == wtail + Size - head - 1
  <1>5. x \in Int /\ x = Size * (-q) + (Size - 1 - n) /\ -q \in Int
    <2>1. PICK s \in Int : s = Size * q
      BY <1>1, <1>4
    <2>2. Size * (-q) = -s
      BY <1>1, <2>1
    <2>3. x = (Size - 1) - (head - t)
      BY <1>1, <1>2
    <2> QED
      BY <1>1, <1>2, <1>4, <2>1, <2>2, <2>3
  <1>6. Size - 1 - n \in 0 .. Size - 1
    BY <1>1
  <1> HIDE DEF x
  <1>7. x % Size = Size - 1 - n
    BY <1>1, <1>5, <1>6, ModIs
  <1> QED
    BY <1>7 DEF WriteSpace, x

-----------------------------------------------------------------------------
(* The invariant *)

\* what the producer, and the consumer, has loaded is at most so far behind
Positions ==
  \E n \in 0 .. Size - 1 :
    /\ head = (tail + n) % Word
    /\ wpc = "copy" => \E m \in 0 .. Size - 1 - n : tail = (wtail + m) % Word
    /\ rpc = "copy" => \E k \in 0 .. n : rhead = (tail + k) % Word

\* what has been copied is what stands in the cells
Copied ==
  /\ wpc # "copy" => wdone = 0
  /\ wpc = "copy" => /\ wdone <= Writable
                     /\ \A i \in 1 .. wdone : buffer[(head + i - 1) % Size] = wdata[i]
  /\ rpc = "load_head" => rdata = <<>>
  /\ rpc = "copy" => /\ Len(rdata) <= Readable
                     /\ \A i \in 1 .. Len(rdata) : rdata[i] = buffer[(tail + i - 1) % Size]

IInv == TypeOK /\ Positions /\ Copied

LEMMA SizesAreNumbers ==
  ASSUME RingSizes
  PROVE  Size \in Nat \ {0} /\ Word \in Nat \ {0} /\ MaxChunk \in Nat /\ Size - 1 \in Nat
  BY DEF RingSizes

LEMMA DataTypes ==
  ASSUME RingSizes, TypeOK
  PROVE  wdata \in Seq(Byte) /\ Len(wdata) \in Nat /\ Len(wdata) <= MaxChunk
  <1>1. CASE wdata = <<>>
    BY <1>1, SizesAreNumbers
  <1>2. CASE wdata \in Chunks
    <2>1. PICK n \in 1 .. MaxChunk : wdata \in [1 .. n -> Byte]
      BY <1>2 DEF Chunks
    <2> QED
      BY <2>1, SizesAreNumbers
  <1> QED
    BY <1>1, <1>2 DEF TypeOK

\* The distances are what the threads compute.
LEMMA Views ==
  ASSUME RingSizes, TypeOK, Positions
  PROVE  \E n \in 0 .. Size - 1 :
           /\ head = (tail + n) % Word /\ Stored(head, tail) = n
           /\ wpc = "copy" => \E m \in 0 .. Size - 1 - n :
                /\ tail = (wtail + m) % Word
                /\ WriteSpace + (m + n) = Size - 1 /\ WriteSpace \in Nat
           /\ rpc = "copy" => \E k \in 0 .. n :
                /\ rhead = (tail + k) % Word
                /\ Stored(rhead, tail) = k
  <1>1. /\ head \in 0 .. Word - 1 /\ tail \in 0 .. Word - 1
        /\ wtail \in 0 .. Word - 1 /\ rhead \in 0 .. Word - 1
    BY DEF TypeOK
  <1>2. PICK n \in 0 .. Size - 1 :
          /\ head = (tail + n) % Word
          /\ wpc = "copy" => \E m \in 0 .. Size - 1 - n : tail = (wtail + m) % Word
          /\ rpc = "copy" => \E k \in 0 .. n : rhead = (tail + k) % Word
    BY DEF Positions
  <1>3. Stored(head, tail) = n
    BY <1>1, <1>2, StoredIs
  <1>4. ASSUME NEW m \in 0 .. Size - 1 - n, tail = (wtail + m) % Word
        PROVE  WriteSpace + (m + n) = Size - 1 /\ WriteSpace \in Nat
    <2>1. m + n \in 0 .. Size - 1 /\ wtail + m \in Int /\ n \in Int
      BY <1>1, SizesAreNumbers
    <2>2. (((wtail + m) % Word) + n) % Word = ((wtail + m) + n) % Word
      BY <2>1, SizesAreNumbers, ModPlus
    <2>3. (wtail + m) + n = wtail + (m + n)
      BY <1>1
    <2>4. head = (wtail + (m + n)) % Word
      BY <1>2, <1>4, <2>2, <2>3
    <2>5. WriteSpace = Size - 1 - (m + n)
      BY <1>1, <2>1, <2>4, SpaceIs
    <2> QED
      BY <2>1, <2>5, SizesAreNumbers
  <1>5. ASSUME NEW k \in 0 .. n, rhead = (tail + k) % Word
        PROVE  Stored(rhead, tail) = k
    <2>1. k \in 0 .. Size - 1
      BY SizesAreNumbers
    <2> QED
      BY <1>1, <1>5, <2>1, StoredIs
  <1> QED
    BY <1>2, <1>3, <1>4, <1>5

\* A cell counted from head is one counted from tail.
LEMMA HeadCell ==
  ASSUME RingSizes, TypeOK, NEW n \in Nat, NEW j \in Int, head = (tail + n) % Word
  PROVE  (head + j) % Size = (tail + (n + j)) % Size
  <1>1. tail \in Int /\ tail + n \in Int
    BY SizesAreNumbers DEF TypeOK
  <1>2. (((tail + n) % Word) + j) % Size = ((tail + n) + j) % Size
    BY <1>1, CellPlus
  <1>3. (tail + n) + j = tail + (n + j)
    BY <1>1
  <1> QED
    BY <1>2, <1>3

\* The cell that the producer writes next is none of those from tail on that are
\* stored or written already.
LEMMA NextCellFree ==
  ASSUME RingSizes, TypeOK, Positions, wpc = "copy", wdone < Writable,
         NEW i \in Nat, i < Stored(head, tail) + wdone
  PROVE  (tail + i) % Size # WriteCell /\ WriteCell \in Cells
  <1>1. PICK n \in 0 .. Size - 1 :
          /\ head = (tail + n) % Word /\ Stored(head, tail) = n
          /\ \E m \in 0 .. Size - 1 - n : WriteSpace + (m + n) = Size - 1 /\ WriteSpace \in Nat
    BY Views
  <1>2. PICK m \in 0 .. Size - 1 - n : /\ WriteSpace + (m + n) = Size - 1
                                       /\ WriteSpace \in Nat
    BY <1>1
  <1>3. /\ wdone \in Nat /\ head \in Int /\ tail \in Int /\ Len(wdata) \in Nat
    BY SizesAreNumbers, DataTypes DEF TypeOK
  <1>4. wdone < WriteSpace
    BY <1>2, <1>3 DEF Writable, Least
  <1>5. WriteCell = (head + wdone) % Size /\ WriteCell \in Cells
    BY <1>3, CellPlus DEF WriteCell
  <1>6. WriteCell = (tail + (n + wdone)) % Size
    <2>1. n \in Nat /\ wdone \in Int
      BY <1>3, SizesAreNumbers
    <2> QED
      BY <1>1, <1>5, <2>1, HeadCell
  <1> DEFINE d == (n + wdone) - i
             x == tail + i
  <1>7. d \in 1 .. Size - 1 /\ x \in Int /\ x + d = tail + (n + wdone)
    <2>1. i < n + wdone /\ n + wdone < Size - 1 /\ n \in Nat
      <3>1. PICK w \in Nat, p \in Nat, q \in Nat, z \in Nat :
              w = wdone /\ p = n /\ q = m /\ z = WriteSpace
        BY <1>2, <1>3, SizesAreNumbers
      <3> QED
        BY <1>1, <1>2, <1>4, <3>1, SizesAreNumbers
    <2> QED
      BY <1>3, <2>1, SizesAreNumbers
  <1> HIDE DEF d
  <1>8. (x + d) % Size # x % Size
    <2> HIDE DEF x
    <2> QED
      BY <1>7, SizesAreNumbers, ModApart
  <1> QED
    BY <1>5, <1>6, <1>7, <1>8

-----------------------------------------------------------------------------
(* Each step keeps the invariant *)

LEMMA InitInv ==
  ASSUME RingSizes, Init
  PROVE  IInv
  <1>1. 0 \in Byte /\ Word - 1 \in Nat
    BY DEF RingSizes
  <1>2. TypeOK
    BY <1>1, SizesAreNumbers DEF Init, TypeOK
  <1>3. Positions
    <2>1. (0 + 0) % Word = 0
      BY <1>1, SizesAreNumbers, ModSmall
    <2>2. 0 \in 0 .. Size - 1
      BY SizesAreNumbers
    <2> QED
      BY <2>1, <2>2 DEF Init, Positions
  <1>4. Copied
    BY DEF Init, Copied
  <1> QED
    BY <1>2, <1>3, <1>4 DEF IInv

LEMMA WriteCallInv ==
  ASSUME RingSizes, IInv, WriteCall
  PROVE  IInv'
  <1>1. TypeOK'
    BY SizesAreNumbers DEF IInv, TypeOK, WriteCall, consumerVars
  <1>2. Positions'
    BY DEF IInv, Positions, WriteCall, consumerVars
  <1>3. Copied'
    BY DEF IInv, Copied, WriteCall, consumerVars, Readable
  <1> QED
    BY <1>1, <1>2, <1>3 DEF IInv

LEMMA WriteLoadInv ==
  ASSUME RingSizes, IInv, WriteLoad
  PROVE  IInv'
  <1>0. /\ wpc = "load_tail" /\ wpc' = "copy" /\ wtail' = tail
        /\ UNCHANGED <<buffer, head, wdata, wdone, tail, rpc, rbytes, rhead, rdata>>
    BY DEF WriteLoad, consumerVars
  <1>1. TypeOK'
    BY <1>0 DEF IInv, TypeOK
  <1>2. Positions'
    <2>1. PICK n \in 0 .. Size - 1 :
            /\ head = (tail + n) % Word
            /\ rpc = "copy" => \E k \in 0 .. n : rhead = (tail + k) % Word
      BY DEF IInv, Positions
    <2>2. tail \in 0 .. Word - 1 /\ tail + 0 = tail
      BY SizesAreNumbers DEF IInv, TypeOK
    <2>3. tail = (tail + 0) % Word /\ 0 \in 0 .. Size - 1 - n
      BY <2>2, SizesAreNumbers, ModSmall
    <2> QED
      BY <1>0, <2>1, <2>3 DEF Positions
  <1>3. Copied'
    <2>1. WriteSpace' \in Nat /\ Len(wdata) \in Nat
      <3> DEFINE y == tail + Size - head - 1
      <3>1. y \in Int
        BY SizesAreNumbers DEF IInv, TypeOK
      <3> HIDE DEF y
      <3>2. y % Size \in 0 .. Size - 1
        BY <3>1, SizesAreNumbers, ModOf
      <3> QED
        BY <1>0, <3>2, SizesAreNumbers, DataTypes DEF WriteSpace, y, IInv
    <2>2. wdone = 0 /\ wdone <= Writable'
      BY <1>0, <2>1 DEF IInv, Copied, Writable, Least
    <2> QED
      BY <1>0, <2>2 DEF IInv, Copied, Readable
  <1> QED
    BY <1>1, <1>2, <1>3 DEF IInv

LEMMA WriteCopyInv ==
  ASSUME RingSizes, IInv, WriteCopy
  PROVE  IInv'
  <1>0. /\ wpc = "copy" /\ wpc' = "copy" /\ wdone < Writable /\ wdone' = wdone + 1
        /\ buffer' = [buffer EXCEPT ![WriteCell] = wdata[wdone + 1]]
        /\ UNCHANGED <<head, wdata, wtail, tail, rpc, rbytes, rhead, rdata>>
        /\ TypeOK /\ Positions /\ Copied
    BY DEF WriteCopy, consumerVars, IInv
  <1>1. /\ Len(wdata) \in Nat /\ Len(wdata) <= MaxChunk /\ wdata \in Seq(Byte)
        /\ wdone \in Nat /\ MaxChunk \in Nat
    BY <1>0, SizesAreNumbers, DataTypes DEF TypeOK
  <1>2. WriteSpace \in Int /\ Stored(head, tail) \in Nat
    BY <1>0, Views, SizesAreNumbers
  <1>3. wdone + 1 <= Writable /\ Writable <= Len(wdata) /\ Writable \in Int
    BY <1>0, <1>1, <1>2 DEF Writable, Least
  <1>4. wdata[wdone + 1] \in Byte
    BY <1>1, <1>3
  <1>5. \A i \in Nat : i < Stored(head, tail) + wdone => (tail + i) % Size # WriteCell
    BY <1>0, NextCellFree
  <1>6. TypeOK'
    <2>1. buffer' \in [Cells -> Byte]
      BY <1>0, <1>4 DEF TypeOK
    <2>2. wdone' \in 0 .. MaxChunk
      BY <1>0, <1>1, <1>3
    <2> QED
      BY <1>0, <2>1, <2>2 DEF TypeOK
  <1>7. Positions'
    BY <1>0 DEF Positions
  <1>8. PICK n \in 0 .. Size - 1 :
          /\ head = (tail + n) % Word /\ Stored(head, tail) = n
          /\ rpc = "copy" => \E k \in 0 .. n : Stored(rhead, tail) = k
    BY <1>0, Views
  <1>9. n \in Nat /\ head \in Int /\ tail \in Int
    BY <1>8, SizesAreNumbers, <1>0 DEF TypeOK
  <1>10. ASSUME NEW i \in 1 .. wdone'
         PROVE  buffer'[(head + i - 1) % Size] = wdata[i]
    <2> DEFINE c == (head + i - 1) % Size
    <2>1. head + i - 1 = head + (i - 1) /\ i - 1 \in Int
      BY <1>0, <1>1, <1>9
    <2>2. c = (tail + (n + (i - 1))) % Size /\ c \in Cells
      BY <1>0, <1>8, <1>9, <2>1, HeadCell, CellPlus
    <2>3. CASE i = wdone + 1
      <3>1. ((head % Size) + wdone) % Size = (head + wdone) % Size
        BY <1>1, <1>9, CellPlus
      <3>2. i - 1 = wdone
        BY <1>1, <2>3
      <3>3. c = WriteCell
        BY <2>1, <3>1, <3>2 DEF WriteCell
      <3> QED
        BY <1>0, <2>2, <2>3, <3>3 DEF TypeOK
    <2>4. CASE i \in 1 .. wdone
      <3>1. n + (i - 1) \in Nat /\ n + (i - 1) < n + wdone
        BY <1>1, <1>9, <2>4
      <3>2. c # WriteCell
        BY <1>5, <1>8, <2>2, <3>1
      <3>3. buffer[c] = wdata[i]
        BY <1>0, <2>4 DEF Copied
      <3> HIDE DEF c
      <3>4. buffer'[c] = buffer[c]
        BY <1>0, <2>2, <3>2 DEF TypeOK
      <3> QED
        BY <3>3, <3>4 DEF c
    <2> QED
      BY <1>0, <1>1, <2>3, <2>4
  <1>11. ASSUME rpc = "copy"
         PROVE  /\ Len(rdata) <= Readable
                /\ \A i \in 1 .. Len(rdata) : rdata[i] = buffer'[(tail + i - 1) % Size]
    <2>1. /\ Len(rdata) <= Readable
          /\ \A i \in 1 .. Len(rdata) : rdata[i] = buffer[(tail + i - 1) % Size]
      BY <1>0, <1>11 DEF Copied
    <2>2. Len(rdata) \in Nat /\ Len(rdata) <= n
      BY <1>0, <1>8, <1>9, <1>11, <2>1 DEF Readable, Least, TypeOK
    <2>3. ASSUME NEW i \in 1 .. Len(rdata)
          PROVE  buffer'[(tail + i - 1) % Size] = buffer[(tail + i - 1) % Size]
      <3> DEFINE c == (tail + i - 1) % Size
      <3>1. /\ i - 1 \in Nat /\ i - 1 < n + wdone /\ i - 1 \in Int
            /\ tail + i - 1 = tail + (i - 1)
        BY <1>1, <1>9, <2>2
      <3>2. c # WriteCell
        BY <1>5, <1>8, <3>1
      <3>3. c \in Cells
        BY <1>9, <3>1, CellPlus
      <3> HIDE DEF c
      <3>4. buffer'[c] = buffer[c]
        BY <1>0, <3>2, <3>3 DEF TypeOK
      <3> QED
        BY <3>4 DEF c
    <2> QED
      BY <2>1, <2>3
  <1>12. Writable' = Writable /\ Readable' = Readable
    BY <1>0 DEF Writable, WriteSpace, Readable
  <1>13. Copied'
    BY <1>0, <1>3, <1>10, <1>11, <1>12 DEF Copied
  <1> QED
    BY <1>6, <1>7, <1>13 DEF IInv

\* A complete write moves head past the bytes that were copied.
LEMMA WriteStoreMoves ==
  ASSUME RingSizes, IInv, WriteStore
  PROVE  /\ wdone \in Nat /\ wdone <= Len(wdata) /\ Len(wdata) \in Nat
         /\ \E n \in 0 .. Size - 1 :
              /\ head = (tail + n) % Word /\ Stored(head, tail) = n
              /\ n + wdone \in 0 .. Size - 1
              /\ head' = (tail + (n + wdone)) % Word
              /\ Stored(head', tail') = n + wdone
              /\ rpc = "copy" => \E k \in 0 .. n : rhead = (tail + k) % Word
  <1>0. wpc = "copy" /\ TypeOK /\ Positions /\ wdone = Writable
        /\ head' = (head + wdone) % Word /\ tail' = tail
    BY DEF WriteStore, consumerVars, IInv
  <1>1. PICK n \in 0 .. Size - 1 :
          /\ head = (tail + n) % Word /\ Stored(head, tail) = n
          /\ \E m \in 0 .. Size - 1 - n : WriteSpace + (m + n) = Size - 1 /\ WriteSpace \in Nat
          /\ rpc = "copy" => \E k \in 0 .. n : rhead = (tail + k) % Word
    BY <1>0, Views
  <1>2. PICK m \in 0 .. Size - 1 - n : WriteSpace + (m + n) = Size - 1 /\ WriteSpace \in Nat
    BY <1>1
  <1>3. wdone \in Nat /\ Len(wdata) \in Nat /\ tail \in 0 .. Word - 1
    BY <1>0, DataTypes DEF TypeOK
  <1>4. wdone <= Len(wdata) /\ wdone <= WriteSpace
    BY <1>0, <1>2, <1>3 DEF Writable, Least
  <1>5. n + wdone \in 0 .. Size - 1
    <2>1. PICK w \in Nat, p \in Nat, q \in Nat, z \in Nat :
            w = wdone /\ p = n /\ q = m /\ z = WriteSpace
      BY <1>2, <1>3, SizesAreNumbers
    <2> QED
      BY <1>2, <1>4, <2>1, SizesAreNumbers
  <1>6. head' = (tail + (n + wdone)) % Word
    <2> DEFINE x == tail + n
    <2>1. x \in Int /\ x + wdone = tail + (n + wdone)
      BY <1>3, SizesAreNumbers
    <2>2. head = x % Word
      BY <1>1
    <2> HIDE DEF x
    <2>3. ((x % Word) + wdone) % Word = (x + wdone) % Word
      BY <1>3, <2>1, SizesAreNumbers, ModPlus
    <2> QED
      BY <1>0, <2>1, <2>2, <2>3
  <1>7. Stored(head', tail') = n + wdone
    <2>1. Stored((tail + (n + wdone)) % Word, tail) = n + wdone
      BY <1>3, <1>5, StoredIs
    <2> QED
      BY <1>0, <1>6, <2>1
  <1> QED
    BY <1>1, <1>3, <1>4, <1>5, <1>6, <1>7

LEMMA WriteStoreInv ==
  ASSUME RingSizes, IInv, WriteStore
  PROVE  IInv'
  <1>0. /\ wpc = "copy" /\ wpc' = "idle" /\ wtail' = 0 /\ wdone' = 0
        /\ head' = (head + wdone) % Word
        /\ UNCHANGED <<buffer, wdata, tail, rpc, rbytes, rhead, rdata>>
        /\ TypeOK /\ Positions /\ Copied
    BY DEF WriteStore, consumerVars, IInv
  <1>1. PICK n \in 0 .. Size - 1 :
          /\ n + wdone \in 0 .. Size - 1 /\ wdone \in Nat
          /\ head' = (tail + (n + wdone)) % Word
          /\ rpc = "copy" => \E k \in 0 .. n : rhead = (tail + k) % Word
    BY WriteStoreMoves
  <1>2. TypeOK'
    <2>1. head' \in 0 .. Word - 1
      <3>1. head + wdone \in Int
        BY <1>0, <1>1, SizesAreNumbers DEF TypeOK
      <3> QED
        BY <1>0, <3>1, SizesAreNumbers, ModOf
    <2> QED
      BY <1>0, <2>1, SizesAreNumbers DEF TypeOK
  <1>3. Positions'
    <2>1. rpc = "copy" => \E k \in 0 .. n + wdone : rhead = (tail + k) % Word
      BY <1>1
    <2> QED
      BY <1>0, <1>1, <2>1 DEF Positions
  <1>4. Copied'
    BY <1>0 DEF Copied, Readable
  <1> QED
    BY <1>2, <1>3, <1>4 DEF IInv

LEMMA ReadCallInv ==
  ASSUME RingSizes, IInv, ReadCall
  PROVE  IInv'
  <1>0. /\ rpc = "idle" /\ rpc' = "load_head" /\ rdata' = <<>> /\ rbytes' \in 1 .. MaxChunk
        /\ UNCHANGED <<buffer, tail, rhead, head, wpc, wdata, wtail, wdone>>
        /\ TypeOK /\ Positions /\ Copied
    BY DEF ReadCall, producerVars, IInv
  <1>1. TypeOK'
    BY <1>0, SizesAreNumbers DEF TypeOK
  <1>2. Positions'
    BY <1>0 DEF Positions
  <1>3. Copied'
    BY <1>0 DEF Copied, Writable, WriteSpace
  <1> QED
    BY <1>1, <1>2, <1>3 DEF IInv

LEMMA ReadLoadInv ==
  ASSUME RingSizes, IInv, ReadLoad
  PROVE  IInv'
  <1>0. /\ rpc = "load_head" /\ rpc' = "copy" /\ rhead' = head
        /\ UNCHANGED <<buffer, tail, rbytes, rdata, head, wpc, wdata, wtail, wdone>>
        /\ TypeOK /\ Positions /\ Copied
    BY DEF ReadLoad, producerVars, IInv
  <1>1. TypeOK'
    BY <1>0 DEF TypeOK
  <1>2. Positions'
    <2>1. PICK n \in 0 .. Size - 1 :
            /\ head = (tail + n) % Word
            /\ wpc = "copy" => \E m \in 0 .. Size - 1 - n : tail = (wtail + m) % Word
      BY <1>0 DEF Positions
    <2>2. n \in 0 .. n
      BY SizesAreNumbers
    <2> QED
      BY <1>0, <2>1, <2>2 DEF Positions
  <1>3. Copied'
    <2>1. rdata = <<>> /\ rbytes \in Nat
      BY <1>0, SizesAreNumbers DEF Copied, TypeOK
    <2>2. Stored(head, tail) \in Nat
      BY <1>0, Views, SizesAreNumbers
    <2>3. Readable' = Least(rbytes, Stored(head, tail))
      BY <1>0 DEF Readable
    <2>4. Len(rdata) <= Readable'
      BY <2>1, <2>2, <2>3 DEF Least
    <2>5. Writable' = Writable
      BY <1>0 DEF Writable, WriteSpace
    <2> QED
      BY <1>0, <2>1, <2>4, <2>5 DEF Copied
  <1> QED
    BY <1>1, <1>2, <1>3 DEF IInv

LEMMA ReadCopyInv ==
  ASSUME RingSizes, IInv, ReadCopy
  PROVE  IInv'
  <1>0. /\ rpc = "copy" /\ Len(rdata) < Readable
        /\ rdata' = Append(rdata, buffer[ReadCell])
        /\ UNCHANGED <<buffer, tail, rpc, rbytes, rhead, head, wpc, wdata, wtail, wdone>>
        /\ TypeOK /\ Positions /\ Copied
    BY DEF ReadCopy, producerVars, IInv
  <1>1. PICK n \in 0 .. Size - 1 : \E k \in 0 .. n : Stored(rhead, tail) = k
    BY <1>0, Views
  <1>2. /\ rdata \in Seq(Byte) /\ Len(rdata) \in Nat /\ tail \in Int /\ rbytes \in 0 .. MaxChunk
        /\ MaxChunk \in Nat /\ Stored(rhead, tail) \in Nat
    BY <1>0, <1>1, SizesAreNumbers DEF TypeOK
  <1>3. Len(rdata) + 1 <= Readable /\ Readable <= rbytes /\ Readable \in Nat
    BY <1>0, <1>2 DEF Readable, Least
  <1>4. ReadCell = (tail + Len(rdata)) % Size /\ ReadCell \in Cells
    BY <1>2, CellPlus DEF ReadCell
  <1>5. buffer[ReadCell] \in Byte
    BY <1>0, <1>4 DEF TypeOK
  <1>6. /\ rdata' \in Seq(Byte) /\ Len(rdata') = Len(rdata) + 1
        /\ \A i \in 1 .. Len(rdata) : rdata'[i] = rdata[i]
        /\ rdata'[Len(rdata) + 1] = buffer[ReadCell]
    BY <1>0, <1>2, <1>5
  <1>7. TypeOK'
    <2>1. Len(rdata') <= MaxChunk
      <3>1. PICK r \in Nat, l \in Nat : r = rbytes /\ l = Len(rdata)
        BY <1>2
      <3> QED
        BY <1>2, <1>3, <1>6, <3>1
    <2> QED
      BY <1>0, <1>6, <2>1 DEF TypeOK
  <1>8. Positions'
    BY <1>0 DEF Positions
  <1>9. ASSUME NEW i \in 1 .. Len(rdata')
        PROVE  rdata'[i] = buffer[(tail + i - 1) % Size]
    <2>1. CASE i = Len(rdata) + 1
      <3>1. tail + i - 1 = tail + Len(rdata)
        BY <1>2, <2>1
      <3> QED
        BY <1>4, <1>6, <2>1, <3>1
    <2>2. CASE i \in 1 .. Len(rdata)
      BY <1>0, <1>6, <2>2 DEF Copied
    <2> QED
      BY <1>2, <1>6, <2>1, <2>2
  <1>10. Copied'
    <2>1. Writable' = Writable /\ Readable' = Readable
      BY <1>0 DEF Writable, WriteSpace, Readable
    <2> QED
      BY <1>0, <1>3, <1>6, <1>9, <2>1 DEF Copied
  <1> QED
    BY <1>7, <1>8, <1>10 DEF IInv

\* A complete read moves tail past the bytes that were taken.
LEMMA ReadStoreMoves ==
  ASSUME RingSizes, IInv, ReadStore
  PROVE  \E n \in 0 .. Size - 1, l \in Nat :
           /\ l = Len(rdata) /\ l <= n
           /\ head = (tail + n) % Word /\ Stored(head, tail) = n
           /\ tail' = (tail + l) % Word
           /\ head' = (tail' + (n - l)) % Word /\ Stored(head', tail') = n - l
           /\ wpc = "copy" => \E m \in 0 .. Size - 1 - n : tail = (wtail + m) % Word
  <1>0. rpc = "copy" /\ TypeOK /\ Positions /\ Len(rdata) = Readable
        /\ tail' = (tail + Len(rdata)) % Word /\ head' = head
    BY DEF ReadStore, producerVars, IInv
  <1>1. PICK n \in 0 .. Size - 1 :
          /\ head = (tail + n) % Word /\ Stored(head, tail) = n
          /\ wpc = "copy" => \E m \in 0 .. Size - 1 - n : tail = (wtail + m) % Word
          /\ \E k \in 0 .. n : Stored(rhead, tail) = k
    BY <1>0, Views
  <1>2. PICK l \in Nat : l = Len(rdata)
    BY <1>0 DEF TypeOK
  <1>3. tail \in 0 .. Word - 1 /\ n \in Nat /\ rbytes \in Nat /\ tail \in Int
    BY <1>0, SizesAreNumbers DEF TypeOK
  <1>4. l <= n
    BY <1>0, <1>1, <1>2, <1>3 DEF Readable, Least
  <1>5. PICK d \in Nat : d = n - l /\ n = l + d
    <2>1. n - l \in Nat /\ n = l + (n - l)
      BY <1>2, <1>3, <1>4
    <2> QED
      BY <2>1
  <1>6. tail' = (tail + l) % Word /\ tail' \in 0 .. Word - 1
    <2>1. tail + l \in Int
      BY <1>3
    <2> QED
      BY <1>0, <1>2, <2>1, SizesAreNumbers, ModOf
  <1>7. head' = (tail' + d) % Word
    <2> DEFINE x == tail + l
    <2>1. x \in Int /\ x + d = tail + n /\ d \in Int
      BY <1>3, <1>5
    <2>2. tail' = x % Word
      BY <1>6
    <2> HIDE DEF x
    <2>3. ((x % Word) + d) % Word = (x + d) % Word
      BY <2>1, SizesAreNumbers, ModPlus
    <2> QED
      BY <1>0, <1>1, <2>1, <2>2, <2>3
  <1>8. Stored(head', tail') = d
    <2>1. d \in 0 .. Size - 1
      BY <1>5, SizesAreNumbers
    <2>2. Stored((tail' + d) % Word, tail') = d
      BY <1>6, <2>1, StoredIs
    <2> QED
      BY <1>7, <2>2
  <1> QED
    BY <1>1, <1>2, <1>4, <1>5, <1>6, <1>7, <1>8

LEMMA ReadStoreInv ==
  ASSUME RingSizes, IInv, ReadStore
  PROVE  IInv'
  <1>0. /\ rpc = "copy" /\ rpc' = "idle" /\ rbytes' = 0 /\ rhead' = 0
        /\ tail' = (tail + Len(rdata)) % Word
        /\ UNCHANGED <<buffer, rdata, head, wpc, wdata, wtail, wdone>>
        /\ TypeOK /\ Positions /\ Copied
    BY DEF ReadStore, producerVars, IInv
  <1>1. PICK n \in 0 .. Size - 1, l \in Nat :
          /\ l = Len(rdata) /\ l <= n
          /\ tail' = (tail + l) % Word
          /\ head' = (tail' + (n - l)) % Word
          /\ wpc = "copy" => \E m \in 0 .. Size - 1 - n : tail = (wtail + m) % Word
    BY ReadStoreMoves
  <1>2. TypeOK'
    <2>1. tail + l \in Int
      BY <1>0, SizesAreNumbers DEF TypeOK
    <2>2. tail' \in 0 .. Word - 1
      BY <1>1, <2>1, SizesAreNumbers, ModOf
    <2> QED
      BY <1>0, <2>2, SizesAreNumbers DEF TypeOK
  <1>3. Positions'
    <2>1. n - l \in 0 .. Size - 1
      BY <1>1, SizesAreNumbers
    <2>2. ASSUME wpc = "copy"
          PROVE  \E m \in 0 .. Size - 1 - (n - l) : tail' = (wtail + m) % Word
      <3>1. PICK m \in 0 .. Size - 1 - n : tail = (wtail + m) % Word
        BY <1>1, <2>2
      <3>2. m + l \in 0 .. Size - 1 - (n - l)
        BY <1>1, SizesAreNumbers
      <3> DEFINE x == wtail + m
      <3>3. x \in Int /\ x + l = wtail + (m + l)
        BY <1>0, SizesAreNumbers DEF TypeOK
      <3>4. tail = x % Word
        BY <3>1
      <3> HIDE DEF x
      <3>5. ((x % Word) + l) % Word = (x + l) % Word
        BY <3>3, SizesAreNumbers, ModPlus
      <3>6. tail' = (wtail + (m + l)) % Word
        BY <1>1, <3>3, <3>4, <3>5
      <3> QED
        BY <3>2, <3>6
    <2> QED
      BY <1>0, <1>1, <2>1, <2>2 DEF Positions
  <1>4. Copied'
    BY <1>0 DEF Copied, Writable, WriteSpace
  <1> QED
    BY <1>2, <1>3, <1>4 DEF IInv

LEMMA NextInv ==
  ASSUME RingSizes, IInv, [Next]_vars
  PROVE  IInv'
  <1>1. CASE UNCHANGED vars
    BY <1>1 DEF vars, IInv, TypeOK, Positions, Copied, Writable, WriteSpace, Readable
  <1> QED
    BY <1>1, WriteCallInv, WriteLoadInv, WriteCopyInv, WriteStoreInv,
       ReadCallInv, ReadLoadInv, ReadCopyInv, ReadStoreInv DEF Next, Producer, Consumer

LEMMA Inductive ==
  ASSUME RingSizes
  PROVE  Spec => []IInv
  <1>1. Init => IInv
    BY InitInv
  <1>2. IInv /\ [Next]_vars => IInv'
    BY NextInv
  <1> QED
    BY <1>1, <1>2, PTL DEF Spec

-----------------------------------------------------------------------------
(* The theorems *)

\* The positions and the counts of both threads stay in their range.
THEOREM Spec_TypeOK ==
  ASSUME RingSizes
  PROVE  Spec => []TypeOK
  <1>1. IInv => TypeOK
    BY DEF IInv
  <1> QED
    BY <1>1, Inductive, PTL

\* Whatever a thread knows of the other, and however late, the producer sees no
\* more room and the consumer no more bytes than there are.
THEOREM Spec_ViewsAreSafe ==
  ASSUME RingSizes
  PROVE  Spec => []ViewsAreSafe
  <1>1. ASSUME IInv
        PROVE  ViewsAreSafe
    <2>1. PICK n \in 0 .. Size - 1 :
            /\ Stored(head, tail) = n
            /\ wpc = "copy" => \E m \in 0 .. Size - 1 - n :
                 WriteSpace + (m + n) = Size - 1 /\ WriteSpace \in Nat
            /\ rpc = "copy" => \E k \in 0 .. n : Stored(rhead, tail) = k
      BY <1>1, Views DEF IInv
    <2>2. ASSUME wpc = "copy"
          PROVE  WriteSpace <= ring_buffer_capacity - Stored(head, tail)
      <3>1. PICK m \in 0 .. Size - 1 - n : WriteSpace + (m + n) = Size - 1 /\ WriteSpace \in Nat
        BY <2>1, <2>2
      <3>2. WriteSpace <= Size - 1 - n
        BY <3>1, SizesAreNumbers
      <3> QED
        BY <2>1, <3>2 DEF ring_buffer_capacity
    <2>3. ASSUME rpc = "copy"
          PROVE  Stored(rhead, tail) <= Stored(head, tail)
      BY <2>1, <2>3, SizesAreNumbers
    <2> QED
      BY <2>2, <2>3 DEF ViewsAreSafe
  <1> QED
    BY <1>1, Inductive, PTL

\* The producer never writes a cell that the consumer has still to read.
THEOREM Spec_CopiesDisjoint ==
  ASSUME RingSizes
  PROVE  Spec => []CopiesDisjoint
  <1>1. ASSUME IInv, wpc = "copy", wdone < Writable, rpc = "copy"
        PROVE  WriteCell \notin {(tail + i) % Size : i \in 0 .. Readable - 1}
    <2>1. PICK n \in 0 .. Size - 1 :
            Stored(head, tail) = n /\ \E k \in 0 .. n : Stored(rhead, tail) = k
      BY <1>1, Views DEF IInv
    <2>2. Readable <= n /\ Readable \in Int /\ wdone \in Nat
      BY <1>1, <2>1, SizesAreNumbers DEF Readable, Least, IInv, TypeOK
    <2>3. ASSUME NEW i \in 0 .. Readable - 1
          PROVE  (tail + i) % Size # WriteCell
      <3>1. i \in Nat /\ i < n + wdone
        BY <2>2, SizesAreNumbers
      <3> QED
        BY <1>1, <2>1, <3>1, NextCellFree DEF IInv
    <2> QED
      BY <2>3
  <1>2. IInv => CopiesDisjoint
    BY <1>1 DEF CopiesDisjoint
  <1> QED
    BY <1>2, Inductive, PTL

(* The ring as a queue of bytes *)

\* sequences of the same length with the same elements
LEMMA SameSequence ==
  ASSUME NEW S, NEW a \in Seq(S), NEW b \in Seq(S), Len(a) = Len(b),
         \A i \in 1 .. Len(a) : a[i] = b[i]
  PROVE  a = b
  <1>1. a = [i \in 1 .. Len(a) |-> a[i]] /\ b = [i \in 1 .. Len(b) |-> b[i]]
    OBVIOUS
  <1> QED
    BY <1>1

LEMMA Joined ==
  ASSUME NEW S, NEW a \in Seq(S), NEW b \in Seq(S)
  PROVE  /\ a \o b \in Seq(S) /\ Len(a \o b) = Len(a) + Len(b)
         /\ \A i \in 1 .. Len(a) : (a \o b)[i] = a[i]
         /\ \A i \in 1 .. Len(a) + Len(b) : i > Len(a) => (a \o b)[i] = b[i - Len(a)]
  OBVIOUS

LEMMA FunctionIsSequence ==
  ASSUME NEW S, NEW n \in Nat, NEW f \in [1 .. n -> S]
  PROVE  f \in Seq(S) /\ Len(f) = n
  OBVIOUS

LEMMA WaitingIs ==
  ASSUME RingSizes, TypeOK, NEW n \in Nat, Stored(head, tail) = n
  PROVE  /\ Waiting \in Seq(Byte) /\ Len(Waiting) = n
         /\ \A i \in 1 .. n : Waiting[i] = buffer[(tail + (i - 1)) % Size]
  <1>1. tail \in Int
    BY SizesAreNumbers DEF TypeOK
  <1>2. ASSUME NEW i \in 1 .. n
        PROVE  /\ tail + i - 1 = tail + (i - 1)
               /\ buffer[(tail + (i - 1)) % Size] \in Byte
    <2>1. tail + i - 1 = tail + (i - 1) /\ i - 1 \in Int
      BY <1>1
    <2>2. (tail + (i - 1)) % Size \in Cells
      BY <1>1, <2>1, CellPlus
    <2> QED
      BY <2>1, <2>2 DEF TypeOK
  <1>3. Waiting = [i \in 1 .. n |-> buffer[(tail + (i - 1)) % Size]]
    BY <1>2 DEF Waiting
  <1> QED
    BY <1>2, <1>3

LEMMA QueueInit ==
  ASSUME RingSizes, Init
  PROVE  Queue!Init
  <1>1. TypeOK /\ Positions
    BY InitInv DEF IInv
  <1>2. Stored(0, 0) = 0
    <2>1. 0 % Size = 0 /\ 0 - 0 = 0
      BY SizesAreNumbers, ModSmall
    <2> QED
      BY <2>1 DEF Stored
  <1>3. Len(Waiting) = 0 /\ Waiting \in Seq(Byte)
    BY <1>1, <1>2, WaitingIs DEF Init
  <1> QED
    BY <1>3 DEF Init, Queue!Init, Returned

\* calls, loads and copies do not change what waits
LEMMA QuietSteps ==
  ASSUME RingSizes, IInv,
         WriteCall \/ WriteLoad \/ WriteCopy \/ ReadCall \/ ReadLoad \/ ReadCopy
  PROVE  Queue!Next
  <1>1. Waiting' = Waiting
    <2>1. CASE WriteCopy
      <3>0. /\ wpc = "copy" /\ wdone < Writable /\ wdone \in Nat
            /\ buffer' = [buffer EXCEPT ![WriteCell] = wdata[wdone + 1]]
            /\ UNCHANGED <<head, tail>> /\ TypeOK /\ Positions
        BY <2>1, SizesAreNumbers DEF WriteCopy, consumerVars, IInv, TypeOK
      <3>1. PICK n \in 0 .. Size - 1 : Stored(head, tail) = n
        BY <3>0, Views
      <3>2. ASSUME NEW i \in 1 .. n
            PROVE  buffer'[(tail + i - 1) % Size] = buffer[(tail + i - 1) % Size]
        <4> DEFINE c == (tail + i - 1) % Size
        <4>1. /\ i - 1 \in Nat /\ i - 1 < n + wdone /\ tail + i - 1 = tail + (i - 1)
              /\ i - 1 \in Int /\ tail \in Int
          BY <3>0, SizesAreNumbers DEF TypeOK
        <4>2. c # WriteCell
          BY <3>0, <3>1, <4>1, NextCellFree
        <4>3. c \in Cells
          BY <4>1, CellPlus
        <4> HIDE DEF c
        <4>4. buffer'[c] = buffer[c]
          BY <3>0, <4>2, <4>3 DEF TypeOK
        <4> QED
          BY <4>4 DEF c
      <3>3. Stored(head', tail') = n
        BY <3>0, <3>1
      <3>4. Waiting = [i \in 1 .. n |-> buffer[(tail + i - 1) % Size]]
        BY <3>1 DEF Waiting
      <3>5. Waiting' = [i \in 1 .. n |-> buffer'[(tail + i - 1) % Size]]
        BY <3>0, <3>3 DEF Waiting
      <3> QED
        BY <3>2, <3>4, <3>5
    <2>2. CASE ~WriteCopy
      BY <2>2 DEF WriteCall, WriteLoad, ReadCall, ReadLoad, ReadCopy, consumerVars,
                  producerVars, Waiting
    <2> QED
      BY <2>1, <2>2
  <1>2. CASE ReadCall
    <2>1. Returned' = <<>> /\ wdata' = wdata
      BY <1>2 DEF ReadCall, Returned, producerVars
    <2>2. Queue!Ask
      BY <1>1, <2>1 DEF Queue!Ask
    <2> QED
      BY <2>2 DEF Queue!Next
  <1>3. CASE ~ReadCall
    <2>1. Returned' = Returned
      BY <1>3 DEF WriteCall, WriteLoad, WriteCopy, ReadLoad, ReadCopy, consumerVars, Returned
    <2>2. Queue!Offer
      BY <1>1, <2>1 DEF Queue!Offer
    <2> QED
      BY <2>2 DEF Queue!Next
  <1> QED
    BY <1>2, <1>3

\* A write takes effect when it stores head.
LEMMA WriteStorePuts ==
  ASSUME RingSizes, IInv, WriteStore
  PROVE  Queue!Put
  <1>0. /\ UNCHANGED <<buffer, wdata, tail, rpc, rdata>> /\ wpc = "copy"
        /\ TypeOK /\ Copied /\ TypeOK'
    BY WriteStoreInv DEF WriteStore, consumerVars, IInv
  <1>1. PICK n \in 0 .. Size - 1 :
          /\ head = (tail + n) % Word /\ Stored(head, tail) = n
          /\ n + wdone \in 0 .. Size - 1 /\ Stored(head', tail') = n + wdone
    BY WriteStoreMoves
  <1>2. wdone \in Nat /\ wdone <= Len(wdata) /\ Len(wdata) \in Nat /\ wdata \in Seq(Byte)
    BY <1>0, WriteStoreMoves, DataTypes
  <1>3. n \in Nat /\ n + wdone \in Nat
    BY <1>2, SizesAreNumbers
  <1> DEFINE d == SubSeq(wdata, 1, wdone)
             both == Waiting \o d
  <1>4. d \in Seq(Byte) /\ Len(d) = wdone /\ \A i \in 1 .. wdone : d[i] = wdata[i]
    BY <1>2
  <1>5. /\ Waiting \in Seq(Byte) /\ Len(Waiting) = n
        /\ \A i \in 1 .. n : Waiting[i] = buffer[(tail + (i - 1)) % Size]
    BY <1>0, <1>1, <1>3, WaitingIs
  <1>6. /\ Waiting' \in Seq(Byte) /\ Len(Waiting') = n + wdone
        /\ \A i \in 1 .. n + wdone : Waiting'[i] = buffer[(tail + (i - 1)) % Size]
    <2>1. tail' = tail /\ head' \in 0 .. Word - 1
      BY <1>0 DEF TypeOK
    <2>2. ASSUME NEW i \in 1 .. n + wdone
          PROVE  /\ tail + i - 1 = tail + (i - 1)
                 /\ buffer[(tail + (i - 1)) % Size] \in Byte
      <3>1. tail + i - 1 = tail + (i - 1) /\ i - 1 \in Int /\ tail \in Int
        BY <1>0, <1>3, SizesAreNumbers DEF TypeOK
      <3>2. (tail + (i - 1)) % Size \in Cells
        BY <3>1, CellPlus
      <3> QED
        BY <1>0, <3>1, <3>2 DEF TypeOK
    <2>3. Waiting' = [i \in 1 .. n + wdone |-> buffer[(tail + (i - 1)) % Size]]
      BY <1>0, <1>1, <2>2 DEF Waiting
    <2> QED
      BY <1>3, <2>2, <2>3
  <1>7. /\ both \in Seq(Byte) /\ Len(both) = n + wdone
        /\ \A i \in 1 .. n : both[i] = Waiting[i]
        /\ \A i \in 1 .. n + wdone : i > n => both[i] = d[i - n]
    <2> HIDE DEF d
    <2> QED
      <3>1. /\ both \in Seq(Byte) /\ Len(both) = Len(Waiting) + Len(d)
            /\ \A i \in 1 .. Len(Waiting) : both[i] = Waiting[i]
            /\ \A i \in 1 .. Len(Waiting) + Len(d) :
                 i > Len(Waiting) => both[i] = d[i - Len(Waiting)]
        BY <1>4, <1>5, Joined
      <3> QED
        BY <1>4, <1>5, <3>1
  <1>8. ASSUME NEW i \in 1 .. n + wdone
        PROVE  both[i] = Waiting'[i]
    <2>1. CASE i \in 1 .. n
      BY <1>5, <1>6, <1>7, <2>1
    <2>2. CASE i \notin 1 .. n
      <3>1. PICK j \in 1 .. wdone : i = n + j
        <4>1. i - n \in 1 .. wdone /\ i = n + (i - n)
          BY <1>2, <1>3, <2>2
        <4> QED
          BY <4>1
      <3>2. i > n /\ i - n = j /\ i - 1 = n + (j - 1) /\ j - 1 \in Int /\ head \in Int
        BY <1>0, <1>2, <1>3, <2>2, <3>1, SizesAreNumbers DEF TypeOK
      <3>3. both[i] = wdata[j]
        BY <1>4, <1>7, <3>1, <3>2
      <3>4. head + j - 1 = head + (j - 1)
        BY <3>1, <3>2
      <3>5. wdata[j] = buffer[(head + (j - 1)) % Size]
        BY <1>0, <3>1, <3>4 DEF Copied
      <3>6. (head + (j - 1)) % Size = (tail + (n + (j - 1))) % Size
        BY <1>0, <1>1, <1>3, <3>2, HeadCell
      <3> QED
        BY <1>6, <3>2, <3>3, <3>5, <3>6
    <2> QED
      BY <2>1, <2>2
  <1>9. Waiting' = Waiting \o SubSeq(wdata', 1, wdone)
    <2>1. both = Waiting'
      <3> HIDE DEF both
      <3> QED
        BY <1>6, <1>7, <1>8, SameSequence
    <2> QED
      BY <1>0, <2>1
  <1>10. wdone \in 0 .. Len(wdata')
    BY <1>0, <1>2
  <1>11. Returned' = Returned /\ Len(Waiting') <= ring_buffer_capacity
    BY <1>0, <1>1, <1>6 DEF Returned, ring_buffer_capacity
  <1> QED
    BY <1>9, <1>10, <1>11 DEF Queue!Put, ring_buffer_capacity

\* A read takes effect when it stores tail.
LEMMA ReadStoreTakes ==
  ASSUME RingSizes, IInv, ReadStore
  PROVE  Queue!Take
  <1>0. /\ UNCHANGED <<buffer, wdata, head, rdata>> /\ rpc = "copy" /\ rpc' = "idle"
        /\ TypeOK /\ Copied /\ TypeOK'
    BY ReadStoreInv DEF ReadStore, producerVars, IInv
  <1>1. PICK n \in 0 .. Size - 1, l \in Nat :
          /\ l = Len(rdata) /\ l <= n
          /\ Stored(head, tail) = n /\ tail' = (tail + l) % Word
          /\ Stored(head', tail') = n - l
    BY ReadStoreMoves
  <1>2. PICK r \in Nat : r = n - l /\ n = l + r
    <2>1. n - l \in Nat /\ n = l + (n - l)
      BY <1>1, SizesAreNumbers
    <2> QED
      BY <2>1
  <1>3. n \in Nat /\ tail \in Int /\ rdata \in Seq(Byte)
    BY <1>0, SizesAreNumbers DEF TypeOK
  <1>4. /\ Waiting \in Seq(Byte) /\ Len(Waiting) = n
        /\ \A i \in 1 .. n : Waiting[i] = buffer[(tail + (i - 1)) % Size]
    BY <1>0, <1>1, <1>3, WaitingIs
  <1>5. /\ Waiting' \in Seq(Byte) /\ Len(Waiting') = r
        /\ \A j \in 1 .. r : Waiting'[j] = buffer[(tail + (l + (j - 1))) % Size]
    <2>1. ASSUME NEW j \in 1 .. r
          PROVE  /\ (tail' + j - 1) % Size = (tail + (l + (j - 1))) % Size
                 /\ buffer[(tail + (l + (j - 1))) % Size] \in Byte
      <3> DEFINE x == tail + l
      <3>1. /\ x \in Int /\ j - 1 \in Int /\ x + (j - 1) = tail + (l + (j - 1))
            /\ tail' + j - 1 = tail' + (j - 1)
        BY <1>0, <1>1, <1>3, SizesAreNumbers DEF TypeOK
      <3>2. tail' = x % Word
        BY <1>1
      <3> HIDE DEF x
      <3>3. /\ ((x % Word) + (j - 1)) % Size = (x + (j - 1)) % Size
            /\ (x + (j - 1)) % Size \in Cells
        BY <3>1, CellPlus
      <3> QED
        BY <1>0, <3>1, <3>2, <3>3 DEF TypeOK
    <2>2. Waiting' = [j \in 1 .. r |-> buffer[(tail + (l + (j - 1))) % Size]]
      BY <1>0, <1>1, <1>2, <2>1 DEF Waiting
    <2>3. Waiting' \in [1 .. r -> Byte]
      BY <2>1, <2>2
    <2>4. \A j \in 1 .. r : Waiting'[j] = buffer[(tail + (l + (j - 1))) % Size]
      BY <2>2
    <2> QED
      BY <1>2, <2>3, <2>4, FunctionIsSequence
  <1> DEFINE both == rdata \o Waiting'
  <1>6. /\ both \in Seq(Byte) /\ Len(both) = n
        /\ \A i \in 1 .. l : both[i] = rdata[i]
        /\ \A i \in 1 .. n : i > l => both[i] = Waiting'[i - l]
    <2>1. /\ both \in Seq(Byte) /\ Len(both) = Len(rdata) + Len(Waiting')
          /\ \A i \in 1 .. Len(rdata) : both[i] = rdata[i]
          /\ \A i \in 1 .. Len(rdata) + Len(Waiting') :
               i > Len(rdata) => both[i] = Waiting'[i - Len(rdata)]
      BY <1>3, <1>5, Joined
    <2> QED
      BY <1>1, <1>2, <1>5, <2>1
  <1>7. ASSUME NEW i \in 1 .. n
        PROVE  both[i] = Waiting[i]
    <2>1. CASE i \in 1 .. l
      <3>1. tail + i - 1 = tail + (i - 1)
        BY <1>3, <2>1
      <3>2. rdata[i] = buffer[(tail + (i - 1)) % Size]
        BY <1>0, <1>1, <2>1, <3>1 DEF Copied
      <3> QED
        BY <1>4, <1>6, <2>1, <3>2
    <2>2. CASE i \notin 1 .. l
      <3>1. PICK j \in 1 .. r : i = l + j
        <4>1. i - l \in 1 .. r /\ i = l + (i - l)
          BY <1>1, <1>2, <2>2
        <4> QED
          BY <4>1
      <3>2. i > l /\ i - l = j /\ i - 1 = l + (j - 1)
        BY <1>1, <2>2, <3>1
      <3> QED
        BY <1>4, <1>5, <1>6, <3>1, <3>2
    <2> QED
      BY <2>1, <2>2
  <1>8. Waiting = rdata \o Waiting'
    <2>1. Waiting = both
      <3> HIDE DEF both
      <3> QED
        BY <1>4, <1>6, <1>7, SameSequence
    <2> QED
      BY <2>1
  <1>9. Returned' = rdata /\ wdata' = wdata
    BY <1>0 DEF Returned
  <1> QED
    BY <1>8, <1>9 DEF Queue!Take

\* Without a lock, and for every interleaving of the accesses of its two threads,
\* the ring implements a queue of bytes: none torn, lost, repeated or reordered.
THEOREM Spec_ImplementsQueue ==
  ASSUME RingSizes
  PROVE  Spec => Queue!Spec
  <1>1. Init => Queue!Init
    BY QueueInit
  <1>2. ASSUME IInv, [Next]_vars
        PROVE  [Queue!Next]_(Queue!queueVars)
    <2>1. CASE Next
      BY <1>2, <2>1, QuietSteps, WriteStorePuts, ReadStoreTakes
         DEF Next, Producer, Consumer, Queue!Next
    <2>2. CASE UNCHANGED vars
      BY <2>2 DEF vars, Queue!queueVars, Waiting, Returned
    <2> QED
      BY <1>2, <2>1, <2>2
  <1> QED
    BY <1>1, <1>2, Inductive, PTL DEF Spec, Queue!Spec


-----------------------------------------------------------------------------
(* The ring under a mutex *)

CONSTANTS MaxSize, Operations
VARIABLES allocated, size, rd, wr, lastIsWrite, memory, growing, shrinking, fault, given, got,
          result

Locked == INSTANCE RingBuffer

BlockTypes ==
  /\ allocated \in 0 .. MaxSize /\ size \in 0 .. MaxSize /\ (size = 0 => allocated = 0)
  /\ size <= allocated \/ (allocated = 0 /\ (size = growing \/ fault))
  /\ growing \in 0 .. MaxSize /\ shrinking \in 0 .. MaxSize
  /\ shrinking # 0 => growing = 0 /\ (allocated = 0 \/ shrinking <= size)
  /\ fault \in BOOLEAN /\ (fault => allocated = 0 /\ Locked!Resizing)
Pointers ==
  /\ IF size = 0 THEN rd = 0 /\ wr = 0 ELSE rd \in 0 .. size - 1 /\ wr \in 0 .. size - 1
  /\ lastIsWrite \in BOOLEAN
Contents ==
  /\ memory \in [0 .. MaxSize - 1 -> Byte] /\ given \in Seq(Byte) /\ got \in Seq(Byte)
  /\ result \in -MaxChunk .. MaxChunk
RingInv == BlockTypes /\ Pointers /\ Contents

RingNumbers ==
  /\ size \in Nat /\ allocated \in Nat /\ size <= MaxSize /\ allocated <= MaxSize
  /\ rd \in Nat /\ wr \in Nat /\ lastIsWrite \in BOOLEAN
  /\ IF size = 0 THEN rd = 0 /\ wr = 0 ELSE rd < size /\ wr < size
  /\ Locked!Usable => size > 0 /\ size <= allocated /\ rd < size /\ wr < size

(* The fields as numbers: what every lemma on pointers asks for. *)
LEMMA Numbers == ASSUME Locked!RingParameters, RingInv PROVE RingNumbers
  BY DEF Locked!RingParameters, RingInv, BlockTypes, Pointers, RingNumbers, Locked!Usable

\* Room and bytes make up the ring.
LEMMA Spaces ==
  ASSUME RingNumbers
  PROVE  /\ Locked!get_read_space \in 0 .. size /\ Locked!get_write_space \in 0 .. size
         /\ Locked!get_read_space + Locked!get_write_space = size
  BY DEF RingNumbers, Locked!get_read_space, Locked!get_write_space, Locked!Usable

\* A pointer that moves by at most the size stays below the size.
LEMMA PointerStays ==
  ASSUME RingNumbers, Locked!Usable, NEW p \in 0 .. size - 1, NEW n \in 0 .. size
  PROVE  Locked!update_pointer(p, n) \in 0 .. size - 1
  BY DEF RingNumbers, Locked!update_pointer

\* The cell of the i-th byte from a pointer on.
Cell(from, i) == IF i <= size - from THEN from + i - 1 ELSE i - (size - from) - 1

\* The bytes from a pointer on, once around, lie in cells that differ.
LEMMA CellsDiffer ==
  ASSUME RingNumbers, Locked!Usable, NEW p \in 0 .. size - 1
  PROVE  /\ \A i \in 1 .. size : Cell(p, i) \in 0 .. size - 1
         /\ \A i, j \in 1 .. size : Cell(p, i) = Cell(p, j) => i = j
  BY DEF RingNumbers, Cell

\* A write puts its bytes into the cells from the pointer on and leaves the other cells.
LEMMA Written ==
  ASSUME Locked!RingParameters, RingNumbers, Locked!Usable, Contents, NEW p \in 0 .. size - 1,
         NEW data \in Seq(Byte), Len(data) <= size
  PROVE  /\ Locked!write_to_buffer(p, data) \in [0 .. MaxSize - 1 -> Byte]
         /\ \A j \in 1 .. Len(data) : Locked!write_to_buffer(p, data)[Cell(p, j)] = data[j]
         /\ \A a \in 0 .. MaxSize - 1 : (\A j \in 1 .. Len(data) : Cell(p, j) # a) =>
               Locked!write_to_buffer(p, data)[a] = memory[a]
  <1> DEFINE hit(a) == \E i \in DOMAIN data : Cell(p, i) = a
             at(a) == CHOOSE i \in DOMAIN data : Cell(p, i) = a
             m == [a \in 0 .. MaxSize - 1 |-> IF hit(a) THEN data[at(a)] ELSE memory[a]]
  <1>1. Locked!write_to_buffer(p, data) = m
    <2>1. DOMAIN memory = 0 .. MaxSize - 1
      BY DEF Contents
    <2> QED
      BY <2>1 DEF Locked!write_to_buffer, Cell
  <1>2. DOMAIN data = 1 .. Len(data) /\ Len(data) \in Nat /\ \A i \in DOMAIN data : data[i] \in Byte
    OBVIOUS
  <1>3. \A i \in DOMAIN data : i \in 1 .. size
    BY <1>2 DEF RingNumbers
  <1>4. \A a : hit(a) => at(a) \in DOMAIN data /\ Cell(p, at(a)) = a
    OBVIOUS
  <1> HIDE DEF at
  <1>5. ASSUME NEW a \in 0 .. MaxSize - 1
        PROVE  m[a] \in Byte /\ (~hit(a) => m[a] = memory[a])
    BY <1>2, <1>4 DEF Contents
  <1>6. ASSUME NEW j \in 1 .. Len(data)
        PROVE  m[Cell(p, j)] = data[j]
    <2>1. j \in DOMAIN data /\ Cell(p, j) \in 0 .. MaxSize - 1 /\ hit(Cell(p, j))
      <3>1. j \in DOMAIN data /\ j \in 1 .. size
        BY <1>2, <1>3
      <3>2. Cell(p, j) \in 0 .. size - 1
        BY <3>1, CellsDiffer
      <3>3. Cell(p, j) \in 0 .. MaxSize - 1
        <4> DEFINE a == Cell(p, j)
        <4> HIDE DEF a
        <4> QED
          BY <3>2 DEF RingNumbers, Locked!RingParameters, a
      <3> QED
        BY <3>1, <3>3
    <2>2. at(Cell(p, j)) = j
      BY <1>3, <1>4, <2>1, CellsDiffer
    <2> QED
      BY <2>1, <2>2
  <1> HIDE DEF m
  <1>7. m = [a \in 0 .. MaxSize - 1 |-> m[a]]
    BY DEF m
  <1>8. m \in [0 .. MaxSize - 1 -> Byte]
    BY <1>5, <1>7
  <1> QED
    BY <1>1, <1>2, <1>5, <1>6, <1>8

\* A read copies the cells from the pointer on.
LEMMA ReadBytes ==
  ASSUME Locked!RingParameters, RingNumbers, Locked!Usable, Contents,
         NEW p \in 0 .. size - 1, NEW n \in 0 .. size
  PROVE  /\ Locked!read_from_buffer(p, n) \in Seq(Byte)
         /\ Len(Locked!read_from_buffer(p, n)) = n
         /\ \A i \in 1 .. n : Locked!read_from_buffer(p, n)[i] = memory[Cell(p, i)]
  <1>1. ASSUME NEW i \in 1 .. n
        PROVE  Cell(p, i) \in 0 .. MaxSize - 1 /\ memory[Cell(p, i)] \in Byte
    <2>1. i \in 1 .. size
      BY DEF RingNumbers
    <2>2. Cell(p, i) \in 0 .. MaxSize - 1
      BY <2>1, CellsDiffer DEF RingNumbers, Locked!RingParameters
    <2> QED
      BY <2>2 DEF Contents
  <1>2. Locked!read_from_buffer(p, n) = [i \in 1 .. n |-> memory[Cell(p, i)]]
    BY DEF Locked!read_from_buffer, Cell
  <1>3. n \in Nat
    BY DEF RingNumbers
  <1>4. Locked!read_from_buffer(p, n) \in [1 .. n -> Byte]
    BY <1>1, <1>2
  <1>5. Locked!read_from_buffer(p, n) \in Seq(Byte)
    BY <1>3, <1>4
  <1>6. Len(Locked!read_from_buffer(p, n)) = n
    BY <1>2, <1>3, <1>5
  <1> QED
    BY <1>2, <1>5, <1>6

\* The bytes that wait.
WaitingAre ==
  /\ Locked!Waiting \in Seq(Byte)
  /\ Locked!Usable => /\ Len(Locked!Waiting) = Locked!get_read_space
                      /\ \A i \in 1 .. Locked!get_read_space : Locked!Waiting[i] = memory[Cell(rd, i)]
  /\ ~Locked!Usable => Locked!Waiting = <<>>
  /\ Len(Locked!Waiting) <= size

\* The waiting bytes are the cells from the read pointer on.
LEMMA WaitingBytes ==
  ASSUME Locked!RingParameters, RingInv
  PROVE  WaitingAre
  <1>1. RingNumbers /\ Contents
    BY Numbers DEF RingInv
  <1>2. CASE Locked!Usable
    <2>1. Locked!get_read_space \in 0 .. size /\ rd \in 0 .. size - 1
      BY <1>1, <1>2, Spaces DEF RingNumbers
    <2>2. Locked!Waiting = Locked!read_from_buffer(rd, Locked!get_read_space)
      BY <1>2 DEF Locked!Waiting
    <2>3. Locked!get_read_space <= size
      BY <1>1, <2>1 DEF RingNumbers
    <2> HIDE DEF Locked!get_read_space
    <2> QED
      BY <1>1, <1>2, <2>1, <2>2, <2>3, ReadBytes DEF WaitingAre
  <1>3. CASE ~Locked!Usable
    BY <1>1, <1>3 DEF Locked!Waiting, RingNumbers, WaitingAre
  <1> QED
    BY <1>2, <1>3

\* The same after a step.
LEMMA WaitingThen ==
  ASSUME Locked!RingParameters
  PROVE  RingInv' => WaitingAre'
  <1>1. RingInv => WaitingAre
    BY WaitingBytes
  <1> QED
    BY <1>1, PTL

-----------------------------------------------------------------------------
(* Types *)
LEMMA ChunkIs ==
  ASSUME Locked!RingParameters, NEW data \in Locked!Chunks
  PROVE  data \in Seq(Byte) /\ Len(data) \in 0 .. MaxChunk
  BY DEF Locked!Chunks, Locked!RingParameters

LEMMA ZeroedIs ==
  ASSUME Locked!RingParameters, Contents, NEW n
  PROVE  Locked!Zeroed(n) \in [0 .. MaxSize - 1 -> Byte]
  BY DEF Locked!Zeroed, Contents, Locked!RingParameters

LEMMA EmptyIsSeq == <<>> \in Seq(Byte)
  OBVIOUS

LEMMA InitTypes ==
  ASSUME Locked!RingParameters, RingInv, ~ fault, shrinking = 0,
         NEW n \in 1 .. MaxSize, Locked!ring_buffer_init(n)
  PROVE  RingInv'
  <1>1. Locked!Zeroed(n) \in [0 .. MaxSize - 1 -> Byte]
    BY ZeroedIs DEF RingInv
  <1>2. BlockTypes' /\ Pointers'
    <2>1. /\ allocated' = n /\ size' = n /\ rd' = 0 /\ wr' = 0 /\ growing' = 0
          /\ lastIsWrite' = FALSE /\ shrinking' = shrinking /\ fault' = FALSE
      BY DEF Locked!ring_buffer_init
    <2>2. n # 0 /\ n \in 0 .. MaxSize /\ n <= n /\ 0 \in 0 .. n - 1 /\ 0 \in 0 .. MaxSize
      BY DEF Locked!RingParameters
    <2>3. BlockTypes'
      BY <2>1, <2>2 DEF BlockTypes, Locked!Resizing
    <2>4. Pointers'
      BY <2>1, <2>2 DEF Pointers
    <2> QED
      BY <2>3, <2>4
  <1>3. Contents'
    BY <1>1 DEF Locked!ring_buffer_init, Contents, RingInv, Locked!RingParameters
  <1> QED
    BY <1>2, <1>3 DEF RingInv

\* A write, by what it wrote.
LEMMA WriteDoes ==
  ASSUME Locked!RingParameters, RingInv, NEW data \in Locked!Chunks, NEW cover \in BOOLEAN,
         Locked!ring_buffer_write(data, cover)
  PROVE  /\ result' \in 0 .. Len(data) /\ result' <= size /\ (~Locked!Usable => result' = 0)
         /\ ~cover => result' <= Locked!get_write_space
         /\ ~cover /\ Locked!Usable => result' = Len(data) \/ result' = Locked!get_write_space
         /\ memory' = IF result' = 0 THEN memory ELSE Locked!write_to_buffer(wr, SubSeq(data, 1, result'))
         /\ wr' = IF Locked!Usable THEN Locked!update_pointer(wr, result') ELSE wr
         /\ lastIsWrite' = (lastIsWrite \/ result' # 0)
         /\ given' = data /\ UNCHANGED <<Locked!block, fault, rd, got>>
  <1>1. RingNumbers
    BY Numbers
  <1>2. Len(data) \in Nat /\ (Locked!Usable => Len(data) <= size)
    BY ChunkIs DEF Locked!ring_buffer_write
  <1>3. Locked!get_write_space \in 0 .. size /\ size \in Nat
    BY <1>1, Spaces DEF RingNumbers
  <1> DEFINE written == IF ~ Locked!Usable THEN 0
                        ELSE IF cover THEN Len(data)
                        ELSE Locked!Least(Len(data), Locked!get_write_space)
  <1>4. /\ memory' = IF written = 0 THEN memory ELSE Locked!write_to_buffer(wr, SubSeq(data, 1, written))
        /\ wr' = IF Locked!Usable THEN Locked!update_pointer(wr, written) ELSE wr
        /\ lastIsWrite' = (lastIsWrite \/ written # 0)
        /\ result' = written
        /\ given' = data /\ UNCHANGED <<Locked!block, fault, rd, got>>
    BY DEF Locked!ring_buffer_write
  <1>5. /\ written \in 0 .. Len(data) /\ written <= size /\ (~Locked!Usable => written = 0)
        /\ ~cover => written <= Locked!get_write_space
        /\ ~cover /\ Locked!Usable => written = Len(data) \/ written = Locked!get_write_space
    <2> HIDE DEF Locked!get_write_space
    <2> QED
      BY <1>2, <1>3 DEF Locked!Least
  <1> HIDE DEF written
  <1> QED
    BY <1>4, <1>5

\* The bytes written are those given, up to their number.
LEMMA WrittenBytes ==
  ASSUME Locked!RingParameters, NEW data \in Locked!Chunks, NEW n \in 0 .. Len(data)
  PROVE  /\ SubSeq(data, 1, n) \in Seq(Byte) /\ Len(SubSeq(data, 1, n)) = n
         /\ \A i \in 1 .. n : SubSeq(data, 1, n)[i] = data[i]
  <1>1. data \in Seq(Byte) /\ Len(data) \in Nat
    BY ChunkIs
  <1>2. n \in Int /\ \A i \in 1 .. n : data[i] \in Byte
    BY <1>1
  <1> QED
    BY <1>1, <1>2, SubSeqProperties

LEMMA WriteTypes ==
  ASSUME Locked!RingParameters, RingInv, NEW data \in Locked!Chunks, NEW cover \in BOOLEAN,
         Locked!ring_buffer_write(data, cover)
  PROVE  RingInv'
  <1>1. RingNumbers /\ Contents
    BY Numbers DEF RingInv
  <1>2. /\ result' \in 0 .. Len(data) /\ result' <= size /\ (~Locked!Usable => result' = 0)
        /\ memory' = IF result' = 0 THEN memory ELSE Locked!write_to_buffer(wr, SubSeq(data, 1, result'))
        /\ wr' = IF Locked!Usable THEN Locked!update_pointer(wr, result') ELSE wr
        /\ lastIsWrite' = (lastIsWrite \/ result' # 0)
        /\ given' = data /\ UNCHANGED <<Locked!block, fault, rd, got>>
    BY WriteDoes
  <1>3. data \in Seq(Byte) /\ Len(data) \in 0 .. MaxChunk
    BY ChunkIs
  <1>4. Contents'
    <2>1. memory' \in [0 .. MaxSize - 1 -> Byte]
      <3>1. CASE result' = 0
        BY <1>1, <1>2, <3>1 DEF Contents
      <3>2. CASE result' # 0
        <4>1. Locked!Usable /\ wr \in 0 .. size - 1
          BY <1>1, <1>2, <3>2 DEF RingNumbers
        <4>2. SubSeq(data, 1, result') \in Seq(Byte) /\ Len(SubSeq(data, 1, result')) <= size
          BY <1>2, WrittenBytes
        <4> QED
          BY <1>1, <1>2, <3>2, <4>1, <4>2, Written
      <3> QED
        BY <3>1, <3>2
    <2> QED
      BY <1>1, <1>2, <1>3, <2>1 DEF Contents, Locked!RingParameters
  <1>5. BlockTypes'
    BY <1>2 DEF RingInv, BlockTypes, Locked!block, Locked!Resizing
  <1>6. Pointers'
    <2>1. size' = size /\ rd' = rd
      BY <1>2 DEF Locked!block
    <2>2. Locked!Usable => wr' \in 0 .. size - 1
      <3>1. Locked!Usable => wr \in 0 .. size - 1 /\ result' \in 0 .. size
        BY <1>1, <1>2, <1>3 DEF RingNumbers
      <3> QED
        BY <1>1, <1>2, <3>1, PointerStays
    <2>3. ~Locked!Usable => wr' = wr
      BY <1>2
    <2>4. lastIsWrite' \in BOOLEAN
      BY <1>1, <1>2
    <2> QED
      BY <1>1, <2>1, <2>2, <2>3, <2>4 DEF Pointers, RingNumbers
  <1> QED
    BY <1>4, <1>5, <1>6 DEF RingInv

\* A read, by what it read.
LEMMA ReadDoes ==
  ASSUME Locked!RingParameters, RingInv, NEW n \in 0 .. MaxChunk, Locked!ring_buffer_read(n)
  PROVE  /\ result' \in 0 .. n /\ result' <= Locked!get_read_space /\ (~Locked!Usable => result' = 0)
         /\ got' = IF result' = 0 THEN <<>> ELSE Locked!read_from_buffer(rd, result')
         /\ rd' = IF Locked!Usable THEN Locked!update_pointer(rd, result') ELSE rd
         /\ lastIsWrite' = (lastIsWrite /\ result' = 0)
         /\ UNCHANGED <<Locked!block, fault, wr, memory, given>>
  <1>1. n \in Nat /\ Locked!get_read_space \in Nat
    BY Numbers, Spaces DEF RingNumbers, Locked!RingParameters
  <1> DEFINE taken == IF Locked!Usable THEN Locked!Least(n, Locked!get_read_space) ELSE 0
  <1>2. /\ got' = IF taken = 0 THEN <<>> ELSE Locked!read_from_buffer(rd, taken)
        /\ rd' = IF Locked!Usable THEN Locked!update_pointer(rd, taken) ELSE rd
        /\ lastIsWrite' = (lastIsWrite /\ taken = 0)
        /\ result' = taken
        /\ UNCHANGED <<Locked!block, fault, wr, memory, given>>
    BY DEF Locked!ring_buffer_read
  <1>3. taken \in 0 .. n /\ taken <= Locked!get_read_space /\ (~Locked!Usable => taken = 0)
    <2> HIDE DEF Locked!get_read_space
    <2> QED
      BY <1>1 DEF Locked!Least
  <1> HIDE DEF taken
  <1> QED
    BY <1>2, <1>3

LEMMA ReadTypes ==
  ASSUME Locked!RingParameters, RingInv, NEW n \in 0 .. MaxChunk, Locked!ring_buffer_read(n)
  PROVE  RingInv'
  <1>1. RingNumbers /\ Contents /\ Locked!get_read_space \in 0 .. size
    BY Numbers, Spaces DEF RingInv
  <1>2. /\ result' \in 0 .. n /\ result' <= Locked!get_read_space /\ (~Locked!Usable => result' = 0)
        /\ got' = IF result' = 0 THEN <<>> ELSE Locked!read_from_buffer(rd, result')
        /\ rd' = IF Locked!Usable THEN Locked!update_pointer(rd, result') ELSE rd
        /\ lastIsWrite' = (lastIsWrite /\ result' = 0)
        /\ UNCHANGED <<Locked!block, fault, wr, memory, given>>
    BY ReadDoes
  <1>3. n \in Nat /\ n <= MaxChunk /\ size \in Nat
    BY <1>1 DEF Locked!RingParameters, RingNumbers
  <1>4. result' \in 0 .. size
    <2> HIDE DEF Locked!get_read_space
    <2> QED
      BY <1>1, <1>2, <1>3
  <1>5. Contents'
    <2>1. got' \in Seq(Byte)
      <3>1. CASE result' = 0
        BY <1>2, <3>1, EmptyIsSeq
      <3>2. CASE result' # 0
        <4>1. Locked!Usable /\ rd \in 0 .. size - 1
          BY <1>1, <1>2, <3>2 DEF RingNumbers
        <4> QED
          BY <1>1, <1>2, <1>4, <3>2, <4>1, ReadBytes
      <3> QED
        BY <3>1, <3>2
    <2> QED
      BY <1>1, <1>2, <1>3, <2>1 DEF Contents, Locked!RingParameters
  <1>6. BlockTypes'
    BY <1>2 DEF RingInv, BlockTypes, Locked!block, Locked!Resizing
  <1>7. Pointers'
    <2>1. size' = size /\ wr' = wr
      BY <1>2 DEF Locked!block
    <2>2. Locked!Usable => rd' \in 0 .. size - 1
      <3>1. Locked!Usable => rd \in 0 .. size - 1
        BY <1>1 DEF RingNumbers
      <3> QED
        BY <1>1, <1>2, <1>4, <3>1, PointerStays
    <2>3. ~Locked!Usable => rd' = rd
      BY <1>2
    <2>4. lastIsWrite' \in BOOLEAN
      BY <1>1, <1>2
    <2> QED
      BY <1>1, <2>1, <2>2, <2>3, <2>4 DEF Pointers, RingNumbers
  <1> QED
    BY <1>5, <1>6, <1>7 DEF RingInv

\* A seek, by how far it went.
LEMMA SeekDoes ==
  ASSUME Locked!RingParameters, RingInv, NEW n \in 1 .. MaxChunk
  PROVE  /\ Locked!ring_buffer_seek(n) =>
              /\ Locked!Usable /\ result' \in 0 .. n /\ result' <= Locked!get_read_space
              /\ result' < Locked!get_read_space => result' = n
              /\ rd' = Locked!update_pointer(rd, result') /\ wr' = wr
         /\ Locked!ring_buffer_seek(-n) =>
              /\ Locked!Usable /\ -result' \in 0 .. n /\ -result' <= Locked!get_write_space
              /\ -result' < Locked!get_write_space => -result' = n
              /\ wr' = Locked!update_pointer(wr, -result') /\ rd' = rd
  <1>1. n \in Nat /\ n > 0 /\ ~(-n > 0) /\ -(-n) = n
    BY DEF Locked!RingParameters
  <1>2. /\ Locked!get_read_space \in Nat /\ Locked!get_write_space \in Nat
    BY Numbers, Spaces DEF RingNumbers
  <1>3. ASSUME Locked!ring_buffer_seek(n)
        PROVE  /\ Locked!Usable /\ result' = Locked!Least(n, Locked!get_read_space)
               /\ rd' = Locked!update_pointer(rd, result') /\ wr' = wr
    BY <1>1, <1>3 DEF Locked!ring_buffer_seek
  <1>4. ASSUME Locked!ring_buffer_seek(-n)
        PROVE  /\ Locked!Usable /\ result' = -Locked!Least(n, Locked!get_write_space)
               /\ wr' = Locked!update_pointer(wr, Locked!Least(n, Locked!get_write_space)) /\ rd' = rd
    BY <1>1, <1>4 DEF Locked!ring_buffer_seek
  <1> HIDE DEF Locked!get_read_space, Locked!get_write_space
  <1>5. ASSUME NEW s \in Nat
        PROVE  LET m == Locked!Least(n, s)
               IN  m \in 0 .. n /\ m <= s /\ (m < s => m = n) /\ m \in Nat /\ -(-m) = m
    BY <1>1, <1>5 DEF Locked!Least
  <1> HIDE DEF Locked!Least
  <1> QED
    BY <1>2, <1>3, <1>4, <1>5

LEMMA SeekTypes ==
  ASSUME Locked!RingParameters, RingInv, NEW n \in 1 .. MaxChunk,
         Locked!ring_buffer_seek(n) \/ Locked!ring_buffer_seek(-n)
  PROVE  RingInv'
  <1>1. RingNumbers /\ Locked!get_read_space \in 0 .. size /\ Locked!get_write_space \in 0 .. size
    BY Numbers, Spaces
  <1>2. /\ Locked!Usable /\ UNCHANGED <<Locked!block, fault, lastIsWrite, memory, given, got>>
        /\ \/ /\ result' \in 0 .. n /\ result' <= Locked!get_read_space
              /\ rd' = Locked!update_pointer(rd, result') /\ wr' = wr
           \/ /\ -result' \in 0 .. n /\ -result' <= Locked!get_write_space
              /\ wr' = Locked!update_pointer(wr, -result') /\ rd' = rd
              /\ result' \in Int
    <2>1. CASE Locked!ring_buffer_seek(n)
      <3>1. UNCHANGED <<Locked!block, fault, lastIsWrite, memory, given, got>>
        BY <2>1 DEF Locked!ring_buffer_seek
      <3> QED
        BY <2>1, <3>1, SeekDoes
    <2>2. CASE Locked!ring_buffer_seek(-n)
      <3>1. UNCHANGED <<Locked!block, fault, lastIsWrite, memory, given, got>>
        BY <2>2 DEF Locked!ring_buffer_seek
      <3>2. result' \in Int
        <4>1. Locked!get_write_space \in Nat /\ n \in Nat /\ ~(-n > 0) /\ -(-n) = n
          BY <1>1 DEF RingNumbers, Locked!RingParameters
        <4>2. result' = -Locked!Least(n, Locked!get_write_space)
          BY <2>2, <4>1 DEF Locked!ring_buffer_seek
        <4> HIDE DEF Locked!get_write_space
        <4> QED
          BY <4>1, <4>2 DEF Locked!Least
      <3> QED
        BY <2>2, <3>1, <3>2, SeekDoes
    <2> QED
      BY <2>1, <2>2
  <1>3. /\ size \in Nat /\ rd \in 0 .. size - 1 /\ wr \in 0 .. size - 1 /\ n \in Nat /\ n <= MaxChunk
    BY <1>1, <1>2 DEF RingNumbers, Locked!RingParameters
  <1> HIDE DEF Locked!get_read_space, Locked!get_write_space
  <1>4. /\ rd' \in 0 .. size - 1 /\ wr' \in 0 .. size - 1 /\ result' \in -MaxChunk .. MaxChunk
    <2>1. CASE /\ result' \in 0 .. n /\ result' <= Locked!get_read_space
               /\ rd' = Locked!update_pointer(rd, result') /\ wr' = wr
      <3>1. result' \in 0 .. size /\ result' \in -MaxChunk .. MaxChunk
        BY <1>1, <1>3, <2>1 DEF Locked!RingParameters
      <3> QED
        BY <1>1, <1>2, <1>3, <2>1, <3>1, PointerStays
    <2>2. CASE /\ -result' \in 0 .. n /\ -result' <= Locked!get_write_space
               /\ wr' = Locked!update_pointer(wr, -result') /\ rd' = rd
               /\ result' \in Int
      <3>1. PICK r \in Int : r = result'
        BY <2>2
      <3>2. -r \in 0 .. n /\ -r <= Locked!get_write_space
        BY <2>2, <3>1
      <3>3. -r \in 0 .. size
        BY <1>1, <1>3, <3>2
      <3>4. r \in -MaxChunk .. MaxChunk
        BY <1>3, <3>2 DEF Locked!RingParameters
      <3> QED
        BY <1>1, <1>2, <1>3, <2>2, <3>1, <3>3, <3>4, PointerStays
    <2> QED
      BY <1>2, <2>1, <2>2
  <1>5. BlockTypes'
    BY <1>2 DEF RingInv, BlockTypes, Locked!block, Locked!Resizing
  <1>6. Contents'
    BY <1>2, <1>4 DEF RingInv, Contents
  <1>7. Pointers'
    <2>1. size' = size /\ size # 0 /\ lastIsWrite' = lastIsWrite
      BY <1>2 DEF Locked!block, Locked!Usable
    <2> QED
      BY <1>4, <2>1 DEF Pointers, RingInv
  <1> QED
    BY <1>5, <1>6, <1>7 DEF RingInv

LEMMA InitialTypes ==
  ASSUME Locked!RingParameters, Locked!Init
  PROVE  RingInv
  <1>1. memory \in [0 .. MaxSize - 1 -> Byte]
    BY DEF Locked!Init, Locked!RingParameters
  <1>2. 0 \in 0 .. MaxSize /\ 0 \in 0 .. 0 /\ 0 \in -MaxChunk .. MaxChunk
    BY DEF Locked!RingParameters
  <1> QED
    BY <1>1, <1>2, EmptyIsSeq DEF Locked!Init, RingInv, BlockTypes, Pointers, Contents

\* A memset keeps the bytes of the ring, or finds that the block is gone.
LEMMA MemsetIs ==
  ASSUME Locked!RingParameters, Contents, NEW n, Locked!Memset(n)
  PROVE  /\ memory' \in [0 .. MaxSize - 1 -> Byte] /\ fault' \in BOOLEAN
         /\ fault' <=> allocated = 0 /\ n # 0
  <1>1. CASE allocated = 0 /\ n # 0
    BY <1>1 DEF Locked!Memset, Contents
  <1>2. CASE ~(allocated = 0 /\ n # 0)
    BY <1>2, ZeroedIs DEF Locked!Memset
  <1> QED
    BY <1>1, <1>2

(* The invariant is inductive, whatever functions are called. *)
LEMMA StepTypes ==
  ASSUME Locked!RingParameters, RingInv, [Locked!Next]_Locked!vars
  PROVE  RingInv'
  <1>0. CASE UNCHANGED Locked!vars
    BY <1>0 DEF Locked!vars, RingInv, BlockTypes, Pointers, Contents, Locked!Resizing
  <1> SUFFICES ASSUME Locked!Next
               PROVE  RingInv'
    BY <1>0
  <1>9. ~ fault
    BY DEF Locked!Next
  <1>1. CASE Locked!Initialise
    BY <1>1, <1>9, InitTypes DEF Locked!Initialise, Locked!Sizes, Locked!Resizing
  <1>2. CASE Locked!ring_buffer_release \/ \E n \in Locked!Sizes : Locked!GrowSize(n)
    <2>1. /\ allocated' = 0 /\ rd' = 0 /\ wr' = 0 /\ lastIsWrite' = FALSE
          /\ UNCHANGED <<memory, fault, given, got>>
          /\ growing' \in 0 .. MaxSize /\ shrinking' \in 0 .. MaxSize
          /\ size' = 0 \/ (size' = growing' /\ size' \in 1 .. MaxSize)
          /\ shrinking' # 0 => growing' = 0
          /\ result' \in -MaxChunk .. MaxChunk
      <3>1. CASE Locked!ring_buffer_release
        BY <3>1 DEF Locked!ring_buffer_release, Locked!released, RingInv, BlockTypes, Locked!RingParameters
      <3>2. ASSUME NEW n \in Locked!Sizes, Locked!GrowSize(n)
            PROVE  /\ allocated' = 0 /\ rd' = 0 /\ wr' = 0 /\ lastIsWrite' = FALSE
                   /\ UNCHANGED <<memory, fault, given, got>>
                   /\ growing' \in 0 .. MaxSize /\ shrinking' \in 0 .. MaxSize
                   /\ size' = 0 \/ (size' = growing' /\ size' \in 1 .. MaxSize)
                   /\ shrinking' # 0 => growing' = 0
                   /\ result' \in -MaxChunk .. MaxChunk
        BY <3>2 DEF Locked!GrowSize, Locked!released, RingInv, BlockTypes, Contents, Locked!Sizes,
                    Locked!RingParameters, Locked!Resizing
      <3> QED
        BY <1>2, <3>1, <3>2
    <2>2. 0 \in 0 .. MaxSize /\ 0 <= 0 /\ fault = FALSE
      BY <1>9 DEF Locked!RingParameters, RingInv, BlockTypes
    <2>3. BlockTypes'
      <3>1. CASE size' = 0
        BY <2>1, <2>2, <3>1 DEF BlockTypes, Locked!Resizing
      <3>2. CASE size' # 0
        <4>1. size' = growing' /\ size' \in 0 .. MaxSize
          BY <2>1, <3>2
        <4> QED
          BY <2>1, <2>2, <3>2, <4>1 DEF BlockTypes, Locked!Resizing
      <3> QED
        BY <3>1, <3>2
    <2>4. Pointers'
      <3>1. size' # 0 => 0 \in 0 .. size' - 1
        BY <2>1 DEF Locked!RingParameters
      <3> QED
        BY <2>1, <3>1 DEF Pointers
    <2> QED
      BY <2>1, <2>3, <2>4 DEF RingInv, Contents
  <1>3. CASE \E data \in Locked!Chunks, cover \in BOOLEAN : Locked!ring_buffer_write(data, cover)
    BY <1>3, WriteTypes
  <1>4. CASE \E n \in 0 .. MaxChunk : Locked!ring_buffer_read(n)
    BY <1>4, ReadTypes
  <1>5. CASE \E n \in -MaxChunk .. MaxChunk : Locked!ring_buffer_seek(n)
    <2>1. PICK n \in -MaxChunk .. MaxChunk : Locked!ring_buffer_seek(n)
      BY <1>5
    <2>2. n # 0
      BY <2>1 DEF Locked!ring_buffer_seek
    <2>3. CASE n > 0
      <3>1. n \in 1 .. MaxChunk
        BY <2>3 DEF Locked!RingParameters
      <3> QED
        BY <2>1, <3>1, SeekTypes
    <2>4. CASE ~(n > 0)
      <3>1. -n \in 1 .. MaxChunk /\ n = -(-n)
        BY <2>2, <2>4 DEF Locked!RingParameters
      <3>2. \A k \in 1 .. MaxChunk : n = -k => RingInv'
        BY <2>1, SeekTypes
      <3> QED
        BY <3>1, <3>2
    <2> QED
      BY <2>3, <2>4
  <1>6. CASE Locked!ring_buffer_reset \/ Locked!ring_buffer_clear
    <2>1. /\ Locked!Memset(size) /\ result' = 0 /\ UNCHANGED <<Locked!block, given, got>>
          /\ \/ rd' = 0 /\ wr' = 0 /\ lastIsWrite' = FALSE
             \/ UNCHANGED <<rd, wr, lastIsWrite>>
      BY <1>6 DEF Locked!ring_buffer_reset, Locked!ring_buffer_clear
    <2>2. /\ memory' \in [0 .. MaxSize - 1 -> Byte] /\ 0 \in -MaxChunk .. MaxChunk
          /\ fault' \in BOOLEAN /\ (fault' <=> allocated = 0 /\ size # 0)
      BY <2>1, MemsetIs DEF RingInv, Locked!RingParameters
    <2>3. Pointers'
      <3>1. size' = size /\ (size # 0 => 0 \in 0 .. size - 1)
        BY <2>1 DEF Locked!block, RingInv, BlockTypes
      <3> QED
        BY <2>1, <3>1 DEF RingInv, Pointers
    <2>4. BlockTypes'
      <3>1. /\ UNCHANGED <<allocated, size, growing, shrinking>>
            /\ allocated = 0 /\ size # 0 => size = growing
        BY <1>9, <2>1 DEF RingInv, BlockTypes, Locked!block
      <3> QED
        BY <1>9, <2>2, <3>1 DEF RingInv, BlockTypes, Locked!Resizing
    <2>5. Contents'
      BY <2>1, <2>2 DEF RingInv, Contents
    <2> QED
      BY <2>3, <2>4, <2>5 DEF RingInv
  <1>7. ASSUME NEW n \in Locked!Sizes, Locked!ShrinkCheck(n)
        PROVE  RingInv'
    <2>1. /\ shrinking' = n /\ n \in 0 .. MaxSize /\ n <= size /\ growing = 0
          /\ UNCHANGED <<allocated, size, rd, wr, lastIsWrite, memory, growing, fault, given, got, result>>
      BY <1>7 DEF Locked!ShrinkCheck, Locked!Sizes, Locked!Resizing, Locked!RingParameters
    <2> QED
      BY <1>9, <2>1 DEF RingInv, BlockTypes, Pointers, Contents
  <1>8. CASE Locked!ShrinkSize
    <2>1. /\ shrinking # 0 /\ Locked!Memset(shrinking) /\ result' = 0 /\ UNCHANGED <<given, got>>
          /\ size' = shrinking /\ rd' = 0 /\ wr' = 0
          /\ shrinking' = IF fault' THEN shrinking ELSE 0
          /\ UNCHANGED <<allocated, growing, lastIsWrite>>
      BY <1>8 DEF Locked!ShrinkSize
    <2>2. /\ memory' \in [0 .. MaxSize - 1 -> Byte] /\ 0 \in -MaxChunk .. MaxChunk
          /\ fault' \in BOOLEAN /\ (fault' <=> allocated = 0)
      BY <2>1, MemsetIs DEF RingInv, Locked!RingParameters
    <2>3. shrinking \in 1 .. MaxSize /\ 0 \in 0 .. shrinking - 1 /\ 0 \in 0 .. MaxSize
      BY <2>1 DEF RingInv, BlockTypes, Locked!RingParameters
    <2>4. BlockTypes'
      BY <1>9, <2>1, <2>2, <2>3 DEF RingInv, BlockTypes, Locked!Resizing
    <2>5. Pointers' /\ Contents'
      BY <2>1, <2>2, <2>3 DEF RingInv, Pointers, Contents
    <2> QED
      BY <2>4, <2>5 DEF RingInv
  <1>10. CASE Locked!GrowSizeInit
    <2>1. growing \in 1 .. MaxSize /\ shrinking = 0 /\ Locked!ring_buffer_init(growing)
      BY <1>10 DEF Locked!GrowSizeInit, RingInv, BlockTypes
    <2> QED
      BY <1>9, <2>1, InitTypes
  <1> QED
    BY <1>1, <1>2, <1>3, <1>4, <1>5, <1>6, <1>7, <1>8, <1>10 DEF Locked!Next

(* For every size the pointers stay inside the ring and the ring inside the    *)
(* block that malloc returned, through every function of the source, so no     *)
(* memcpy leaves the block; only in ring_buffer_reset_size, which works outside *)
(* the mutex, is there a size without a block, and can a memset go to NULL.     *)
THEOREM Ring_Types ==
  ASSUME Locked!RingParameters
  PROVE  Locked!Spec => []Locked!TypeOK
  <1>1. Locked!Init => RingInv
    BY InitialTypes
  <1>2. RingInv /\ [Locked!Next]_Locked!vars => RingInv'
    BY StepTypes
  <1>3. RingInv => Locked!TypeOK
    BY DEF RingInv, BlockTypes, Pointers, Contents, Locked!TypeOK
  <1> QED
    BY <1>1, <1>2, <1>3, PTL DEF Locked!Spec

-----------------------------------------------------------------------------
(* The queue *)
\* Where a write puts its bytes, counted from the oldest byte: behind the last one.
LEMMA BehindTheLast ==
  ASSUME RingNumbers, Locked!Usable, NEW j \in 1 .. Locked!get_write_space
  PROVE  Cell(wr, j) = Cell(rd, Locked!get_read_space + j) /\ Locked!get_read_space + j \in 1 .. size
  BY DEF RingNumbers, Locked!Usable, Cell, Locked!get_read_space, Locked!get_write_space

\* Moving the write pointer adds as many bytes as it moves, also round the end.
LEMMA SpaceWritten ==
  ASSUME RingNumbers, Locked!Usable, NEW n \in 0 .. Locked!get_write_space,
         wr' = Locked!update_pointer(wr, n), rd' = rd, size' = size,
         n # 0 => lastIsWrite' = TRUE \/ n < Locked!get_write_space,
         n = 0 => lastIsWrite' = lastIsWrite
  PROVE  Locked!get_read_space' = Locked!get_read_space + n
  BY DEF RingNumbers, Locked!Usable, Locked!get_read_space, Locked!get_write_space, Locked!update_pointer

\* Moving the read pointer takes as many bytes as it moves.
LEMMA SpaceRead ==
  ASSUME RingNumbers, Locked!Usable, NEW n \in 0 .. Locked!get_read_space,
         rd' = Locked!update_pointer(rd, n), wr' = wr, size' = size,
         n # 0 => lastIsWrite' = FALSE \/ n < Locked!get_read_space,
         n = 0 => lastIsWrite' = lastIsWrite
  PROVE  /\ Locked!get_read_space' = Locked!get_read_space - n
         /\ \A i \in 1 .. Locked!get_read_space - n : Cell(rd', i) = Cell(rd, n + i)
  BY DEF RingNumbers, Locked!Usable, Cell, Locked!get_read_space, Locked!get_write_space, Locked!update_pointer

\* Bytes that are added behind the last one, by a write or a seek, leave the others as they are.
LEMMA BytesAdded ==
  ASSUME Locked!RingParameters, RingInv, RingInv', Locked!Usable, NEW n \in 0 .. Locked!get_write_space,
         wr' = Locked!update_pointer(wr, n), rd' = rd, UNCHANGED Locked!block,
         n # 0 => lastIsWrite' = TRUE \/ n < Locked!get_write_space,
         n = 0 => lastIsWrite' = lastIsWrite,
         \A i \in 1 .. Locked!get_read_space : memory'[Cell(rd, i)] = memory[Cell(rd, i)]
  PROVE  /\ Locked!Waiting \in Seq(Byte) /\ Locked!Waiting' \in Seq(Byte)
         /\ Len(Locked!Waiting) = Locked!get_read_space /\ Len(Locked!Waiting') = Len(Locked!Waiting) + n
         /\ Len(Locked!Waiting') <= size
         /\ \A i \in 1 .. Len(Locked!Waiting) : Locked!Waiting'[i] = Locked!Waiting[i]
         /\ \A i \in 1 .. Len(Locked!Waiting') : Locked!Waiting'[i] = memory'[Cell(rd, i)]
  <1>1. RingNumbers /\ WaitingAre /\ WaitingAre' /\ size' = size /\ allocated' = allocated
    BY Numbers, WaitingBytes, WaitingThen DEF Locked!block
  <1>2. Locked!get_read_space' = Locked!get_read_space + n
    BY <1>1, SpaceWritten
  <1>3. Locked!Usable' /\ \A i : Cell(rd, i)' = Cell(rd, i)
    BY <1>1 DEF Locked!Usable, Cell
  <1>4. Locked!get_read_space \in 0 .. size /\ Locked!get_write_space \in Nat /\ n \in Nat /\ size \in Nat
    BY <1>1, Spaces DEF RingNumbers
  <1>5. /\ Locked!Waiting \in Seq(Byte) /\ Len(Locked!Waiting) = Locked!get_read_space
        /\ \A i \in 1 .. Locked!get_read_space : Locked!Waiting[i] = memory[Cell(rd, i)]
    BY <1>1 DEF WaitingAre
  <1>6. /\ Locked!Waiting' \in Seq(Byte) /\ Len(Locked!Waiting') = Locked!get_read_space'
        /\ Len(Locked!Waiting') <= size
        /\ \A i \in 1 .. Locked!get_read_space' : Locked!Waiting'[i] = memory'[Cell(rd, i)']
    BY <1>1, <1>3 DEF WaitingAre
  <1> HIDE DEF Locked!get_read_space, Locked!get_write_space, Locked!Waiting, Cell, Locked!Usable
  <1>7. /\ \A i \in 1 .. Len(Locked!Waiting') : Locked!Waiting'[i] = memory'[Cell(rd, i)]
        /\ \A i \in 1 .. Len(Locked!Waiting) : i \in 1 .. Locked!get_read_space'
    BY <1>2, <1>3, <1>4, <1>5, <1>6
  <1>8. \A i \in 1 .. Len(Locked!Waiting) : Locked!Waiting'[i] = Locked!Waiting[i]
    BY <1>5, <1>6, <1>7
  <1> QED
    BY <1>2, <1>5, <1>6, <1>7, <1>8

\* Bytes that leave, by a read or a seek, are the first ones.
LEMMA BytesTaken ==
  ASSUME Locked!RingParameters, RingInv, RingInv', Locked!Usable, NEW n \in 0 .. Locked!get_read_space,
         rd' = Locked!update_pointer(rd, n), wr' = wr, UNCHANGED <<Locked!block, memory>>,
         n # 0 => lastIsWrite' = FALSE \/ n < Locked!get_read_space,
         n = 0 => lastIsWrite' = lastIsWrite
  PROVE  /\ Locked!Waiting \in Seq(Byte) /\ Locked!Waiting' \in Seq(Byte)
         /\ Len(Locked!Waiting) = Locked!get_read_space /\ Len(Locked!Waiting') = Len(Locked!Waiting) - n
         /\ \A i \in 1 .. Len(Locked!Waiting) - n : Locked!Waiting'[i] = Locked!Waiting[n + i]
         /\ \A i \in 1 .. Len(Locked!Waiting) : Locked!Waiting[i] = memory[Cell(rd, i)]
  <1>1. RingNumbers /\ WaitingAre /\ WaitingAre' /\ size' = size /\ allocated' = allocated
    BY Numbers, WaitingBytes, WaitingThen DEF Locked!block
  <1>2. /\ Locked!get_read_space' = Locked!get_read_space - n
        /\ \A i \in 1 .. Locked!get_read_space - n : Cell(rd', i) = Cell(rd, n + i)
    BY <1>1, SpaceRead
  <1>3. Locked!Usable' /\ memory' = memory /\ \A i : Cell(rd, i)' = Cell(rd', i)
    BY <1>1 DEF Locked!Usable, Cell
  <1>4. Locked!get_read_space \in Nat /\ n \in Nat /\ n <= Locked!get_read_space
    BY <1>1, Spaces DEF RingNumbers
  <1>5. /\ Locked!Waiting \in Seq(Byte) /\ Len(Locked!Waiting) = Locked!get_read_space
        /\ \A i \in 1 .. Locked!get_read_space : Locked!Waiting[i] = memory[Cell(rd, i)]
    BY <1>1 DEF WaitingAre
  <1>6. /\ Locked!Waiting' \in Seq(Byte) /\ Len(Locked!Waiting') = Locked!get_read_space'
        /\ \A i \in 1 .. Locked!get_read_space' : Locked!Waiting'[i] = memory'[Cell(rd, i)']
    BY <1>1, <1>3 DEF WaitingAre
  <1> HIDE DEF Locked!get_read_space, Locked!Waiting, Cell, Locked!Usable
  <1>7. ASSUME NEW i \in 1 .. Len(Locked!Waiting) - n
        PROVE  Locked!Waiting'[i] = Locked!Waiting[n + i]
    <2>1. /\ i \in 1 .. Locked!get_read_space' /\ i \in 1 .. Locked!get_read_space - n
          /\ n + i \in 1 .. Locked!get_read_space
      BY <1>2, <1>4, <1>5
    <2> QED
      BY <1>2, <1>3, <1>5, <1>6, <2>1
  <1> QED
    BY <1>2, <1>5, <1>6, <1>7

\* With the functions that src_pcm and its callers use the ring is never between two sizes.
PlainInv == RingInv /\ ~ Locked!Resizing

(* A write puts what fits behind the last byte. *)
LEMMA WriteIsPut ==
  ASSUME Locked!RingParameters, PlainInv, NEW data \in Locked!Chunks, Locked!ring_buffer_write(data, FALSE)
  PROVE  Locked!Queue!Put
  <1>1. RingInv /\ RingInv' /\ RingNumbers /\ Contents
    BY WriteTypes, Numbers DEF RingInv, PlainInv
  <1>2. /\ result' \in 0 .. Len(data) /\ result' <= size /\ (~Locked!Usable => result' = 0)
        /\ result' <= Locked!get_write_space
        /\ Locked!Usable => result' = Len(data) \/ result' = Locked!get_write_space
        /\ memory' = IF result' = 0 THEN memory ELSE Locked!write_to_buffer(wr, SubSeq(data, 1, result'))
        /\ wr' = IF Locked!Usable THEN Locked!update_pointer(wr, result') ELSE wr
        /\ lastIsWrite' = (lastIsWrite \/ result' # 0)
        /\ given' = data /\ UNCHANGED <<Locked!block, fault, rd, got>>
    BY <1>1, WriteDoes
  <1>0. /\ Len(data) \in Nat /\ Locked!get_write_space + Locked!get_read_space = size
        /\ Locked!get_write_space \in Nat /\ Locked!get_read_space \in Nat
        /\ ~Locked!Usable => size = 0
    <2>1. Locked!get_read_space \in 0 .. size /\ Locked!get_write_space \in 0 .. size
      BY <1>1, Spaces
    <2>2. ~Locked!Usable => size = 0
      BY <1>1 DEF PlainInv, BlockTypes, RingInv, Locked!Resizing, Locked!Usable
    <2>3. Len(data) \in Nat
      BY ChunkIs DEF Locked!RingParameters
    <2>4. size \in Nat /\ Locked!get_read_space + Locked!get_write_space = size
      BY <1>1, Spaces DEF RingNumbers
    <2> HIDE DEF Locked!get_read_space, Locked!get_write_space, Locked!Usable
    <2> QED
      BY <2>1, <2>2, <2>3, <2>4
  <1>3. CASE result' = 0
    <2>1. UNCHANGED <<allocated, size, rd, wr, memory, got>> /\ lastIsWrite' = lastIsWrite
      <3>1. Locked!Usable => Locked!update_pointer(wr, 0) = wr
        BY <1>1 DEF RingNumbers, Locked!update_pointer
      <3> QED
        BY <1>1, <1>2, <1>3, <3>1 DEF Locked!block, RingNumbers
    <2>2. Locked!Waiting' = Locked!Waiting
      BY <2>1 DEF Locked!Waiting, Locked!Usable, Locked!get_read_space, Locked!read_from_buffer
    <2>3. /\ Locked!Waiting \in Seq(Byte) /\ Len(Locked!Waiting) <= size
          /\ Locked!Usable => Len(Locked!Waiting) = Locked!get_read_space
          /\ ~Locked!Usable => Locked!Waiting = <<>>
      BY <1>1, WaitingBytes DEF WaitingAre
    <2>4. Len(Locked!Waiting) = size \/ Len(given') = 0
      <3> HIDE DEF Locked!get_read_space, Locked!get_write_space, Locked!Waiting, Locked!Usable
      <3>1. CASE Locked!Usable
        BY <1>0, <1>2, <1>3, <2>3, <3>1
      <3>2. CASE ~Locked!Usable
        BY <1>0, <2>3, <3>2
      <3> QED
        BY <3>1, <3>2
    <2>5. /\ 0 \in 0 .. Len(given') /\ SubSeq(given', 1, 0) = <<>>
          /\ Locked!Waiting' = Locked!Waiting \o <<>>
      <3> HIDE DEF Locked!Waiting
      <3>1. given' = data /\ data \in Seq(Byte)
        BY <1>2, ChunkIs
      <3>2. Locked!Waiting \o <<>> = Locked!Waiting
        BY <2>3
      <3> QED
        BY <1>0, <2>2, <3>1, <3>2
    <2>6. size' = size /\ Len(Locked!Waiting') = Len(Locked!Waiting) /\ Len(Locked!Waiting) \in Nat
      <3> HIDE DEF Locked!Waiting
      <3> QED
        BY <2>1, <2>2, <2>3
    <2> HIDE DEF Locked!Waiting
    <2> QED
      BY <1>0, <1>2, <2>1, <2>3, <2>4, <2>5, <2>6 DEF Locked!Queue!Put
  <1>4. CASE result' # 0
    <2> DEFINE n == result'
               w == SubSeq(data, 1, n)
    <2>1. /\ Locked!Usable /\ wr \in 0 .. size - 1 /\ rd \in 0 .. size - 1
          /\ n \in 1 .. Locked!get_write_space /\ n \in Nat
      BY <1>1, <1>2, <1>4, Spaces DEF RingNumbers
    <2>2. /\ w \in Seq(Byte) /\ Len(w) = n
          /\ memory' = Locked!write_to_buffer(wr, w) /\ lastIsWrite' = TRUE
      BY <1>2, <1>4, WrittenBytes
    <2> HIDE DEF w, n
    <2>3. /\ \A j \in 1 .. n : memory'[Cell(wr, j)] = w[j]
          /\ \A a \in 0 .. MaxSize - 1 : (\A j \in 1 .. n : Cell(wr, j) # a) => memory'[a] = memory[a]
      <3>1. Len(w) <= size
        BY <1>2, <2>2 DEF n
      <3> QED
        BY <1>1, <2>1, <2>2, <3>1, Written
    <2>4. /\ Locked!get_read_space + Locked!get_write_space = size
          /\ Locked!get_read_space \in Nat /\ Locked!get_write_space \in Nat
          /\ size \in Nat /\ size <= MaxSize
      BY <1>1, Spaces DEF RingNumbers, Locked!RingParameters
    <2>5. \A j \in 1 .. n : /\ Cell(wr, j) = Cell(rd, Locked!get_read_space + j)
                             /\ Locked!get_read_space + j \in 1 .. size
      <3>1. \A j \in 1 .. n : j \in 1 .. Locked!get_write_space
        BY <2>1, <2>4
      <3> QED
        BY <1>1, <2>1, <3>1, BehindTheLast
    <2>6. ASSUME NEW i \in 1 .. Locked!get_read_space
          PROVE  memory'[Cell(rd, i)] = memory[Cell(rd, i)]
      <3>1. i \in 1 .. size /\ \A j \in 1 .. n : i # Locked!get_read_space + j
        BY <2>1, <2>4
      <3>2. Cell(rd, i) \in 0 .. size - 1 /\ \A j \in 1 .. n : Cell(wr, j) # Cell(rd, i)
        BY <1>1, <2>1, <2>5, <3>1, CellsDiffer
      <3>3. Cell(rd, i) \in 0 .. MaxSize - 1
        <4> DEFINE a == Cell(rd, i)
        <4> HIDE DEF a
        <4> QED
          BY <2>4, <3>2 DEF a, Locked!RingParameters
      <3> QED
        BY <2>3, <3>2, <3>3
    <2>7. /\ Locked!Waiting \in Seq(Byte) /\ Locked!Waiting' \in Seq(Byte)
          /\ Len(Locked!Waiting) = Locked!get_read_space /\ Len(Locked!Waiting') = Len(Locked!Waiting) + n
          /\ Len(Locked!Waiting') <= size
          /\ \A i \in 1 .. Len(Locked!Waiting) : Locked!Waiting'[i] = Locked!Waiting[i]
          /\ \A i \in 1 .. Len(Locked!Waiting') : Locked!Waiting'[i] = memory'[Cell(rd, i)]
      <3>1. /\ n \in 0 .. Locked!get_write_space /\ wr' = Locked!update_pointer(wr, n)
            /\ rd' = rd /\ UNCHANGED Locked!block
        BY <1>2, <2>1, <2>4 DEF n
      <3>2. n # 0 => lastIsWrite' = TRUE \/ n < Locked!get_write_space
        BY <2>2
      <3>3. n = 0 => lastIsWrite' = lastIsWrite
        BY <2>1
      <3> HIDE DEF Locked!get_read_space, Locked!get_write_space, Locked!Waiting, Cell, Locked!Usable
      <3> QED
        BY <1>1, <2>1, <2>6, <3>1, <3>2, <3>3, BytesAdded
    <2>8. Locked!Waiting' = Locked!Waiting \o w
      <3> HIDE DEF Locked!get_read_space, Locked!Waiting, Cell, Locked!get_write_space
      <3>1. /\ Locked!Waiting \o w \in Seq(Byte) /\ Len(Locked!Waiting \o w) = Len(Locked!Waiting) + Len(w)
            /\ \A i \in 1 .. Len(Locked!Waiting) + Len(w) : (Locked!Waiting \o w)[i] =
                  IF i <= Len(Locked!Waiting) THEN Locked!Waiting[i] ELSE w[i - Len(Locked!Waiting)]
        BY <2>2, <2>7, ConcatProperties
      <3>2. ASSUME NEW i \in 1 .. Len(Locked!Waiting')
            PROVE  Locked!Waiting'[i] = (Locked!Waiting \o w)[i]
        <4>1. CASE i <= Len(Locked!Waiting)
          <5>1. i \in 1 .. Len(Locked!Waiting) /\ i \in 1 .. Len(Locked!Waiting) + Len(w)
            BY <2>2, <2>4, <2>7, <4>1
          <5> QED
            BY <2>7, <3>1, <4>1, <5>1
        <4>2. CASE ~(i <= Len(Locked!Waiting))
          <5>1. PICK j \in 1 .. n : i = Locked!get_read_space + j
            <6>1. i - Locked!get_read_space \in 1 .. n /\ i = Locked!get_read_space + (i - Locked!get_read_space)
              BY <2>1, <2>4, <2>7, <4>2
            <6> QED
              BY <6>1
          <5>2. Locked!Waiting'[i] = w[j]
            BY <2>3, <2>5, <2>7, <5>1
          <5>3. i \in 1 .. Len(Locked!Waiting) + Len(w) /\ i - Len(Locked!Waiting) = j
            BY <2>1, <2>2, <2>4, <2>7, <5>1
          <5> QED
            BY <3>1, <4>2, <5>2, <5>3
        <4> QED
          BY <4>1, <4>2
      <3> QED
        BY <2>2, <2>7, <3>1, <3>2, SeqEqual
    <2>9. n \in 0 .. Len(given') /\ w = SubSeq(given', 1, n)
      BY <1>2 DEF n, w
    <2>10. Len(Locked!Waiting') = size \/ Len(Locked!Waiting') = Len(Locked!Waiting) + Len(given')
      <3>1. n = Len(given') \/ n = Locked!get_write_space
        BY <1>2, <2>1 DEF n
      <3> HIDE DEF Locked!get_read_space, Locked!get_write_space, Locked!Waiting
      <3> QED
        BY <1>0, <2>7, <3>1
    <2> HIDE DEF Locked!Waiting
    <2> QED
      BY <1>2, <2>7, <2>8, <2>9, <2>10 DEF Locked!Queue!Put, Locked!block
  <1> QED
    BY <1>3, <1>4

(* A read takes the first bytes. *)
LEMMA ReadIsTake ==
  ASSUME Locked!RingParameters, RingInv, NEW n \in 0 .. MaxChunk, Locked!ring_buffer_read(n)
  PROVE  Locked!Queue!Ask \/ Locked!Queue!Take
  <1>1. RingInv' /\ RingNumbers /\ Contents
    BY ReadTypes, Numbers DEF RingInv
  <1>2. /\ result' \in 0 .. n /\ result' <= Locked!get_read_space /\ (~Locked!Usable => result' = 0)
        /\ got' = IF result' = 0 THEN <<>> ELSE Locked!read_from_buffer(rd, result')
        /\ rd' = IF Locked!Usable THEN Locked!update_pointer(rd, result') ELSE rd
        /\ lastIsWrite' = (lastIsWrite /\ result' = 0)
        /\ UNCHANGED <<Locked!block, fault, wr, memory, given>>
    BY ReadDoes
  <1>3. CASE result' = 0
    <2>1. UNCHANGED <<allocated, size, rd, wr, memory, given>> /\ lastIsWrite' = lastIsWrite /\ got' = <<>>
      <3>1. Locked!Usable => Locked!update_pointer(rd, 0) = rd
        BY <1>1 DEF RingNumbers, Locked!update_pointer
      <3> QED
        BY <1>1, <1>2, <1>3, <3>1 DEF Locked!block, RingNumbers
    <2>2. Locked!Waiting' = Locked!Waiting
      BY <2>1 DEF Locked!Waiting, Locked!Usable, Locked!get_read_space, Locked!read_from_buffer
    <2> QED
      BY <2>1, <2>2 DEF Locked!Queue!Ask
  <1>4. CASE result' # 0
    <2> DEFINE k == result'
    <2>1. /\ Locked!Usable /\ rd \in 0 .. size - 1
          /\ k \in 1 .. Locked!get_read_space /\ k \in 0 .. size /\ k \in Nat
          /\ Locked!get_read_space \in Nat
      <3>1. Locked!get_read_space \in 0 .. size /\ size \in Nat
        BY <1>1, Spaces DEF RingNumbers
      <3> QED
        BY <1>1, <1>2, <1>4, <3>1 DEF RingNumbers
    <2>2. /\ got' = Locked!read_from_buffer(rd, k) /\ lastIsWrite' = FALSE
          /\ rd' = Locked!update_pointer(rd, k) /\ wr' = wr /\ UNCHANGED <<Locked!block, memory>>
      BY <1>2, <1>4, <2>1
    <2> HIDE DEF k
    <2>3. /\ got' \in Seq(Byte) /\ Len(got') = k /\ \A i \in 1 .. k : got'[i] = memory[Cell(rd, i)]
      BY <1>1, <2>1, <2>2, ReadBytes
    <2>4. /\ Locked!Waiting \in Seq(Byte) /\ Locked!Waiting' \in Seq(Byte)
          /\ Len(Locked!Waiting) = Locked!get_read_space /\ Len(Locked!Waiting') = Len(Locked!Waiting) - k
          /\ \A i \in 1 .. Len(Locked!Waiting) - k : Locked!Waiting'[i] = Locked!Waiting[k + i]
          /\ \A i \in 1 .. Len(Locked!Waiting) : Locked!Waiting[i] = memory[Cell(rd, i)]
      <3>1. k \in 0 .. Locked!get_read_space
        BY <2>1
      <3>2. k # 0 => lastIsWrite' = FALSE \/ k < Locked!get_read_space
        BY <2>2
      <3>3. k = 0 => lastIsWrite' = lastIsWrite
        BY <2>1
      <3> HIDE DEF Locked!get_read_space, Locked!Waiting, Cell, Locked!Usable
      <3> QED
        BY <1>1, <2>1, <2>2, <3>1, <3>2, <3>3, BytesTaken
    <2>5. Locked!Waiting = got' \o Locked!Waiting'
      <3> HIDE DEF Locked!get_read_space, Locked!Waiting, Cell
      <3>1. /\ got' \o Locked!Waiting' \in Seq(Byte)
            /\ Len(got' \o Locked!Waiting') = Len(got') + Len(Locked!Waiting')
            /\ \A i \in 1 .. Len(got') + Len(Locked!Waiting') : (got' \o Locked!Waiting')[i] =
                  IF i <= Len(got') THEN got'[i] ELSE Locked!Waiting'[i - Len(got')]
        BY <2>3, <2>4, ConcatProperties
      <3>2. ASSUME NEW i \in 1 .. Len(Locked!Waiting)
            PROVE  Locked!Waiting[i] = (got' \o Locked!Waiting')[i]
        <4>1. i \in 1 .. Len(got') + Len(Locked!Waiting')
          BY <2>1, <2>3, <2>4
        <4>2. CASE i <= k
          BY <2>1, <2>3, <2>4, <3>1, <4>1, <4>2
        <4>3. CASE ~(i <= k)
          <5>1. PICK j \in 1 .. Len(Locked!Waiting) - k : i = k + j
            <6>1. i - k \in 1 .. Len(Locked!Waiting) - k /\ i = k + (i - k)
              BY <2>1, <2>4, <4>3
            <6> QED
              BY <6>1
          <5>2. i - Len(got') = j
            BY <2>1, <2>3, <5>1
          <5> QED
            BY <2>3, <2>4, <3>1, <4>1, <4>3, <5>1, <5>2
        <4> QED
          BY <4>2, <4>3
      <3>3. Len(Locked!Waiting) = Len(got') + Len(Locked!Waiting')
        BY <2>1, <2>3, <2>4
      <3> QED
        BY <2>4, <3>1, <3>2, <3>3, SeqEqual
    <2> QED
      BY <1>2, <2>5 DEF Locked!Queue!Take, Locked!block
  <1> QED
    BY <1>3, <1>4

LEMMA PlainStep ==
  ASSUME Locked!RingParameters, Locked!PlainOperations, PlainInv, [Locked!Next]_Locked!vars
  PROVE  PlainInv' /\ [Locked!Queue!Next]_Locked!Queue!queueVars
  <1>0. CASE UNCHANGED Locked!vars
    <2>1. UNCHANGED <<allocated, size, rd, wr, lastIsWrite, memory, growing, shrinking, given, got>>
      BY <1>0 DEF Locked!vars
    <2>2. Locked!Waiting' = Locked!Waiting
      BY <2>1 DEF Locked!Waiting, Locked!Usable, Locked!get_read_space, Locked!read_from_buffer
    <2> QED
      BY StepTypes, <2>1, <2>2 DEF PlainInv, Locked!Resizing, Locked!Queue!queueVars
  <1> SUFFICES ASSUME Locked!Next
               PROVE  PlainInv' /\ Locked!Queue!Next
    BY <1>0
  <1>1. RingInv /\ RingInv' /\ growing = 0 /\ shrinking = 0
    BY StepTypes DEF PlainInv, Locked!Resizing
  <1>2. CASE Locked!Initialise
    <2>1. PICK n \in Locked!Sizes : Locked!ring_buffer_init(n)
      BY <1>2 DEF Locked!Initialise
    <2>2. /\ growing' = 0 /\ size' = n /\ rd' = 0 /\ wr' = 0 /\ lastIsWrite' = FALSE
          /\ UNCHANGED <<shrinking, given, got>>
      BY <2>1 DEF Locked!ring_buffer_init
    <2>3. Locked!Waiting' = <<>>
      BY <2>2 DEF Locked!Waiting, Locked!get_read_space, Locked!read_from_buffer
    <2> QED
      BY <1>1, <2>2, <2>3 DEF PlainInv, Locked!Resizing, Locked!Queue!Next, Locked!Queue!Open
  <1>3. CASE Locked!ring_buffer_release
    <2>1. /\ growing' = 0 /\ size' = 0 /\ allocated' = 0 /\ UNCHANGED <<shrinking, given, got>>
      BY <1>1, <1>3 DEF Locked!ring_buffer_release, Locked!released
    <2>2. Locked!Waiting' = <<>>
      BY <2>1 DEF Locked!Waiting, Locked!Usable
    <2> QED
      BY <1>1, <2>1, <2>2 DEF PlainInv, Locked!Resizing, Locked!Queue!Next, Locked!Queue!Release
  <1>4. ASSUME NEW data \in Locked!Chunks, NEW cover \in BOOLEAN, Locked!ring_buffer_write(data, cover)
        PROVE  PlainInv' /\ Locked!Queue!Next
    <2>1. cover = FALSE
      BY <1>4 DEF Locked!ring_buffer_write, Locked!PlainOperations
    <2>2. Locked!Queue!Put
      BY <1>4, <2>1, WriteIsPut
    <2>3. UNCHANGED <<growing, shrinking>>
      BY <1>4 DEF Locked!ring_buffer_write, Locked!block
    <2> QED
      BY <1>1, <2>2, <2>3 DEF PlainInv, Locked!Resizing, Locked!Queue!Next
  <1>5. ASSUME NEW n \in 0 .. MaxChunk, Locked!ring_buffer_read(n)
        PROVE  PlainInv' /\ Locked!Queue!Next
    <2>1. Locked!Queue!Ask \/ Locked!Queue!Take
      BY <1>1, <1>5, ReadIsTake
    <2>2. UNCHANGED <<growing, shrinking>>
      BY <1>5 DEF Locked!ring_buffer_read, Locked!block
    <2> QED
      BY <1>1, <2>1, <2>2 DEF PlainInv, Locked!Resizing, Locked!Queue!Next
  <1>6. CASE Locked!ring_buffer_reset
    <2>1. /\ UNCHANGED <<allocated, size, growing, shrinking, given, got>>
          /\ rd' = 0 /\ wr' = 0 /\ lastIsWrite' = FALSE
      BY <1>6 DEF Locked!ring_buffer_reset, Locked!block
    <2>2. Locked!Waiting' = <<>>
      BY <2>1 DEF Locked!Waiting, Locked!get_read_space, Locked!read_from_buffer
    <2>3. CASE size = 0
      <3> QED
        BY <1>1, <2>1, <2>2, <2>3 DEF PlainInv, Locked!Resizing, Locked!Queue!Next, Locked!Queue!Release
    <2>4. CASE size # 0
      <3>1. size \in Locked!Sizes
        BY <1>1, <2>4 DEF RingInv, BlockTypes, Locked!Sizes, Locked!RingParameters
      <3> QED
        BY <1>1, <2>1, <2>2, <3>1 DEF PlainInv, Locked!Resizing, Locked!Queue!Next, Locked!Queue!Open
    <2> QED
      BY <2>3, <2>4
  <1>7. /\ ~ (\E n \in -MaxChunk .. MaxChunk : Locked!ring_buffer_seek(n)) /\ ~ Locked!ring_buffer_clear
        /\ ~ (\E n \in Locked!Sizes : Locked!ShrinkCheck(n) \/ Locked!GrowSize(n))
        /\ ~ Locked!ShrinkSize /\ ~ Locked!GrowSizeInit
    BY <1>1 DEF Locked!PlainOperations, Locked!ring_buffer_seek, Locked!ring_buffer_clear,
                Locked!ShrinkCheck, Locked!ShrinkSize, Locked!GrowSize, Locked!GrowSizeInit
  <1> QED
    BY <1>2, <1>3, <1>4, <1>5, <1>6, <1>7 DEF Locked!Next

(* For every size, and whatever the lengths of the reads and writes, the ring   *)
(* under the mutex is a queue of bytes for those who initialise, release,       *)
(* write, read and reset it: bytes come out once, in order, also round the end  *)
(* and when equal pointers mean a full ring.                                   *)
THEOREM Ring_ImplementsQueue ==
  ASSUME Locked!RingParameters, Locked!PlainOperations
  PROVE  Locked!Spec => Locked!Queue!Spec
  <1>1. Locked!Init => PlainInv
    BY InitialTypes DEF PlainInv, Locked!Init, Locked!Resizing
  <1>2. Locked!Init => Locked!Queue!Init
    <2> SUFFICES ASSUME Locked!Init
                 PROVE  Locked!Queue!Init
      OBVIOUS
    <2>1. Locked!Waiting = <<>>
      BY DEF Locked!Waiting, Locked!Usable, Locked!Init
    <2> QED
      BY <2>1 DEF Locked!Init, Locked!Queue!Init
  <1>3. PlainInv /\ [Locked!Next]_Locked!vars => PlainInv' /\ [Locked!Queue!Next]_Locked!Queue!queueVars
    BY PlainStep
  <1> QED
    BY <1>1, <1>2, <1>3, PTL DEF Locked!Spec, Locked!Queue!Spec

\* A seek forward drops bytes from the front, unless it skips all after a write.
LEMMA ForwardDrops ==
  ASSUME Locked!RingParameters, RingInv, NEW n \in 1 .. MaxChunk, Locked!ring_buffer_seek(n),
         ~ (result' = Len(Locked!Waiting) /\ lastIsWrite)
  PROVE  Locked!Waiting' = SubSeq(Locked!Waiting, result' + 1, Len(Locked!Waiting))
  <1>1. RingInv' /\ RingNumbers /\ Locked!get_read_space \in Nat
    BY SeekTypes, Numbers, Spaces DEF RingNumbers
  <1>2. /\ Locked!Usable /\ result' \in Nat /\ result' <= Locked!get_read_space
        /\ rd' = Locked!update_pointer(rd, result') /\ wr' = wr
        /\ UNCHANGED <<Locked!block, memory>> /\ lastIsWrite' = lastIsWrite
    BY SeekDoes DEF Locked!ring_buffer_seek
  <1> DEFINE k == result'
  <1>3. k \in 0 .. Locked!get_read_space /\ k \in Nat /\ k <= Locked!get_read_space
    BY <1>1, <1>2 DEF Locked!RingParameters
  <1>8. lastIsWrite' = FALSE \/ k < Locked!get_read_space
    <2>1. Len(Locked!Waiting) = Locked!get_read_space /\ lastIsWrite \in BOOLEAN
      BY <1>1, <1>2, WaitingBytes DEF WaitingAre, RingNumbers
    <2> HIDE DEF Locked!get_read_space, Locked!Waiting
    <2> QED
      BY <1>1, <1>2, <1>3, <2>1
  <1> HIDE DEF k
  <1> HIDE DEF Locked!get_read_space, Locked!Waiting, Cell, Locked!Usable
  <1>4. /\ Locked!Waiting \in Seq(Byte) /\ Locked!Waiting' \in Seq(Byte)
        /\ Len(Locked!Waiting) = Locked!get_read_space /\ Len(Locked!Waiting') = Len(Locked!Waiting) - k
        /\ \A i \in 1 .. Len(Locked!Waiting) - k : Locked!Waiting'[i] = Locked!Waiting[k + i]
    <2>1. /\ rd' = Locked!update_pointer(rd, k) /\ wr' = wr /\ UNCHANGED <<Locked!block, memory>>
          /\ k # 0 => lastIsWrite' = FALSE \/ k < Locked!get_read_space
          /\ k = 0 => lastIsWrite' = lastIsWrite
      BY <1>2, <1>8 DEF k
    <2> QED
      BY <1>1, <1>2, <1>3, <2>1, BytesTaken
  <1> DEFINE rest == SubSeq(Locked!Waiting, k + 1, Len(Locked!Waiting))
  <1>5. /\ rest \in Seq(Byte)
        /\ Len(rest) = IF k + 1 <= Len(Locked!Waiting) THEN Len(Locked!Waiting) - (k + 1) + 1 ELSE 0
        /\ \A i \in 1 .. Len(Locked!Waiting) - (k + 1) + 1 : rest[i] = Locked!Waiting[(k + 1) + i - 1]
    <2>1. /\ k + 1 \in Int /\ Len(Locked!Waiting) \in Int
          /\ \A i \in k + 1 .. Len(Locked!Waiting) : Locked!Waiting[i] \in Byte
      BY <1>3, <1>4
    <2> QED
      BY <2>1, SubSeqProperties
  <1> HIDE DEF rest
  <1>6. Len(rest) = Len(Locked!Waiting')
    BY <1>1, <1>3, <1>4, <1>5
  <1>7. ASSUME NEW i \in 1 .. Len(Locked!Waiting')
        PROVE  Locked!Waiting'[i] = rest[i]
    <2>1. /\ i \in 1 .. Len(Locked!Waiting) - k /\ i \in 1 .. Len(Locked!Waiting) - (k + 1) + 1
          /\ (k + 1) + i - 1 = k + i
      BY <1>1, <1>3, <1>4
    <2> QED
      BY <1>4, <1>5, <2>1
  <1> QED
    BY <1>4, <1>5, <1>6, <1>7, SeqEqual DEF rest, k

\* A seek that skips all the bytes after a write makes the ring full.
LEMMA ForwardFills ==
  ASSUME Locked!RingParameters, RingInv, NEW n \in 1 .. MaxChunk, Locked!ring_buffer_seek(n),
         result' = Len(Locked!Waiting), lastIsWrite
  PROVE  Len(Locked!Waiting') = size
  <1>1. RingInv' /\ RingNumbers /\ WaitingAre /\ WaitingAre'
    BY SeekTypes, Numbers, WaitingBytes, WaitingThen
  <1>2. /\ Locked!Usable /\ rd' = Locked!update_pointer(rd, result') /\ wr' = wr
        /\ UNCHANGED <<Locked!block, memory>> /\ lastIsWrite' = lastIsWrite
    BY SeekDoes DEF Locked!ring_buffer_seek
  <1>3. result' = Locked!get_read_space
    BY <1>1, <1>2 DEF WaitingAre
  <1>4. size' = size /\ allocated' = allocated
    BY <1>2 DEF Locked!block
  <1>5. rd' = wr
    BY <1>1, <1>2, <1>3 DEF RingNumbers, Locked!get_read_space, Locked!update_pointer
  <1>6. Locked!get_read_space' = size /\ Locked!Usable'
    BY <1>1, <1>2, <1>4, <1>5 DEF RingNumbers, Locked!get_read_space, Locked!Usable
  <1> QED
    BY <1>1, <1>6 DEF WaitingAre

\* A seek backward adds bytes at the end and leaves the others, unless it fills the ring after
\* a read.
LEMMA BackwardAdds ==
  ASSUME Locked!RingParameters, RingInv, NEW n \in 1 .. MaxChunk, Locked!ring_buffer_seek(-n),
         ~ (-result' = size - Len(Locked!Waiting) /\ ~ lastIsWrite)
  PROVE  Locked!IsPrefix(Locked!Waiting, Locked!Waiting') /\ Len(Locked!Waiting') = Len(Locked!Waiting) - result'
  <1>1. RingInv' /\ RingNumbers /\ Locked!get_read_space \in Nat /\ Locked!get_write_space \in Nat
    BY SeekTypes, Numbers, Spaces DEF RingNumbers
  <1>2. PICK k \in Nat :
          /\ result' = -k /\ k <= Locked!get_write_space
          /\ Locked!Usable /\ wr' = Locked!update_pointer(wr, k) /\ rd' = rd
          /\ UNCHANGED <<Locked!block, memory>> /\ lastIsWrite' = lastIsWrite
    <2> DEFINE m == Locked!Least(n, Locked!get_write_space)
    <2>1. n \in Nat /\ ~(-n > 0) /\ -(-n) = n
      BY DEF Locked!RingParameters
    <2>2. /\ result' = -m /\ wr' = Locked!update_pointer(wr, m) /\ rd' = rd /\ Locked!Usable
          /\ UNCHANGED <<Locked!block, memory>> /\ lastIsWrite' = lastIsWrite
      BY <2>1 DEF Locked!ring_buffer_seek
    <2>3. m \in Nat /\ m <= Locked!get_write_space
      <3> HIDE DEF Locked!get_write_space
      <3> QED
        BY <1>1, <2>1 DEF Locked!Least
    <2> HIDE DEF m
    <2> QED
      BY <2>2, <2>3
  <1>3. k \in 0 .. Locked!get_write_space /\ -(-k) = k
    BY <1>1, <1>2
  <1>4. result' = -k
    BY <1>2
  <1>9. lastIsWrite' = TRUE \/ k < Locked!get_write_space
    <2>1. Len(Locked!Waiting) = Locked!get_read_space /\ lastIsWrite \in BOOLEAN
      BY <1>1, <1>2, WaitingBytes DEF WaitingAre, RingNumbers
    <2>2. Locked!get_read_space + Locked!get_write_space = size /\ size \in Nat
      BY <1>1, Spaces DEF RingNumbers
    <2> HIDE DEF Locked!get_read_space, Locked!get_write_space, Locked!Waiting
    <2>3. size - Len(Locked!Waiting) = Locked!get_write_space
      BY <1>1, <2>1, <2>2
    <2> QED
      BY <1>1, <1>2, <1>3, <2>1, <2>3
  <1> HIDE DEF Locked!get_read_space, Locked!get_write_space, Locked!Waiting, Cell, Locked!Usable
  <1>5. /\ Locked!Waiting \in Seq(Byte) /\ Locked!Waiting' \in Seq(Byte)
        /\ Len(Locked!Waiting) = Locked!get_read_space /\ Len(Locked!Waiting') = Len(Locked!Waiting) + k
        /\ \A i \in 1 .. Len(Locked!Waiting) : Locked!Waiting'[i] = Locked!Waiting[i]
    <2>1. k # 0 => lastIsWrite' = TRUE \/ k < Locked!get_write_space
      BY <1>9
    <2>2. k = 0 => lastIsWrite' = lastIsWrite
      BY <1>2
    <2> QED
      BY <1>1, <1>2, <1>3, <2>1, <2>2, BytesAdded
  <1> DEFINE old == SubSeq(Locked!Waiting, 1, Len(Locked!Waiting))
             new == SubSeq(Locked!Waiting', 1, Len(Locked!Waiting))
  <1>6. /\ old \in Seq(Byte) /\ new \in Seq(Byte)
        /\ Len(old) = Len(Locked!Waiting) /\ Len(new) = Len(Locked!Waiting)
        /\ \A i \in 1 .. Len(Locked!Waiting) : old[i] = Locked!Waiting[i] /\ new[i] = Locked!Waiting'[i]
    BY <1>1, <1>3, <1>5
  <1> HIDE DEF old, new
  <1>7. old = new
    BY <1>5, <1>6, SeqEqual
  <1>8. Len(Locked!Waiting) <= Len(Locked!Waiting') /\ Len(Locked!Waiting') = Len(Locked!Waiting) - result'
    BY <1>1, <1>3, <1>4, <1>5
  <1> QED
    BY <1>7, <1>8 DEF old, new, Locked!IsPrefix

\* A seek that fills the ring after a read empties it.
LEMMA BackwardEmpties ==
  ASSUME Locked!RingParameters, RingInv, NEW n \in 1 .. MaxChunk, Locked!ring_buffer_seek(-n),
         -result' = size - Len(Locked!Waiting), ~ lastIsWrite
  PROVE  Locked!Waiting' = <<>>
  <1>1. RingInv' /\ RingNumbers /\ WaitingAre /\ WaitingAre'
    BY SeekTypes, Numbers, WaitingBytes, WaitingThen
  <1>2. /\ Locked!Usable /\ wr' = Locked!update_pointer(wr, -result') /\ rd' = rd
        /\ UNCHANGED <<Locked!block, memory>> /\ lastIsWrite' = lastIsWrite
    BY SeekDoes DEF Locked!ring_buffer_seek
  <1>3. -result' = Locked!get_write_space
    <2>1. Len(Locked!Waiting) = Locked!get_read_space
      BY <1>1, <1>2 DEF WaitingAre
    <2>2. /\ Locked!get_read_space + Locked!get_write_space = size
          /\ Locked!get_read_space \in 0 .. size /\ Locked!get_write_space \in 0 .. size /\ size \in Nat
      BY <1>1, Spaces DEF RingNumbers
    <2> HIDE DEF Locked!get_read_space, Locked!get_write_space, Locked!Waiting
    <2> QED
      BY <2>1, <2>2
  <1>4. size' = size /\ allocated' = allocated
    BY <1>2 DEF Locked!block
  <1>5. wr' = rd
    <2> DEFINE w == Locked!get_write_space
    <2>1. Locked!update_pointer(wr, w) = rd
      BY <1>1, <1>2 DEF RingNumbers, Locked!get_write_space, Locked!update_pointer
    <2> HIDE DEF Locked!get_write_space, Locked!update_pointer
    <2> QED
      BY <1>2, <1>3, <2>1
  <1>6. Locked!get_read_space' = 0 /\ Locked!Usable'
    BY <1>1, <1>2, <1>4, <1>5 DEF RingNumbers, Locked!get_read_space, Locked!Usable
  <1>7. Locked!Waiting' \in Seq(Byte) /\ Len(Locked!Waiting') = 0
    BY <1>1, <1>6 DEF WaitingAre
  <1> HIDE DEF Locked!Waiting
  <1> QED
    BY <1>7

(* For every size, after any calls of any functions: a seek moves one end of the *)
(* queue of waiting bytes, except that one that skips every byte after a write   *)
(* makes the ring full, and one that fills the ring after a read empties it.     *)
THEOREM Ring_SeekKeepsFlag ==
  ASSUME Locked!RingParameters
  PROVE  Locked!Spec => [][Locked!SeekKeepsFlag]_Locked!vars
  <1>1. Locked!Init => RingInv
    BY InitialTypes
  <1>2. RingInv /\ [Locked!Next]_Locked!vars => RingInv'
    BY StepTypes
  <1>3. RingInv => Locked!SeekKeepsFlag
    BY ForwardDrops, ForwardFills, BackwardAdds, BackwardEmpties DEF Locked!SeekKeepsFlag
  <1> QED
    BY <1>1, <1>2, <1>3, PTL DEF Locked!Spec

=============================================================================
