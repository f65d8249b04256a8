----------------------------- MODULE FifoProofs -----------------------------
(***************************************************************************)
(* Proofs about Fifo, for any number of threads and any length of array.   *)
(*                                                                         *)
(* The inductive invariant has three layers, each inductive on top of the  *)
(* ones before it:                                                         *)
(*   Shape       who may be at which statement, and the mutex;             *)
(*   Accounting  the two semaphores against nElements, which bounds the    *)
(*               indexes that the code does not test;                      *)
(*   CellsInUse  which cells are zeroed, at each statement, and what the   *)
(*               threads inside a call hold.                               *)
(***************************************************************************)
EXTENDS Fifo, FiniteSetTheorems, TLAPS

PushLabels  == {"idle", "wait", "lock", "store", "grow", "unlock", "post"}
PopLabels   == {"idle", "wait", "lock", "read", "shift", "shrink", "clear", "unlock", "post"}
CountLabels == {"idle", "lock", "count", "unlock"}

Shape ==
  /\ nElements \in Int /\ push \in Int /\ pop \in Int
  /\ use \in Threads \cup {Nobody}
  /\ pc \in [Threads -> Labels]
  /\ \A p \in Producers : pc[p] \in PushLabels
  /\ \A c \in Consumers : pc[c] \in PopLabels
  /\ \A o \in Observers : pc[o] \in CountLabels
  /\ MutualExclusion

Accounting == push \in Nat /\ pop \in Nat /\ SemaphoreAccounting

\* The number of cells that hold an element: one more than nElements between
\* the store and the increment, and between the decrement and the memset.
Lagging == \E t \in Threads : pc[t] \in {"grow", "clear"}
Used == IF Lagging THEN nElements + 1 ELSE nElements

CellsInUse ==
  /\ array \in [Cells -> Elements \cup {NULL}]
  /\ reg \in [Threads -> Elements \cup {NULL} \cup 0 .. nMaxElements]
  /\ \A p \in Producers : pc[p] \in {"wait", "lock", "store", "grow"} => reg[p] \in Elements
  /\ \A i \in Cells : array[i] # NULL <=> i < Used
  /\ \A p \in Producers : pc[p] = "grow" => array[nElements] = reg[p]
  /\ \A c \in Consumers : pc[c] = "shift" => array[0] = reg[c]
  /\ \A c \in Consumers :
       pc[c] \in {"shift", "shrink", "clear", "unlock", "post"} => reg[c] \in Elements

IInv == Shape /\ Accounting /\ CellsInUse

(***************************************************************************)
(* Shape                                                                   *)
(***************************************************************************)
LEMMA ShapeInit == Init => Shape
<1> SUFFICES ASSUME Init PROVE Shape
  OBVIOUS
<1>1. nMaxElements \in Int
  BY ConstantsAssumption
<1>2. QED
  BY <1>1, ConstantsAssumption
  DEF Init, Shape, Labels, PushLabels, PopLabels, CountLabels, MutualExclusion,
      InCriticalSection, Threads

\* A step of a call of fifo_push.
LEMMA ShapePush ==
  ASSUME Shape, NEW p \in Producers, PushCall(p) \/ PushStep(p)
  PROVE  Shape'
<1> USE ConstantsAssumption DEF Shape, Labels, PushLabels, PopLabels, CountLabels,
        MutualExclusion, InCriticalSection, Threads, Goto
<1>1. CASE PushCall(p)
  BY <1>1 DEF PushCall
<1>2. CASE PushWait(p)
  BY <1>2 DEF PushWait
<1>3. CASE Lock(p)
  BY <1>3 DEF Lock, AfterLock
<1>4. CASE PushStore(p)
  BY <1>4 DEF PushStore
<1>5. CASE PushGrow(p)
  BY <1>5 DEF PushGrow
<1>6. CASE Unlock(p)
  BY <1>6 DEF Unlock
<1>7. CASE PushPost(p)
  BY <1>7 DEF PushPost
<1>8. QED
  BY <1>1, <1>2, <1>3, <1>4, <1>5, <1>6, <1>7 DEF PushStep

\* A step of a call of fifo_pop.
LEMMA ShapePop ==
  ASSUME Shape, NEW c \in Consumers, PopCall(c) \/ PopStep(c)
  PROVE  Shape'
<1> USE ConstantsAssumption DEF Shape, Labels, PushLabels, PopLabels, CountLabels,
        MutualExclusion, InCriticalSection, Threads, Goto
<1>1. CASE PopCall(c)
  BY <1>1 DEF PopCall
<1>2. CASE PopWait(c)
  BY <1>2 DEF PopWait
<1>3. CASE Lock(c)
  BY <1>3 DEF Lock, AfterLock
<1>4. CASE PopRead(c)
  BY <1>4 DEF PopRead
<1>5. CASE PopShift(c)
  BY <1>5 DEF PopShift
<1>6. CASE PopShrink(c)
  BY <1>6 DEF PopShrink
<1>7. CASE PopClear(c)
  BY <1>7 DEF PopClear
<1>8. CASE Unlock(c)
  BY <1>8 DEF Unlock
<1>9. CASE PopPost(c)
  BY <1>9 DEF PopPost
<1>10. QED
  BY <1>1, <1>2, <1>3, <1>4, <1>5, <1>6, <1>7, <1>8, <1>9 DEF PopStep

\* A step of a call of fifo_nElements.
LEMMA ShapeCount ==
  ASSUME Shape, NEW o \in Observers, CountCall(o) \/ CountStep(o)
  PROVE  Shape'
<1> USE ConstantsAssumption DEF Shape, Labels, PushLabels, PopLabels, CountLabels,
        MutualExclusion, InCriticalSection, Threads, Goto
<1>1. CASE CountCall(o)
  BY <1>1 DEF CountCall
<1>2. CASE Lock(o)
  BY <1>2 DEF Lock, AfterLock
<1>3. CASE CountRead(o)
  BY <1>3 DEF CountRead
<1>4. CASE Unlock(o)
  BY <1>4 DEF Unlock
<1>5. QED
  BY <1>1, <1>2, <1>3, <1>4 DEF CountStep

LEMMA ShapeNext == Shape /\ [Next]_vars => Shape'
<1> SUFFICES ASSUME Shape, [Next]_vars PROVE Shape'
  OBVIOUS
<1>1. CASE UNCHANGED vars
  BY <1>1 DEF vars, Shape, MutualExclusion, InCriticalSection
<1>2. CASE Next
  BY <1>2, ShapePush, ShapePop, ShapeCount DEF Next
<1>3. QED
  BY <1>1, <1>2

(***************************************************************************)
(* Accounting                                                              *)
(***************************************************************************)
\* How many threads are at the statements L, before and after one of them goes
\* from statement l1 to statement l2.
Change(before, after, l1, l2, L) ==
  /\ before \in Nat /\ after \in Nat
  /\ after = before + (IF l2 \in L THEN 1 ELSE 0) - (IF l1 \in L THEN 1 ELSE 0)

LEMMA CountMoves ==
  ASSUME NEW S, IsFiniteSet(S), NEW f, NEW g, NEW t \in S, NEW L,
         \A u \in S \ {t} : g[u] = f[u]
  PROVE  Change(Cardinality({u \in S : f[u] \in L}), Cardinality({u \in S : g[u] \in L}),
                f[t], g[t], L)
<1> DEFINE A == {u \in S : f[u] \in L}
           B == {u \in S : g[u] \in L}
<1>1. IsFiniteSet(A) /\ IsFiniteSet(B)
  BY FS_Subset
<1>2. Cardinality(A) \in Nat /\ Cardinality(B) \in Nat
  BY <1>1, FS_CardinalityType
<1>3. ASSUME f[t] \in L <=> g[t] \in L PROVE A = B
  BY <1>3
<1>4. ASSUME f[t] \notin L, g[t] \in L PROVE Cardinality(B) = Cardinality(A) + 1
  <2>1. B = A \cup {t} /\ t \notin A
    BY <1>4
  <2>2. QED
    BY <2>1, <1>1, FS_AddElement
<1>5. ASSUME f[t] \in L, g[t] \notin L PROVE Cardinality(B) = Cardinality(A) - 1
  <2>1. B = A \ {t} /\ t \in A
    BY <1>5
  <2>2. QED
    BY <2>1, <1>1, FS_RemoveElement
<1>6. Change(Cardinality(A), Cardinality(B), f[t], g[t], L)
  <2> HIDE DEF A, B
  <2>1. QED
    BY <1>2, <1>3, <1>4, <1>5 DEF Change
<1>7. QED
  BY <1>6

LEMMA FiniteThreads == IsFiniteSet(Producers) /\ IsFiniteSet(Consumers)
<1>1. Producers \in SUBSET Threads /\ Consumers \in SUBSET Threads
  BY DEF Threads
<1>2. QED
  BY <1>1, ConstantsAssumption, FS_Subset

\* The four numbers of SemaphoreAccounting are natural numbers, at least one
\* when some thread is counted.
LEMMA Counts ==
  LET Counted(S) == Cardinality(S) \in Nat /\ \A t \in S : Cardinality(S) > 0
  IN  /\ Counted(PushReserved) /\ Counted(PushUnposted)
      /\ Counted(PopReserved) /\ Counted(PopUnposted)
<1>1. ASSUME NEW S, IsFiniteSet(S)
      PROVE  Cardinality(S) \in Nat /\ \A t \in S : Cardinality(S) > 0
  BY <1>1, FS_CardinalityType, FS_EmptySet
<1>2. /\ PushReserved \in SUBSET Producers /\ PushUnposted \in SUBSET Producers
      /\ PopReserved \in SUBSET Consumers /\ PopUnposted \in SUBSET Consumers
  BY DEF PushReserved, PushUnposted, PopReserved, PopUnposted
<1>3. /\ IsFiniteSet(PushReserved) /\ IsFiniteSet(PushUnposted)
      /\ IsFiniteSet(PopReserved) /\ IsFiniteSet(PopUnposted)
  BY <1>2, FiniteThreads, FS_Subset
<1>4. QED
  BY <1>1, <1>3

LEMMA AccountingInit == Init => Accounting
<1> SUFFICES ASSUME Init PROVE Accounting
  OBVIOUS
<1>1. /\ PushReserved = {} /\ PushUnposted = {}
      /\ PopReserved = {} /\ PopUnposted = {}
  BY DEF Init, PushReserved, PushUnposted, PopReserved, PopUnposted, Threads
<1>2. nMaxElements \in Nat
  BY ConstantsAssumption
<1>3. QED
  BY <1>1, <1>2, FS_EmptySet DEF Init, Accounting, SemaphoreAccounting

\* What a step of a producer does to the two sets of producers; the sets of
\* consumers stay.
LEMMA ProducerMoves ==
  ASSUME Shape, NEW p \in Producers, NEW l, Goto(p, l)
  PROVE  /\ PopReserved' = PopReserved /\ PopUnposted' = PopUnposted
         /\ Change(Cardinality(PushReserved), Cardinality(PushReserved'), pc[p], l,
                   {"lock", "store", "grow"})
         /\ Change(Cardinality(PushUnposted), Cardinality(PushUnposted'), pc[p], l,
                   {"unlock", "post"})
<1>1. pc'[p] = l /\ \A t \in Threads \ {p} : pc'[t] = pc[t]
  BY DEF Shape, Goto, Threads
<1>2. \A c \in Consumers : pc'[c] = pc[c]
  BY <1>1, ConstantsAssumption DEF Threads
<1>3. \A q \in Producers \ {p} : pc'[q] = pc[q]
  BY <1>1 DEF Threads
<1>4. PopReserved' = PopReserved /\ PopUnposted' = PopUnposted
  BY <1>2 DEF PopReserved, PopUnposted
<1>5. ASSUME NEW L
      PROVE  Change(Cardinality({q \in Producers : pc[q] \in L}),
                    Cardinality({q \in Producers : pc'[q] \in L}), pc[p], pc'[p], L)
  BY <1>3, FiniteThreads, CountMoves, Zenon
<1>6. Change(Cardinality(PushReserved), Cardinality(PushReserved'), pc[p], l,
             {"lock", "store", "grow"})
  BY <1>1, <1>5, Zenon DEF PushReserved
<1>7. Change(Cardinality(PushUnposted), Cardinality(PushUnposted'), pc[p], l,
             {"unlock", "post"})
  BY <1>1, <1>5, Zenon DEF PushUnposted
<1>8. QED
  BY <1>4, <1>6, <1>7

\* The same for a step of a consumer.
LEMMA ConsumerMoves ==
  ASSUME Shape, NEW c \in Consumers, NEW l, Goto(c, l)
  PROVE  /\ PushReserved' = PushReserved /\ PushUnposted' = PushUnposted
         /\ Change(Cardinality(PopReserved), Cardinality(PopReserved'), pc[c], l,
                   {"lock", "read", "shift", "shrink"})
         /\ Change(Cardinality(PopUnposted), Cardinality(PopUnposted'), pc[c], l,
                   {"clear", "unlock", "post"})
<1>1. pc'[c] = l /\ \A t \in Threads \ {c} : pc'[t] = pc[t]
  BY DEF Shape, Goto, Threads
<1>2. \A p \in Producers : pc'[p] = pc[p]
  BY <1>1, ConstantsAssumption DEF Threads
<1>3. \A d \in Consumers \ {c} : pc'[d] = pc[d]
  BY <1>1 DEF Threads
<1>4. PushReserved' = PushReserved /\ PushUnposted' = PushUnposted
  BY <1>2 DEF PushReserved, PushUnposted
<1>5. ASSUME NEW L
      PROVE  Change(Cardinality({d \in Consumers : pc[d] \in L}),
                    Cardinality({d \in Consumers : pc'[d] \in L}), pc[c], pc'[c], L)
  BY <1>3, FiniteThreads, CountMoves, Zenon
<1>6. Change(Cardinality(PopReserved), Cardinality(PopReserved'), pc[c], l,
             {"lock", "read", "shift", "shrink"})
  BY <1>1, <1>5, Zenon DEF PopReserved
<1>7. Change(Cardinality(PopUnposted), Cardinality(PopUnposted'), pc[c], l,
             {"clear", "unlock", "post"})
  BY <1>1, <1>5, Zenon DEF PopUnposted
<1>8. QED
  BY <1>4, <1>6, <1>7

LEMMA AccountingPush ==
  ASSUME Shape, Accounting, NEW p \in Producers, PushCall(p) \/ PushStep(p)
  PROVE  Accounting'
<1> USE ConstantsAssumption, ProducerMoves DEF Shape, Accounting, SemaphoreAccounting, Change
<1>1. CASE PushCall(p)
  BY <1>1 DEF PushCall
<1>2. CASE PushWait(p)
  BY <1>2 DEF PushWait
<1>3. CASE Lock(p)
  BY <1>3 DEF Lock, AfterLock
<1>4. CASE PushStore(p)
  BY <1>4 DEF PushStore
<1>5. CASE PushGrow(p)
  <2>1. Goto(p, "unlock") /\ pc[p] = "grow"
    BY <1>5 DEF PushGrow
  <2>2. UNCHANGED <<PopReserved, PopUnposted>>
    BY <2>1, ProducerMoves
  <2>3. Cardinality(PopReserved) \in Nat /\ Cardinality(PopUnposted) \in Nat
    BY Counts
  <2>4. Change(Cardinality(PushReserved), Cardinality(PushReserved'), "grow", "unlock",
              {"lock", "store", "grow"})
    BY <2>1, ProducerMoves, Zenon
  <2>5. Change(Cardinality(PushUnposted), Cardinality(PushUnposted'), "grow", "unlock",
              {"unlock", "post"})
    BY <2>1, ProducerMoves, Zenon
  <2>6. QED
    BY <1>5, <2>2, <2>3, <2>4, <2>5 DEF PushGrow, Change
<1>6. CASE Unlock(p)
  BY <1>6 DEF Unlock
<1>7. CASE PushPost(p)
  <2>1. Goto(p, "idle") /\ pc[p] = "post"
    BY <1>7 DEF PushPost
  <2>2. UNCHANGED <<PopReserved, PopUnposted>>
    BY <2>1, ProducerMoves
  <2>3. Cardinality(PopReserved) \in Nat /\ Cardinality(PopUnposted) \in Nat
    BY Counts
  <2>4. Change(Cardinality(PushReserved), Cardinality(PushReserved'), "post", "idle",
              {"lock", "store", "grow"})
    BY <2>1, ProducerMoves, Zenon
  <2>5. Change(Cardinality(PushUnposted), Cardinality(PushUnposted'), "post", "idle",
              {"unlock", "post"})
    BY <2>1, ProducerMoves, Zenon
  <2>6. QED
    BY <1>7, <2>2, <2>3, <2>4, <2>5 DEF PushPost, Change
<1>8. QED
  BY <1>1, <1>2, <1>3, <1>4, <1>5, <1>6, <1>7 DEF PushStep

LEMMA AccountingPop ==
  ASSUME Shape, Accounting, NEW c \in Consumers, PopCall(c) \/ PopStep(c)
  PROVE  Accounting'
<1> USE ConstantsAssumption, ConsumerMoves DEF Shape, Accounting, SemaphoreAccounting, Change
<1>1. CASE PopCall(c)
  BY <1>1 DEF PopCall
<1>2. CASE PopWait(c)
  BY <1>2 DEF PopWait
<1>3. CASE Lock(c)
  BY <1>3 DEF Lock, AfterLock
<1>4. CASE PopRead(c)
  BY <1>4 DEF PopRead
<1>5. CASE PopShift(c)
  BY <1>5 DEF PopShift
<1>6. CASE PopShrink(c)
  <2>1. Goto(c, "clear") /\ pc[c] = "shrink"
    BY <1>6 DEF PopShrink
  <2>2. UNCHANGED <<PushReserved, PushUnposted>>
    BY <2>1, ConsumerMoves
  <2>3. Cardinality(PushReserved) \in Nat /\ Cardinality(PushUnposted) \in Nat
    BY Counts
  <2>4. Change(Cardinality(PopReserved), Cardinality(PopReserved'), "shrink", "clear",
              {"lock", "read", "shift", "shrink"})
    BY <2>1, ConsumerMoves, Zenon
  <2>5. Change(Cardinality(PopUnposted), Cardinality(PopUnposted'), "shrink", "clear",
              {"clear", "unlock", "post"})
    BY <2>1, ConsumerMoves, Zenon
  <2>6. QED
    BY <1>6, <2>2, <2>3, <2>4, <2>5 DEF PopShrink, Change
<1>7. CASE PopClear(c)
  BY <1>7 DEF PopClear
<1>8. CASE Unlock(c)
  BY <1>8 DEF Unlock
<1>9. CASE PopPost(c)
  <2>1. Goto(c, "idle") /\ pc[c] = "post"
    BY <1>9 DEF PopPost
  <2>2. UNCHANGED <<PushReserved, PushUnposted>>
    BY <2>1, ConsumerMoves
  <2>3. Cardinality(PushReserved) \in Nat /\ Cardinality(PushUnposted) \in Nat
    BY Counts
  <2>4. Change(Cardinality(PopReserved), Cardinality(PopReserved'), "post", "idle",
              {"lock", "read", "shift", "shrink"})
    BY <2>1, ConsumerMoves, Zenon
  <2>5. Change(Cardinality(PopUnposted), Cardinality(PopUnposted'), "post", "idle",
              {"clear", "unlock", "post"})
    BY <2>1, ConsumerMoves, Zenon
  <2>6. QED
    BY <1>9, <2>2, <2>3, <2>4, <2>5 DEF PopPost, Change
<1>10. QED
  BY <1>1, <1>2, <1>3, <1>4, <1>5, <1>6, <1>7, <1>8, <1>9 DEF PopStep

\* An observer moves no unit and no element.
LEMMA AccountingCount ==
  ASSUME Shape, Accounting, NEW o \in Observers, CountCall(o) \/ CountStep(o)
  PROVE  Accounting'
<1>1. UNCHANGED <<nElements, push, pop>>
  BY DEF CountCall, CountStep, Lock, CountRead, Unlock
<1>2. PICK l : Goto(o, l)
  BY DEF CountCall, CountStep, Lock, CountRead, Unlock
<1>3. \A t \in Producers \cup Consumers : pc'[t] = pc[t]
  BY <1>2, ConstantsAssumption DEF Goto, Shape, Threads
<1>4. UNCHANGED <<PushReserved, PushUnposted, PopReserved, PopUnposted>>
  BY <1>3 DEF PushReserved, PushUnposted, PopReserved, PopUnposted
<1>5. QED
  BY <1>1, <1>4 DEF Accounting, SemaphoreAccounting

LEMMA AccountingNext == Shape /\ Accounting /\ [Next]_vars => Accounting'
<1> SUFFICES ASSUME Shape, Accounting, [Next]_vars PROVE Accounting'
  OBVIOUS
<1>1. CASE UNCHANGED vars
  BY <1>1 DEF vars, Accounting, SemaphoreAccounting, PushReserved, PushUnposted,
              PopReserved, PopUnposted
<1>2. CASE Next
  BY <1>2, AccountingPush, AccountingPop, AccountingCount DEF Next
<1>3. QED
  BY <1>1, <1>2

\* What the accounting says about the indexes and the counters.
LEMMA Bounds ==
  ASSUME Shape, Accounting
  PROVE  /\ nElements \in 0 .. nMaxElements
         /\ push \in 0 .. nMaxElements /\ pop \in 0 .. nMaxElements
         /\ IndexInBounds
<1>1. /\ nElements \in 0 .. nMaxElements
      /\ push \in 0 .. nMaxElements /\ pop \in 0 .. nMaxElements
  BY ConstantsAssumption, Counts DEF Shape, Accounting, SemaphoreAccounting
<1>2. ASSUME NEW p \in Producers, pc[p] = "store" PROVE nElements < nMaxElements
  <2>1. p \in PushReserved
    BY <1>2 DEF PushReserved
  <2>2. QED
    BY <2>1, <1>1, ConstantsAssumption, Counts DEF Accounting, SemaphoreAccounting
<1>3. ASSUME NEW c \in Consumers, pc[c] \in {"read", "shift", "shrink"} PROVE nElements > 0
  <2>1. c \in PopReserved
    BY <1>3 DEF PopReserved
  <2>2. QED
    BY <2>1, <1>1, ConstantsAssumption, Counts DEF Accounting, SemaphoreAccounting
<1>4. QED
  BY <1>1, <1>2, <1>3 DEF IndexInBounds

(***************************************************************************)
(* CellsInUse                                                              *)
(***************************************************************************)
LEMMA CellsInit == Init => CellsInUse
<1> SUFFICES ASSUME Init PROVE CellsInUse
  OBVIOUS
<1>1. Used = 0
  BY DEF Init, Used, Lagging
<1>2. QED
  BY <1>1, ConstantsAssumption DEF Init, CellsInUse, Cells, Threads

\* Only the owner of the mutex makes the cells lag behind nElements.
LEMMA LaggingOwner ==
  ASSUME Shape, NEW t \in Threads, NEW l, Goto(t, l)
  PROVE  /\ pc'[t] = l
         /\ \A u \in Threads : u # t => pc'[u] = pc[u]
         /\ InCriticalSection(t) =>
              /\ Lagging <=> pc[t] \in {"grow", "clear"}
              /\ Lagging' <=> l \in {"grow", "clear"}
         /\ pc[t] \notin {"grow", "clear"} /\ l \notin {"grow", "clear"} =>
              (Lagging' <=> Lagging)
<1>1. pc'[t] = l /\ \A u \in Threads : u # t => pc'[u] = pc[u]
  BY DEF Shape, Goto
<1>2. ASSUME InCriticalSection(t)
      PROVE  \A u \in Threads : u # t => pc[u] \notin {"grow", "clear"}
  BY <1>2 DEF Shape, MutualExclusion, InCriticalSection
<1>3. QED
  BY <1>1, <1>2 DEF Lagging

LEMMA CellsPush ==
  ASSUME Shape, Accounting, CellsInUse, NEW p \in Producers, PushCall(p) \/ PushStep(p)
  PROVE  CellsInUse'
<1> USE ConstantsAssumption DEF Cells, Threads
<1>1. CASE PushCall(p)
  <2>1. Lagging' <=> Lagging
    BY <1>1, LaggingOwner DEF PushCall
  <2>2. QED
    BY <1>1, <2>1 DEF PushCall, CellsInUse, Used, Goto, Shape
<1>2. CASE PushWait(p)
  <2>1. Lagging' <=> Lagging
    BY <1>2, LaggingOwner DEF PushWait
  <2>2. QED
    BY <1>2, <2>1 DEF PushWait, CellsInUse, Used, Goto, Shape
<1>3. CASE Lock(p)
  <2>1. Lagging' <=> Lagging
    BY <1>3, LaggingOwner DEF Lock, AfterLock
  <2>2. QED
    BY <1>3, <2>1 DEF Lock, AfterLock, CellsInUse, Used, Goto, Shape
<1>4. CASE PushStore(p)
  <2>1. ~Lagging /\ Lagging'
    BY <1>4, LaggingOwner DEF PushStore, InCriticalSection
  <2>2. nElements \in Cells
    BY <1>4, Bounds DEF PushStore, IndexInBounds
  <2>3. reg[p] \in Elements
    BY <1>4 DEF PushStore, CellsInUse
  <2>4. QED
    BY <1>4, <2>1, <2>2, <2>3 DEF PushStore, CellsInUse, Used, Goto, Shape
<1>5. CASE PushGrow(p)
  <2>1. Lagging /\ ~Lagging'
    BY <1>5, LaggingOwner DEF PushGrow, InCriticalSection
  <2>2. \A t \in Threads : pc'[t] # "grow"
    BY <1>5 DEF PushGrow, Shape, MutualExclusion, InCriticalSection, Goto
  <2>3. QED
    BY <1>5, <2>1, <2>2 DEF PushGrow, CellsInUse, Used, Goto, Shape
<1>6. CASE Unlock(p)
  <2>1. Lagging' <=> Lagging
    BY <1>6, LaggingOwner DEF Unlock
  <2>2. QED
    BY <1>6, <2>1 DEF Unlock, CellsInUse, Used, Goto, Shape
<1>7. CASE PushPost(p)
  <2>1. Lagging' <=> Lagging
    BY <1>7, LaggingOwner DEF PushPost
  <2>2. QED
    BY <1>7, <2>1 DEF PushPost, CellsInUse, Used, Goto, Shape
<1>8. QED
  BY <1>1, <1>2, <1>3, <1>4, <1>5, <1>6, <1>7 DEF PushStep

LEMMA CellsPop ==
  ASSUME Shape, Accounting, CellsInUse, NEW c \in Consumers, PopCall(c) \/ PopStep(c)
  PROVE  CellsInUse'
<1> USE ConstantsAssumption DEF Cells, Threads
<1>1. CASE PopCall(c)
  <2>1. Lagging' <=> Lagging
    BY <1>1, LaggingOwner DEF PopCall
  <2>2. QED
    BY <1>1, <2>1 DEF PopCall, CellsInUse, Used, Goto, Shape
<1>2. CASE PopWait(c)
  <2>1. Lagging' <=> Lagging
    BY <1>2, LaggingOwner DEF PopWait
  <2>2. QED
    BY <1>2, <2>1 DEF PopWait, CellsInUse, Used, Goto, Shape
<1>3. CASE Lock(c)
  <2>1. Lagging' <=> Lagging
    BY <1>3, LaggingOwner DEF Lock, AfterLock
  <2>2. QED
    BY <1>3, <2>1 DEF Lock, AfterLock, CellsInUse, Used, Goto, Shape
<1>4. CASE PopRead(c)
  <2>1. ~Lagging /\ ~Lagging'
    BY <1>4, LaggingOwner DEF PopRead, InCriticalSection
  <2>2. array[0] \in Elements
    BY <1>4, <2>1, Bounds DEF PopRead, IndexInBounds, CellsInUse, Used
  <2>3. QED
    BY <1>4, <2>1, <2>2 DEF PopRead, CellsInUse, Used, Goto, Shape
<1>5. CASE PopShift(c)
  <2>1. ~Lagging /\ ~Lagging'
    BY <1>5, LaggingOwner DEF PopShift, InCriticalSection
  <2>2. nElements \in 0 .. nMaxElements
    BY Bounds
  <2>3. \A t \in Threads : pc'[t] \notin {"grow", "shift"}
    BY <1>5 DEF PopShift, Shape, MutualExclusion, InCriticalSection, Goto
  <2>4. array' \in [Cells -> Elements \cup {NULL}]
    BY <1>5, <2>2 DEF PopShift, CellsInUse
  <2>5. \A i \in Cells : array'[i] # NULL <=> i < nElements
    BY <1>5, <2>1, <2>2 DEF PopShift, CellsInUse, Used
  <2>6. QED
    BY <1>5, <2>1, <2>3, <2>4, <2>5 DEF PopShift, CellsInUse, Used, Goto, Shape
<1>6. CASE PopShrink(c)
  <2>1. ~Lagging /\ Lagging'
    BY <1>6, LaggingOwner DEF PopShrink, InCriticalSection
  <2>2. \A t \in Threads : pc'[t] # "grow"
    BY <1>6 DEF PopShrink, Shape, MutualExclusion, InCriticalSection, Goto
  <2>3. QED
    BY <1>6, <2>1, <2>2 DEF PopShrink, CellsInUse, Used, Goto, Shape
<1>7. CASE PopClear(c)
  <2>1. Lagging /\ ~Lagging'
    BY <1>7, LaggingOwner DEF PopClear, InCriticalSection
  <2>2. \A t \in Threads : pc'[t] \notin {"grow", "shift"}
    BY <1>7 DEF PopClear, Shape, MutualExclusion, InCriticalSection, Goto
  <2>3. array' \in [Cells -> Elements \cup {NULL}]
    BY <1>7 DEF PopClear, CellsInUse
  <2>4. \A i \in Cells : array'[i] # NULL <=> i < nElements
    BY <1>7, <2>1 DEF PopClear, CellsInUse, Used, Shape
  <2>5. QED
    BY <1>7, <2>1, <2>2, <2>3, <2>4 DEF PopClear, CellsInUse, Used, Goto, Shape
<1>8. CASE Unlock(c)
  <2>1. Lagging' <=> Lagging
    BY <1>8, LaggingOwner DEF Unlock
  <2>2. QED
    BY <1>8, <2>1 DEF Unlock, CellsInUse, Used, Goto, Shape
<1>9. CASE PopPost(c)
  <2>1. Lagging' <=> Lagging
    BY <1>9, LaggingOwner DEF PopPost
  <2>2. QED
    BY <1>9, <2>1 DEF PopPost, CellsInUse, Used, Goto, Shape
<1>10. QED
  BY <1>1, <1>2, <1>3, <1>4, <1>5, <1>6, <1>7, <1>8, <1>9 DEF PopStep

LEMMA CellsCount ==
  ASSUME Shape, Accounting, CellsInUse, NEW o \in Observers, CountCall(o) \/ CountStep(o)
  PROVE  CellsInUse'
<1> USE ConstantsAssumption DEF Threads
<1>1. UNCHANGED <<array, nElements>>
  BY DEF CountCall, CountStep, Lock, CountRead, Unlock
<1>2. PICK l : Goto(o, l) /\ l \notin {"grow", "clear"}
  BY DEF CountCall, CountStep, Lock, AfterLock, CountRead, Unlock
<1>3. pc[o] \notin {"grow", "clear"}
  BY DEF Shape, CountLabels
<1>4. Lagging' <=> Lagging
  BY <1>2, <1>3, LaggingOwner
<1>5. \A t \in Producers \cup Consumers : pc'[t] = pc[t]
  BY <1>2 DEF Goto, Shape
<1>6. reg' \in [Threads -> Elements \cup {NULL} \cup 0 .. nMaxElements]
  BY Bounds DEF CountCall, CountStep, Lock, CountRead, Unlock, CellsInUse
<1>7. \A t \in Producers \cup Consumers : reg'[t] = reg[t]
  BY DEF CountCall, CountStep, Lock, CountRead, Unlock, CellsInUse
<1>8. QED
  BY <1>1, <1>4, <1>5, <1>6, <1>7 DEF CellsInUse, Used

LEMMA CellsNext == Shape /\ Accounting /\ CellsInUse /\ [Next]_vars => CellsInUse'
<1> SUFFICES ASSUME Shape, Accounting, CellsInUse, [Next]_vars PROVE CellsInUse'
  OBVIOUS
<1>1. CASE UNCHANGED vars
  BY <1>1 DEF vars, CellsInUse, Used, Lagging
<1>2. CASE Next
  BY <1>2, CellsPush, CellsPop, CellsCount DEF Next
<1>3. QED
  BY <1>1, <1>2

(***************************************************************************)
(* The theorems                                                            *)
(***************************************************************************)
\* The inductive invariant holds of every reachable state of every instance.
THEOREM Inductive == Spec => []IInv
<1>1. Init => IInv
  BY ShapeInit, AccountingInit, CellsInit DEF IInv
<1>2. IInv /\ [Next]_vars => IInv'
  BY ShapeNext, AccountingNext, CellsNext DEF IInv
<1>3. QED
  BY <1>1, <1>2, PTL DEF Spec

\* Every variable of the FIFO keeps its type; the semaphores and nElements
\* never leave 0 .. nMaxElements.
THEOREM TypeCorrect == Spec => []TypeOK
<1>1. IInv => TypeOK
  BY Bounds DEF IInv, TypeOK, Shape, CellsInUse
<1>2. QED
  BY <1>1, Inductive, PTL

\* The mutex `use' protects array and nElements in every call.
THEOREM MutexCorrect == Spec => []MutualExclusion
<1>1. IInv => MutualExclusion
  BY DEF IInv, Shape
<1>2. QED
  BY <1>1, Inductive, PTL

\* No unit of the two semaphores is ever lost or made up.
THEOREM AccountingCorrect == Spec => []SemaphoreAccounting
<1>1. IInv => SemaphoreAccounting
  BY DEF IInv, Accounting
<1>2. QED
  BY <1>1, Inductive, PTL

\* fifo_push and fifo_pop never index outside of the elements, though neither
\* tests the index.
THEOREM IndexesCorrect == Spec => []IndexInBounds
<1>1. IInv => IndexInBounds
  BY Bounds DEF IInv
<1>2. QED
  BY <1>1, Inductive, PTL

\* fifo_pop never returns a zeroed cell.
THEOREM MessagesCorrect == Spec => []NoNullMessage
<1>1. ASSUME IInv, use = Nobody PROVE ~Lagging
  BY <1>1, ConstantsAssumption DEF IInv, Shape, MutualExclusion, InCriticalSection, Lagging
<1>2. ASSUME IInv PROVE NoNullMessage
  BY <1>1, <1>2, ConstantsAssumption DEF IInv, CellsInUse, Used, NoNullMessage
<1>3. QED
  BY <1>2, Inductive, PTL

(***************************************************************************)
(* Refinement                                                              *)
(***************************************************************************)
\* The length that `contents' has.
Length == IF \E c \in Consumers : pc[c] = "shrink" THEN nElements - 1 ELSE nElements

LEMMA ContentsIsSeq ==
  ASSUME IInv
  PROVE  /\ Length \in 0 .. nMaxElements
         /\ contents = [i \in 1 .. Length |-> array[i - 1]]
         /\ contents \in Seq(Elements \cup {NULL})
         /\ Len(contents) = Length
<1>1. Length \in 0 .. nMaxElements
  BY Bounds, ConstantsAssumption DEF IInv, Length, IndexInBounds
<1>2. contents = [i \in 1 .. Length |-> array[i - 1]]
  BY DEF contents, Length
<1>3. \A i \in 1 .. Length : array[i - 1] \in Elements \cup {NULL}
  BY <1>1, ConstantsAssumption DEF IInv, CellsInUse, Cells
<1>4. QED
  BY <1>1, <1>2, <1>3

LEMMA RefinesInit == Init => Queue!Init
<1> SUFFICES ASSUME Init PROVE Queue!Init
  OBVIOUS
<1>1. contents = << >>
  BY DEF Init, contents, Threads
<1>2. pushing = [p \in Producers |-> NULL] /\ popped = [c \in Consumers |-> NULL]
  BY DEF Init, pushing, popped, Threads
<1>3. QED
  BY <1>1, <1>2 DEF Queue!Init

LEMMA RefinesPush ==
  ASSUME IInv, NEW p \in Producers, PushCall(p) \/ PushStep(p)
  PROVE  Queue!Next \/ UNCHANGED Queue!vars
<1> USE ConstantsAssumption DEF Threads
<1>1. UNCHANGED popped
  BY DEF PushCall, PushStep, PushWait, Lock, PushStore, PushGrow, Unlock, PushPost,
         AfterLock, Goto, popped, IInv, Shape, CellsInUse
<1>2. \A c \in Consumers : pc'[c] = pc[c]
  BY DEF PushCall, PushStep, PushWait, Lock, PushStore, PushGrow, Unlock, PushPost,
         AfterLock, Goto, IInv, Shape
<1>3. ASSUME UNCHANGED <<array, nElements>> PROVE UNCHANGED contents
  BY <1>2, <1>3 DEF contents
<1>4. CASE PushCall(p)
  <2>1. UNCHANGED contents
    BY <1>3, <1>4 DEF PushCall
  <2>2. pushing[p] = NULL
    BY <1>4 DEF PushCall, pushing
  <2>3. PICK e \in Elements : reg' = [reg EXCEPT ![p] = e]
    BY <1>4 DEF PushCall
  <2>4. pushing' = [pushing EXCEPT ![p] = e]
    BY <1>4, <2>3 DEF PushCall, Goto, pushing, IInv, Shape, CellsInUse
  <2>5. Queue!Call(p)
    BY <1>1, <2>1, <2>2, <2>4 DEF Queue!Call
  <2>6. QED
    BY <2>5 DEF Queue!Next
<1>5. CASE PushWait(p) \/ Lock(p) \/ Unlock(p) \/ PushPost(p)
  <2>1. UNCHANGED <<array, nElements>>
    BY <1>5 DEF PushWait, Lock, Unlock, PushPost
  <2>2. UNCHANGED pushing
    BY <1>5 DEF PushWait, Lock, Unlock, PushPost, AfterLock, Goto, pushing, IInv, Shape
  <2>3. QED
    BY <1>1, <1>3, <2>1, <2>2 DEF Queue!vars
<1>6. CASE PushStore(p)
  <2>1. \A c \in Consumers : pc[c] # "shrink" /\ pc'[c] # "shrink"
    BY <1>2, <1>6 DEF PushStore, IInv, Shape, MutualExclusion, InCriticalSection
  <2>2. \A i \in 1 .. nElements : array'[i - 1] = array[i - 1]
    BY <1>6 DEF PushStore, IInv, Shape, CellsInUse
  <2>3. UNCHANGED contents
    BY <1>6, <2>1, <2>2 DEF PushStore, contents
  <2>4. UNCHANGED pushing
    BY <1>6 DEF PushStore, Goto, pushing, IInv, Shape
  <2>5. QED
    BY <1>1, <2>3, <2>4 DEF Queue!vars
<1>7. CASE PushGrow(p)
  <2>1. \A c \in Consumers : pc[c] # "shrink" /\ pc'[c] # "shrink"
    BY <1>2, <1>7 DEF PushGrow, IInv, Shape, MutualExclusion, InCriticalSection
  <2>2. Length = nElements /\ Length' = nElements + 1
    BY <1>7, <2>1 DEF PushGrow, Length
  <2>3. /\ pushing[p] = reg[p] /\ reg[p] # NULL
        /\ pushing' = [pushing EXCEPT ![p] = NULL]
    BY <1>7 DEF PushGrow, Goto, pushing, IInv, Shape, CellsInUse
  <2>4. array[nElements] = reg[p]
    BY <1>7 DEF PushGrow, IInv, CellsInUse
  <2>5. contents' = Append(contents, pushing[p])
    <3>1. contents = [i \in 1 .. nElements |-> array[i - 1]]
      BY <2>2, ContentsIsSeq
    <3>2. contents' = [i \in 1 .. nElements + 1 |-> array[i - 1]]
      BY <1>7, <2>1 DEF PushGrow, contents
    <3>3. nElements \in Nat
      BY Bounds DEF IInv
    <3>4. QED
      BY <2>3, <2>4, <3>1, <3>2, <3>3
  <2>6. Len(contents) < nMaxElements
    <3>1. Len(contents) = nElements /\ nElements \in Nat
      BY <2>2, ContentsIsSeq
    <3>2. p \in PushReserved
      BY <1>7 DEF PushGrow, PushReserved
    <3>3. QED
      BY <3>1, <3>2, Counts DEF IInv, Accounting, SemaphoreAccounting
  <2>7. Queue!Put(p)
    BY <1>1, <2>3, <2>5, <2>6 DEF Queue!Put
  <2>8. QED
    BY <2>7 DEF Queue!Next
<1>8. QED
  BY <1>4, <1>5, <1>6, <1>7 DEF PushStep

LEMMA RefinesPop ==
  ASSUME IInv, NEW c \in Consumers, PopCall(c) \/ PopStep(c)
  PROVE  Queue!Next \/ UNCHANGED Queue!vars
<1> USE ConstantsAssumption DEF Threads
<1>1. UNCHANGED pushing
  BY DEF PopCall, PopStep, PopWait, Lock, PopRead, PopShift, PopShrink, PopClear, Unlock,
         PopPost, AfterLock, Goto, pushing, IInv, Shape, CellsInUse
<1>2. ASSUME NEW l, Goto(c, l), pc[c] # "shrink", l # "shrink", UNCHANGED <<array, nElements>>
      PROVE  UNCHANGED contents
  BY <1>2 DEF contents, Goto, IInv, Shape
<1>3. CASE PopCall(c) \/ PopWait(c) \/ Lock(c) \/ PopRead(c) \/ Unlock(c)
  <2>1. UNCHANGED contents
    BY <1>2, <1>3 DEF PopCall, PopWait, Lock, AfterLock, PopRead, Unlock
  <2>2. UNCHANGED popped
    BY <1>3 DEF PopCall, PopWait, Lock, AfterLock, PopRead, Unlock, Goto, popped, IInv, Shape,
                CellsInUse
  <2>3. QED
    BY <1>1, <2>1, <2>2 DEF Queue!vars
<1>4. CASE PopShift(c)
  <2>1. nElements \in Nat \ {0} /\ nElements <= nMaxElements
    BY <1>4, Bounds DEF PopShift, IInv, IndexInBounds
  <2>2. \A d \in Consumers : pc[d] # "shrink"
    BY <1>4 DEF PopShift, IInv, Shape, MutualExclusion, InCriticalSection
  <2>3. contents = [i \in 1 .. nElements |-> array[i - 1]]
    BY <2>2 DEF contents
  <2>4. contents' = [i \in 1 .. nElements - 1 |-> array'[i - 1]]
    BY <1>4 DEF PopShift, Goto, contents, IInv, Shape
  <2>5. \A i \in 1 .. nElements - 1 : array'[i - 1] = array[i]
    BY <1>4, <2>1 DEF PopShift, Cells
  <2>6. contents \in Seq(Elements \cup {NULL}) /\ Len(contents) = nElements
    BY <2>2, ContentsIsSeq DEF Length
  <2>7. contents' = Tail(contents) /\ contents # << >> /\ Head(contents) = array[0]
    BY <2>1, <2>3, <2>4, <2>5, <2>6
  <2>8. popped[c] = NULL /\ popped' = [popped EXCEPT ![c] = Head(contents)]
    BY <1>4, <2>7 DEF PopShift, Goto, popped, IInv, Shape, CellsInUse
  <2>9. Queue!Get(c)
    BY <1>1, <2>7, <2>8 DEF Queue!Get
  <2>10. QED
    BY <2>9 DEF Queue!Next
<1>5. CASE PopShrink(c)
  <2>1. \A d \in Consumers : pc'[d] # "shrink"
    BY <1>5 DEF PopShrink, Goto, IInv, Shape, MutualExclusion, InCriticalSection
  <2>2. UNCHANGED contents
    BY <1>5, <2>1 DEF PopShrink, contents
  <2>3. UNCHANGED popped
    BY <1>5 DEF PopShrink, Goto, popped, IInv, Shape
  <2>4. QED
    BY <1>1, <2>2, <2>3 DEF Queue!vars
<1>6. CASE PopClear(c)
  <2>1. \A d \in Consumers : pc[d] # "shrink" /\ pc'[d] # "shrink"
    BY <1>6 DEF PopClear, Goto, IInv, Shape, MutualExclusion, InCriticalSection
  <2>2. nElements \in 0 .. nMaxElements
    BY Bounds DEF IInv
  <2>3. \A i \in 1 .. nElements : array'[i - 1] = array[i - 1]
    BY <1>6, <2>2 DEF PopClear, Cells
  <2>4. UNCHANGED contents
    BY <1>6, <2>1, <2>3 DEF PopClear, contents
  <2>5. UNCHANGED popped
    BY <1>6 DEF PopClear, Goto, popped, IInv, Shape
  <2>6. QED
    BY <1>1, <2>4, <2>5 DEF Queue!vars
<1>7. CASE PopPost(c)
  <2>1. UNCHANGED contents
    BY <1>2, <1>7 DEF PopPost
  <2>2. popped[c] # NULL /\ popped' = [popped EXCEPT ![c] = NULL]
    BY <1>7 DEF PopPost, Goto, popped, IInv, Shape, CellsInUse
  <2>3. Queue!Return(c)
    BY <1>1, <2>1, <2>2 DEF Queue!Return
  <2>4. QED
    BY <2>3 DEF Queue!Next
<1>8. QED
  BY <1>3, <1>4, <1>5, <1>6, <1>7 DEF PopStep

LEMMA RefinesCount ==
  ASSUME IInv, NEW o \in Observers, CountCall(o) \/ CountStep(o)
  PROVE  UNCHANGED Queue!vars
<1> USE ConstantsAssumption DEF Threads
<1>1. UNCHANGED <<array, nElements>>
  BY DEF CountCall, CountStep, Lock, CountRead, Unlock
<1>2. \A t \in Producers \cup Consumers : pc'[t] = pc[t] /\ reg'[t] = reg[t]
  BY DEF CountCall, CountStep, Lock, CountRead, Unlock, Goto, IInv, Shape, CellsInUse
<1>3. UNCHANGED contents
  BY <1>1, <1>2 DEF contents
<1>4. UNCHANGED pushing /\ UNCHANGED popped
  BY <1>2 DEF pushing, popped
<1>5. QED
  BY <1>3, <1>4 DEF Queue!vars

\* The FIFO is a bounded queue for any number of threads and any length: each
\* call takes effect at one instant, and nothing is lost, doubled or reordered.
THEOREM QueueRefined == Spec => ImplementsQueue
<1>1. Init => Queue!Init
  BY RefinesInit
<1>2. ASSUME IInv, [Next]_vars PROVE [Queue!Next]_(Queue!vars)
  <2>1. CASE UNCHANGED vars
    BY <2>1 DEF vars, Queue!vars, contents, pushing, popped
  <2>2. CASE Next
    BY <1>2, <2>2, RefinesPush, RefinesPop, RefinesCount DEF Next
  <2>3. QED
    BY <1>2, <2>1, <2>2
<1>3. QED
  BY <1>1, <1>2, Inductive, PTL DEF Spec, ImplementsQueue, Queue!Spec

\* fifo_nElements returns the length of that queue.
THEOREM CountCorrect == Spec => CountIsExact
<1>1. ASSUME IInv, NEW o \in Observers, CountRead(o) PROVE reg'[o] = Len(contents)
  <2>1. \A c \in Consumers : pc[c] # "shrink"
    BY <1>1, ConstantsAssumption
    DEF CountRead, IInv, Shape, MutualExclusion, InCriticalSection, Threads
  <2>2. Len(contents) = nElements
    BY <1>1, <2>1, ContentsIsSeq DEF Length
  <2>3. QED
    BY <1>1, <2>2 DEF CountRead, IInv, CellsInUse, Threads
<1>2. ASSUME IInv, [Next]_vars
      PROVE  [\A o \in Observers : CountRead(o) => reg'[o] = Len(contents)]_vars
  BY <1>1, <1>2
<1>3. QED
  BY <1>2, Inductive, PTL DEF Spec, CountIsExact

=============================================================================
