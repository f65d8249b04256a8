-------------------------------- MODULE Fifo --------------------------------
(***************************************************************************)
(* src/utils/fifo.c: the blocking FIFO of message pointers through which   *)
(* all threads of the pipeline talk.  Every step below is one call or one  *)
(* assignment of fifo_push, fifo_pop or fifo_nElements, so that the        *)
(* critical sections can interleave wherever the mutex does not forbid it. *)
(***************************************************************************)
EXTENDS Naturals, Sequences, FiniteSets

CONSTANTS Producers,     \* threads that call fifo_push
          Consumers,     \* threads that call fifo_pop
          Observers,     \* threads that call fifo_nElements
          Elements,      \* pointers that are pushed
          nMaxElements,  \* length of the array
          NULL,          \* a zeroed cell of the array
          Nobody         \* the mutex is free

Threads == Producers \cup Consumers \cup Observers

ASSUME ConstantsAssumption ==
  /\ nMaxElements \in Nat \ {0}
  /\ NULL \notin Elements
  /\ Nobody \notin Threads
  /\ Producers \cap Consumers = {}
  /\ Observers \cap (Producers \cup Consumers) = {}
  /\ IsFiniteSet(Threads)

VARIABLES array,      \* array[0 .. nMaxElements-1]
          nElements,
          use,        \* owner of the mutex
          push, pop,  \* values of the two semaphores
          pc,         \* pc[t]: the next statement of t's current call
          reg         \* reg[t]: element being pushed, rtnPtr or the count read

vars == <<array, nElements, use, push, pop, pc, reg>>

Cells == 0 .. nMaxElements - 1

Goto(t, label) == pc' = [pc EXCEPT ![t] = label]

(***************************************************************************)
(* fifo_construct_zero                                                     *)
(***************************************************************************)
\* Mutant: one unit of `push' too many.
Init_ExtraUnit == /\ array = [i \in Cells |-> NULL]
                  /\ nElements = 0
                  /\ use = Nobody
                  /\ pop = 0
                  /\ push = nMaxElements + 1
                  /\ pc = [t \in Threads |-> "idle"]
                  /\ reg = [t \in Threads |-> NULL]

Init == /\ array = [i \in Cells |-> NULL]
        /\ nElements = 0
        /\ use = Nobody
        /\ pop = 0
        /\ push = nMaxElements
        /\ pc = [t \in Threads |-> "idle"]
        /\ reg = [t \in Threads |-> NULL]

(***************************************************************************)
(* pthread_mutex_lock and pthread_mutex_unlock on `use'                    *)
(***************************************************************************)
AfterLock(t) == IF t \in Producers THEN "store"
                ELSE IF t \in Consumers THEN "read" ELSE "count"

\* Mutant: the mutex does not exclude.
Lock_Shared(t) == /\ pc[t] = "lock"
                  /\ use' = t
                  /\ Goto(t, AfterLock(t))
                  /\ UNCHANGED <<array, nElements, push, pop, reg>>

Lock(t) == /\ pc[t] = "lock"
           /\ use = Nobody
           /\ use' = t
           /\ Goto(t, AfterLock(t))
           /\ UNCHANGED <<array, nElements, push, pop, reg>>

Unlock(t) == /\ pc[t] = "unlock"
             /\ use' = Nobody
             /\ Goto(t, IF t \in Observers THEN "idle" ELSE "post")
             /\ UNCHANGED <<array, nElements, push, pop, reg>>

(***************************************************************************)
(* fifo_push                                                               *)
(***************************************************************************)
PushCall(p) == /\ pc[p] = "idle"
               /\ \E e \in Elements : reg' = [reg EXCEPT ![p] = e]
               /\ Goto(p, "wait")
               /\ UNCHANGED <<array, nElements, use, push, pop>>

\* Mutant: sem_wait returns without a unit.
PushWait_NoWait(p) == /\ pc[p] = "wait"
                      /\ push' = push - 1
                      /\ Goto(p, "lock")
                      /\ UNCHANGED <<array, nElements, use, pop, reg>>

PushWait(p) == /\ pc[p] = "wait"
               /\ push > 0
               /\ push' = push - 1
               /\ Goto(p, "lock")
               /\ UNCHANGED <<array, nElements, use, pop, reg>>

PushStore(p) == /\ pc[p] = "store"
                /\ array' = [array EXCEPT ![nElements] = reg[p]]
                /\ Goto(p, "grow")
                /\ UNCHANGED <<nElements, use, push, pop, reg>>

PushGrow(p) == /\ pc[p] = "grow"
               /\ nElements' = nElements + 1
               /\ Goto(p, "unlock")
               /\ UNCHANGED <<array, use, push, pop, reg>>

\* Mutant: the element is not announced.
PushPost_Lost(p) == /\ pc[p] = "post"
                    /\ Goto(p, "idle")
                    /\ UNCHANGED <<array, nElements, use, push, pop, reg>>

PushPost(p) == /\ pc[p] = "post"
               /\ pop' = pop + 1
               /\ Goto(p, "idle")
               /\ UNCHANGED <<array, nElements, use, push, reg>>

(***************************************************************************)
(* fifo_pop                                                                *)
(***************************************************************************)
PopCall(c) == /\ pc[c] = "idle"
              /\ Goto(c, "wait")
              /\ UNCHANGED <<array, nElements, use, push, pop, reg>>

PopWait(c) == /\ pc[c] = "wait"
              /\ pop > 0
              /\ pop' = pop - 1
              /\ Goto(c, "lock")
              /\ UNCHANGED <<array, nElements, use, push, reg>>

PopRead(c) == /\ pc[c] = "read"
              /\ reg' = [reg EXCEPT ![c] = array[0]]
              /\ Goto(c, "shift")
              /\ UNCHANGED <<array, nElements, use, push, pop>>

\* Mutant: the elements do not move up.
PopShift_None(c) == /\ pc[c] = "shift"
                    /\ Goto(c, "shrink")
                    /\ UNCHANGED <<array, nElements, use, push, pop, reg>>

\* memmove of nElements-1 cells; the last one keeps its old value
PopShift(c) == /\ pc[c] = "shift"
               /\ array' = [i \in Cells |->
                              IF i + 1 < nElements THEN array[i + 1]
                                                   ELSE array[i]]
               /\ Goto(c, "shrink")
               /\ UNCHANGED <<nElements, use, push, pop, reg>>

PopShrink(c) == /\ pc[c] = "shrink"
                /\ nElements' = nElements - 1
                /\ Goto(c, "clear")
                /\ UNCHANGED <<array, use, push, pop, reg>>

\* Mutant: clears one cell too many.
PopClear_OneMore(c) == /\ pc[c] = "clear"
                       /\ array' = [i \in Cells |->
                                      IF i + 1 < nElements THEN array[i] ELSE NULL]
                       /\ Goto(c, "unlock")
                       /\ UNCHANGED <<nElements, use, push, pop, reg>>

\* memset of every cell from nElements on
PopClear(c) == /\ pc[c] = "clear"
               /\ array' = [i \in Cells |->
                              IF i < nElements THEN array[i] ELSE NULL]
               /\ Goto(c, "unlock")
               /\ UNCHANGED <<nElements, use, push, pop, reg>>

\* Mutant: the free cell is not announced.
PopPost_Lost(c) == /\ pc[c] = "post"
                   /\ Goto(c, "idle")
                   /\ UNCHANGED <<array, nElements, use, push, pop, reg>>

PopPost(c) == /\ pc[c] = "post"
              /\ push' = push + 1
              /\ Goto(c, "idle")
              /\ UNCHANGED <<array, nElements, use, pop, reg>>

(***************************************************************************)
(* fifo_nElements                                                          *)
(***************************************************************************)
\* Mutant: the counter is read without the mutex.
CountCall_NoLock(o) == /\ pc[o] = "idle"
                       /\ Goto(o, "count")
                       /\ UNCHANGED <<array, nElements, use, push, pop, reg>>

CountCall(o) == /\ pc[o] = "idle"
                /\ Goto(o, "lock")
                /\ UNCHANGED <<array, nElements, use, push, pop, reg>>

CountRead(o) == /\ pc[o] = "count"
                /\ reg' = [reg EXCEPT ![o] = nElements]
                /\ Goto(o, "unlock")
                /\ UNCHANGED <<array, nElements, use, push, pop>>

(***************************************************************************)
(* The specification                                                       *)
(***************************************************************************)
\* The steps of a call of fifo_push, of fifo_pop and of fifo_nElements
PushStep(p) == \/ PushWait(p) \/ Lock(p) \/ PushStore(p) \/ PushGrow(p)
               \/ Unlock(p) \/ PushPost(p)

PopStep(c) == \/ PopWait(c) \/ Lock(c) \/ PopRead(c) \/ PopShift(c)
              \/ PopShrink(c) \/ PopClear(c) \/ Unlock(c) \/ PopPost(c)

CountStep(o) == Lock(o) \/ CountRead(o) \/ Unlock(o)

Next == \/ \E p \in Producers : PushCall(p) \/ PushStep(p)
        \/ \E c \in Consumers : PopCall(c) \/ PopStep(c)
        \/ \E o \in Observers : CountCall(o) \/ CountStep(o)

Spec == Init /\ [][Next]_vars

\* The threads keep being scheduled inside a call, and the consumers of the
\* pipeline loop on fifo_pop; nothing makes a producer push again.
Fairness == /\ \A p \in Producers : WF_vars(PushStep(p))
            /\ \A c \in Consumers : WF_vars(PopCall(c) \/ PopStep(c))
            /\ \A o \in Observers : WF_vars(CountStep(o))

FairSpec == Spec /\ Fairness

(***************************************************************************)
(* Invariants                                                              *)
(***************************************************************************)
Labels == {"idle", "wait", "lock", "store", "grow", "unlock", "post",
           "read", "shift", "shrink", "clear", "count"}

TypeOK == /\ array \in [Cells -> Elements \cup {NULL}]
          /\ nElements \in 0 .. nMaxElements
          /\ use \in Threads \cup {Nobody}
          /\ push \in 0 .. nMaxElements
          /\ pop \in 0 .. nMaxElements
          /\ pc \in [Threads -> Labels]
          /\ reg \in [Threads -> Elements \cup {NULL} \cup 0 .. nMaxElements]

InCriticalSection(t) ==
  pc[t] \in {"store", "grow", "unlock", "read", "shift", "shrink", "clear", "count"}

\* The owner of the mutex, and it alone, is between lock and unlock.
MutualExclusion == \A t \in Threads : InCriticalSection(t) <=> use = t

\* Producers that own a unit of `push' they have not turned into an element,
\* and producers whose element is in the array but not yet posted to `pop'.
PushReserved == {p \in Producers : pc[p] \in {"lock", "store", "grow"}}
PushUnposted == {p \in Producers : pc[p] \in {"unlock", "post"}}
PopReserved  == {c \in Consumers : pc[c] \in {"lock", "read", "shift", "shrink"}}
PopUnposted  == {c \in Consumers : pc[c] \in {"clear", "unlock", "post"}}

\* Every element is announced by `pop', claimed by a consumer or about to be
\* posted; every free cell is announced by `push', claimed by a producer or
\* about to be posted.  A post lost or made twice breaks it for ever.
SemaphoreAccounting ==
  /\ pop + Cardinality(PopReserved) + Cardinality(PushUnposted) = nElements
  /\ push + Cardinality(PushReserved) + Cardinality(PopUnposted)
        = nMaxElements - nElements

\* fifo_push writes inside the array, and fifo_pop finds an element to read:
\* neither index is tested by the code, only the semaphores keep them in range.
IndexInBounds ==
  /\ \A p \in Producers : pc[p] = "store" => nElements < nMaxElements
  /\ \A c \in Consumers : pc[c] \in {"read", "shift", "shrink"} => nElements > 0

\* Outside of a critical section exactly the first nElements cells are in use,
\* and a consumer never returns with a zeroed cell.
NoNullMessage ==
  /\ use = Nobody => \A i \in Cells : array[i] # NULL <=> i < nElements
  /\ \A c \in Consumers : pc[c] \in {"shift", "shrink", "clear", "unlock", "post"}
                            => reg[c] # NULL

(***************************************************************************)
(* Refinement: the call takes effect when nElements grows (fifo_push) and  *)
(* when the array shifts (fifo_pop).                                       *)
(***************************************************************************)
contents == [i \in 1 .. IF \E c \in Consumers : pc[c] = "shrink"
                        THEN nElements - 1 ELSE nElements |-> array[i - 1]]

pushing == [p \in Producers |->
              IF pc[p] \in {"wait", "lock", "store", "grow"} THEN reg[p] ELSE NULL]

popped == [c \in Consumers |->
             IF pc[c] \in {"shrink", "clear", "unlock", "post"} THEN reg[c] ELSE NULL]

Queue == INSTANCE BoundedQueue WITH Capacity <- nMaxElements, None <- NULL,
                                    queue <- contents, in <- pushing, out <- popped

\* The FIFO is a bounded queue: nothing is lost, duplicated or reordered,
\* whatever the interleaving of the calls.
ImplementsQueue == Queue!Spec

\* What fifo_nElements reads is the length of that queue at the read.
CountIsExact ==
  [][\A o \in Observers : CountRead(o) => reg'[o] = Len(contents)]_vars

(***************************************************************************)
(* Liveness                                                                *)
(***************************************************************************)
\* With one producer, and a consumer that keeps popping, a push always returns,
\* and a pop blocks only while there is nothing to pop: no wake-up is lost
\* between the two semaphores and the mutex.
CallsReturn ==
  /\ \A p \in Producers : pc[p] # "idle" ~> pc[p] = "idle"
  /\ \A c \in Consumers : pc[c] = "wait" /\ nElements > 0 ~> pc[c] = "idle"

=============================================================================
