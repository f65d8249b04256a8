------------------------------ MODULE Pipeline ------------------------------
(***************************************************************************)
(* The threads of ODAS and the message pools between them.                 *)
(*                                                                         *)
(* Every thread runs its program (ThreadPrograms) over and over.  A step   *)
(* is one operation on one FIFO of one pool -- atomic, which is what       *)
(* Fifo!ImplementsQueue shows -- or the processing of the messages held.   *)
(* A message is reduced to its timeStamp: 0 is the "0" message that ends   *)
(* the stream, and the only thing the control of the pipeline looks at.    *)
(***************************************************************************)
EXTENDS Integers, Sequences, FiniteSets, Hop2Hop

CONSTANTS Program,    \* Program[t]: what thread t does, see ThreadPrograms
          Clock,      \* Clock[p]: the source or resampler whose time stamps p carries
          Rate,       \* Rate[t]: sampling rates and hop sizes of a resampler
          Enabled,    \* the resamplers on which amod_resample_enable was called
          nMessages,  \* message objects of each pool
          MaxHops     \* bound: hops that a source can read before its end

Threads    == DOMAIN Program
Ops        == [t \in Threads |-> Program[t].ops]
Last       == [t \in Threads |-> Len(Ops[t])]
Does(t, i, do, p) == Ops[t][i].do = do /\ Ops[t][i].pool = p
Touched    == [t \in Threads |-> {Ops[t][i].pool : i \in 1 .. Last[t]} \ {"-"}]
Pools      == UNION {Touched[t] : t \in Threads}
Ins        == [t \in Threads |->
                 {p \in Touched[t] : \E i \in 1 .. Last[t] : Does(t, i, "filled_pop", p)}]
Outs       == [t \in Threads |->
                 {p \in Touched[t] : \E i \in 1 .. Last[t] : Does(t, i, "filled_push", p)}]

Kind(k)    == {t \in Threads : Program[t].kind = k}
Sources    == Kind("source")
Resamplers == Kind("resampler")
Sinks      == Kind("sink")
Relays     == Kind("relay") \cup Sinks

(***************************************************************************)
(* The networks that odaslive builds: the three loop shapes, one writer    *)
(* and one reader of each pool, and joins of branches with the same clock. *)
(***************************************************************************)
SourceLoop(t) ==
  /\ Last[t] = 6
  /\ Ops[t][1].do = "empty_pop"   /\ Ops[t][2].do = "process"
  /\ Ops[t][3].do = "filled_push" /\ Ops[t][4].do = "check"
  /\ Ops[t][5].do = "empty_pop"   /\ Ops[t][6].do = "filled_push"
  /\ \A i \in {1, 3, 5} : Ops[t][i].pool = Ops[t][6].pool

ResamplerLoop(t) ==
  /\ Last[t] = 7
  /\ Ops[t][1].do = "filled_pop"  /\ Ops[t][2].do = "empty_pop"
  /\ Ops[t][3].do = "process"
  /\ Ops[t][4].do = "empty_push"  /\ Ops[t][5].do = "filled_push"
  /\ Ops[t][6].do = "empty_push"  /\ Ops[t][7].do = "filled_push"
  /\ Ops[t][1].pool = Ops[t][4].pool /\ Ops[t][1].pool = Ops[t][6].pool
  /\ Ops[t][2].pool = Ops[t][5].pool /\ Ops[t][2].pool = Ops[t][7].pool
  /\ Ops[t][1].pool # Ops[t][2].pool

\* The pools of which a thread with an unconditional program holds a message
\* before operation i: between the operation that acquires it and the one that
\* releases it.
Acquires(o) == o.do \in {"filled_pop", "empty_pop"}
Releases(o) == o.do \in {"filled_push", "empty_push"}

HeldBefore ==
  [t \in Threads |-> [i \in 1 .. Last[t] + 1 |->
     {Ops[t][j].pool : j \in {k \in 1 .. i - 1 :
        /\ Acquires(Ops[t][k])
        /\ \A l \in k + 1 .. i - 1 :
             ~(Releases(Ops[t][l]) /\ Ops[t][l].pool = Ops[t][k].pool)}}]]

\* a message at a time of each pool, and none at the end of the program
Paired(t) ==
  /\ \A i \in 1 .. Last[t] :
       /\ Acquires(Ops[t][i]) => Ops[t][i].pool \notin HeldBefore[t][i]
       /\ Releases(Ops[t][i]) => Ops[t][i].pool \in HeldBefore[t][i]
  /\ HeldBefore[t][Last[t] + 1] = {}

\* inputs before the one "process", outputs after it, and nothing twice
RelayLoop(t) ==
  /\ \A i, j \in 1 .. Last[t] : Does(t, i, Ops[t][j].do, Ops[t][j].pool) => i = j
  /\ \E m \in 1 .. Last[t] - 1 : \A i \in 1 .. Last[t] :
       /\ Ops[t][i].do = "filled_pop" => i < m
       /\ Ops[t][i].do = "process" <=> i = m
       /\ Ops[t][i].do = "filled_push" => i > m
       /\ Ops[t][i].do # "check"
  /\ Paired(t)

ASSUME SizesAssumption ==
  /\ nMessages \in Nat \ {0} /\ MaxHops \in Nat \ {0}
  /\ \A t \in Resamplers : Rate[t] \in [fSin : Nat \ {0}, fSout : Nat \ {0},
                                       hopSizeIn : Nat \ {0}, hopSizeOut : Nat \ {0}]

ASSUME LoopsAssumption ==
  /\ Threads = Sources \cup Resamplers \cup Relays
  /\ \A t \in Threads : /\ Last[t] \in Nat
                        /\ \A i \in 1 .. Last[t] :
                             Ops[t][i].pool = "-" <=> Ops[t][i].do \in {"process", "check"}
  /\ \A t \in Sources : SourceLoop(t)
  /\ \A t \in Resamplers : ResamplerLoop(t)
  /\ \A t \in Relays : RelayLoop(t)

ASSUME NetworkAssumption ==
  /\ \A p \in Pools : Clock[p] \in Sources \cup Resamplers
  /\ \A t \in Sources \cup Resamplers : \A p \in Outs[t] : Clock[p] = t
  /\ \A t \in Relays : /\ Ins[t] # {}
                       /\ \A p, q \in Ins[t] \cup Outs[t] : Clock[p] = Clock[q]
  /\ \A t, u \in Threads : /\ Ins[t] \cap Ins[u] # {} => t = u
                           /\ Outs[t] \cap Outs[u] # {} => t = u
  /\ \A p \in Pools : \E t, u \in Threads : p \in Outs[t] /\ p \in Ins[u]

VARIABLES filled,       \* filled[p]: the time stamps in the FIFO of filled messages
          empty,        \* empty[p]: number of messages in the FIFO of empty ones
          pc,           \* pc[t]: index of t's next operation
          got,          \* got[t][p]: time stamp of the last message t took from p
          val,          \* val[t]: time stamp of the message t publishes
          round,        \* round[t]: iterations done (resampler: inputs returned)
          timeStamp,    \* of a source or a resampler
          eof,          \* eof[t]: source t returned -1
          stop,         \* stop[t]: thread_stop was called on source t
          rtnValuePush, rtnValuePop, noMorePush, intervalSize,  \* of a resampler
          written,      \* written[t]: time stamps that sink t wrote, in order
          exited        \* exit(EXIT_FAILURE) was called

flow      == <<filled, empty>>
source    == <<eof, stop>>
resampler == <<rtnValuePush, rtnValuePop, noMorePush, intervalSize>>
vars == <<filled, empty, pc, got, val, round, timeStamp, eof, stop, rtnValuePush,
          rtnValuePop, noMorePush, intervalSize, written, exited>>

Op(t)   == Ops[t][pc[t]]
Done(t) == pc[t] > Last[t]

\* t is about to do the operation named `do', and the process is alive
At(t, do) == ~exited /\ ~Done(t) /\ Op(t).do = do

(***************************************************************************)
(* Init: amsg_*_construct fills the empty FIFO of each pool; every thread  *)
(* is at the head of its loop (threads_multiple_start).                    *)
(***************************************************************************)
Init == /\ filled = [p \in Pools |-> <<>>]
        /\ empty = [p \in Pools |-> nMessages]
        /\ pc = [t \in Threads |-> 1]
        /\ got = [t \in Threads |-> [p \in Ins[t] |-> 0]]
        /\ val = [t \in Threads |-> 0]
        /\ round = [t \in Threads |-> 0]
        /\ timeStamp = [t \in Sources \cup Resamplers |-> 0]
        /\ eof = [t \in Sources |-> FALSE]
        /\ stop = [t \in Sources |-> FALSE]
        /\ rtnValuePush = [t \in Resamplers |-> 0]
        /\ rtnValuePop = [t \in Resamplers |-> 0]
        /\ noMorePush = [t \in Resamplers |-> FALSE]
        /\ intervalSize = [t \in Resamplers |-> 0]
        /\ written = [t \in Sinks |-> <<>>]
        /\ exited = FALSE

(***************************************************************************)
(* Control flow between the pool operations                                *)
(***************************************************************************)
\* Mutant: the input that ends the loop is not returned.
RelayNext_KeepsLastInput(t) ==
  IF Op(t).do = "process" /\ \E p \in Ins[t] : got[t][p] = 0 THEN pc[t] + 2
  ELSE IF pc[t] < Last[t] THEN pc[t] + 1 ELSE IF val[t] = 0 THEN Last[t] + 1 ELSE 1

\* if (rtnValue == -1) break;  else the next iteration
RelayNext(t) ==
  IF pc[t] < Last[t] THEN pc[t] + 1 ELSE IF val[t] = 0 THEN Last[t] + 1 ELSE 1

\* the conditions of amod_resample_thread around operations 1, 2, 4 and 5
ResamplerNext(t) ==
  IF pc[t] = 1      THEN IF rtnValuePop[t] # -1 THEN 2 ELSE 3
  ELSE IF pc[t] = 4 THEN IF rtnValuePop[t] # -1 THEN 5 ELSE 1
  ELSE IF pc[t] = 5 THEN IF rtnValuePush[t] # -1 THEN 1 ELSE 2
  ELSE pc[t] + 1

Advance(t) ==
  /\ pc' = [pc EXCEPT ![t] = IF t \in Relays THEN RelayNext(t)
                               ELSE IF t \in Resamplers THEN ResamplerNext(t)
                               ELSE pc[t] + 1]
  /\ round' = IF (t \in Relays /\ pc[t] = Last[t]) \/ (t \in Resamplers /\ pc[t] = 4)
              THEN [round EXCEPT ![t] = @ + 1] ELSE round

(***************************************************************************)
(* Pool operations                                                         *)
(***************************************************************************)
\* Mutant: the newest message is taken, not the oldest.
PopFilled_Newest(t) ==
  /\ At(t, "filled_pop")
  /\ LET p == Op(t).pool
         n == Len(filled[p])
     IN /\ n > 0
        /\ got' = [got EXCEPT ![t][p] = filled[p][n]]
        /\ filled' = [filled EXCEPT ![p] = SubSeq(@, 1, n - 1)]
  /\ Advance(t)
  /\ UNCHANGED <<empty, val, timeStamp, source, resampler, written, exited>>

\* Mutant: the message is read but stays in the FIFO.
PopFilled_Peeks(t) ==
  /\ At(t, "filled_pop")
  /\ LET p == Op(t).pool IN
       /\ filled[p] # <<>>
       /\ got' = [got EXCEPT ![t][p] = Head(filled[p])]
  /\ Advance(t)
  /\ UNCHANGED <<filled, empty, val, timeStamp, source, resampler, written, exited>>

PopFilled(t) ==
  /\ At(t, "filled_pop")
  /\ LET p == Op(t).pool IN
       /\ filled[p] # <<>>
       /\ got' = [got EXCEPT ![t][p] = Head(filled[p])]
       /\ filled' = [filled EXCEPT ![p] = Tail(@)]
  /\ Advance(t)
  /\ UNCHANGED <<empty, val, timeStamp, source, resampler, written, exited>>

PushEmpty(t) ==
  /\ At(t, "empty_push")
  /\ LET p == Op(t).pool IN
       /\ empty[p] < nMessages
       /\ empty' = [empty EXCEPT ![p] = @ + 1]
  /\ Advance(t)
  /\ UNCHANGED <<filled, got, val, timeStamp, source, resampler, written, exited>>

\* Mutant: a message is taken out of an empty FIFO.
PopEmpty_NoWait(t) ==
  /\ At(t, "empty_pop")
  /\ LET p == Op(t).pool IN empty' = [empty EXCEPT ![p] = @ - 1]
  /\ Advance(t)
  /\ UNCHANGED <<filled, got, val, timeStamp, source, resampler, written, exited>>

PopEmpty(t) ==
  /\ At(t, "empty_pop")
  /\ LET p == Op(t).pool IN
       /\ empty[p] > 0
       /\ empty' = [empty EXCEPT ![p] = @ - 1]
  /\ Advance(t)
  /\ UNCHANGED <<filled, got, val, timeStamp, source, resampler, written, exited>>

PushFilled(t) ==
  /\ At(t, "filled_push")
  /\ LET p == Op(t).pool IN
       /\ Len(filled[p]) < nMessages
       /\ filled' = [filled EXCEPT ![p] = Append(@, val[t])]
  /\ Advance(t)
  /\ UNCHANGED <<empty, got, val, timeStamp, source, resampler, written, exited>>

(***************************************************************************)
(* Source: src_hops_process stamps the hop it returns, also when the read  *)
(* was short (-1).  After the loop the "0" message is sent.                *)
(***************************************************************************)
\* Mutant: what a short read left is not sent.
SourceProcess_DropsShort(t) ==
  /\ t \in Sources /\ At(t, "process")
  /\ timeStamp' = [timeStamp EXCEPT ![t] = @ + 1]
  /\ \E short \in BOOLEAN :
       /\ timeStamp[t] + 1 = MaxHops => short
       /\ eof' = [eof EXCEPT ![t] = short]
       /\ val' = [val EXCEPT ![t] = IF short THEN 0 ELSE timeStamp[t] + 1]
  /\ Advance(t)
  /\ UNCHANGED <<flow, got, stop, resampler, written, exited>>

SourceProcess(t) ==
  /\ t \in Sources /\ At(t, "process")
  /\ timeStamp' = [timeStamp EXCEPT ![t] = @ + 1]
  /\ val' = [val EXCEPT ![t] = timeStamp[t] + 1]
  /\ \E short \in BOOLEAN :
       /\ timeStamp[t] + 1 = MaxHops => short
       /\ eof' = [eof EXCEPT ![t] = short]
  /\ Advance(t)
  /\ UNCHANGED <<flow, got, stop, resampler, written, exited>>

SourceCheck(t) ==
  /\ At(t, "check")
  /\ IF eof[t] \/ stop[t]
     THEN /\ pc' = [pc EXCEPT ![t] = 5]
          /\ val' = [val EXCEPT ![t] = 0]
     ELSE /\ pc' = [pc EXCEPT ![t] = 1]
          /\ UNCHANGED val
  /\ UNCHANGED <<flow, got, round, timeStamp, source, resampler, written, exited>>

\* thread_stop on the source, from threads_multiple_stop
StopSource(t) ==
  /\ ~exited
  /\ ~stop[t]
  /\ stop' = [stop EXCEPT ![t] = TRUE]
  /\ UNCHANGED <<flow, pc, got, val, round, timeStamp, eof, resampler, written, exited>>

(***************************************************************************)
(* Connectors, modules, injector and sinks: the outputs get the time stamp *)
(* of the inputs, or are zeroed when the input is; a module with several   *)
(* inputs exits the process when their time stamps differ; a sink writes   *)
(* every message but the "0" one.                                          *)
(***************************************************************************)
Mismatch(t) == \E p, q \in Ins[t] : got[t][p] # got[t][q]

Stamp(t) == got[t][CHOOSE p \in Ins[t] : TRUE]

\* Mutant: an output gets the time of the source, not that of the inputs.
RelayProcess_GlobalClock(t) ==
  /\ t \in Relays /\ At(t, "process")
  /\ IF Mismatch(t)
     THEN exited' = TRUE /\ UNCHANGED <<pc, val, round, written>>
     ELSE /\ \E s \in Sources :
               val' = [val EXCEPT ![t] = IF Stamp(t) = 0 THEN 0 ELSE timeStamp[s]]
          /\ written' = IF t \in Sinks /\ Stamp(t) # 0
                        THEN [written EXCEPT ![t] = Append(@, Stamp(t))]
                        ELSE written
          /\ Advance(t)
          /\ UNCHANGED exited
  /\ UNCHANGED <<flow, got, timeStamp, source, resampler>>

\* Mutant: a sink also writes the "0" message.
RelayProcess_WritesLast(t) ==
  /\ t \in Relays /\ At(t, "process")
  /\ IF Mismatch(t)
     THEN exited' = TRUE /\ UNCHANGED <<pc, val, round, written>>
     ELSE /\ val' = [val EXCEPT ![t] = Stamp(t)]
          /\ written' = IF t \in Sinks
                        THEN [written EXCEPT ![t] = Append(@, Stamp(t))]
                        ELSE written
          /\ Advance(t)
          /\ UNCHANGED exited
  /\ UNCHANGED <<flow, got, timeStamp, source, resampler>>

RelayProcess(t) ==
  /\ t \in Relays /\ At(t, "process")
  /\ IF Mismatch(t)
     THEN exited' = TRUE /\ UNCHANGED <<pc, val, round, written>>
     ELSE /\ val' = [val EXCEPT ![t] = Stamp(t)]
          /\ written' = IF t \in Sinks /\ Stamp(t) # 0
                        THEN [written EXCEPT ![t] = Append(@, Stamp(t))]
                        ELSE written
          /\ Advance(t)
          /\ UNCHANGED exited
  /\ UNCHANGED <<flow, got, timeStamp, source, resampler>>

(***************************************************************************)
(* Resampler: mod_resample_process_push then mod_resample_process_pop.     *)
(***************************************************************************)
InStamp(t) == got[t][Ops[t][1].pool]

\* Mutant: a hop is accepted, and lost, when the buffer is full.
PushAccepted_WhenFull(t) == InStamp(t) # 0

\* the buffer and the return value after mod_resample_process_push
PushAccepted(t) == InStamp(t) # 0 /\ ~isFull(Rate[t], intervalSize[t])

SizeAfterPush(t) == IF PushAccepted(t) /\ t \in Enabled
                    THEN AfterPush(Rate[t], intervalSize[t]) ELSE intervalSize[t]

\* whether mod_resample_process_pop, called next, has an output hop
PopAccepted(t) == ~isEmpty(Rate[t], SizeAfterPush(t))

ResampleProcess(t) ==
  /\ t \in Resamplers /\ At(t, "process")
  /\ noMorePush' = [noMorePush EXCEPT ![t] = @ \/ InStamp(t) = 0]
  /\ rtnValuePush' = [rtnValuePush EXCEPT ![t] = IF PushAccepted(t) THEN 0 ELSE -1]
  /\ rtnValuePop' = [rtnValuePop EXCEPT ![t] = IF PopAccepted(t) THEN 0 ELSE -1]
  /\ intervalSize' = [intervalSize EXCEPT ![t] =
                        IF PopAccepted(t) /\ t \in Enabled
                        THEN AfterPop(Rate[t], SizeAfterPush(t))
                        ELSE SizeAfterPush(t)]
  /\ IF PopAccepted(t)
     THEN /\ timeStamp' = [timeStamp EXCEPT ![t] = @ + 1]
          /\ val' = [val EXCEPT ![t] = timeStamp[t] + 1]
     ELSE /\ val' = [val EXCEPT ![t] = IF noMorePush'[t] THEN 0 ELSE @]
          /\ UNCHANGED timeStamp
  /\ pc' = [pc EXCEPT ![t] = IF PushAccepted(t) THEN 4
                             ELSE IF PopAccepted(t) THEN 5 ELSE 6]
  /\ UNCHANGED <<flow, got, round, source, written, exited>>

(***************************************************************************)
(* The specification                                                       *)
(***************************************************************************)
Step(t) == \/ PopFilled(t) \/ PushEmpty(t) \/ PopEmpty(t) \/ PushFilled(t)
           \/ SourceProcess(t) \/ SourceCheck(t) \/ RelayProcess(t)
           \/ ResampleProcess(t)

AllDone == \A t \in Threads : Done(t)

\* threads_multiple_join has returned, or the process is gone
Terminated == (AllDone \/ exited) /\ UNCHANGED vars

Next == \/ \E t \in Threads : Step(t)
        \/ \E t \in Sources : StopSource(t)
        \/ Terminated

Spec == Init /\ [][Next]_vars

\* Every thread is a POSIX thread of its own: one that can run does run.
Fairness == \A t \in Threads : WF_vars(Step(t))

FairSpec == Spec /\ Fairness

(***************************************************************************)
(* Invariants                                                              *)
(***************************************************************************)
TypeOK ==
  /\ filled \in [Pools -> Seq(Nat)]
  /\ empty \in [Pools -> 0 .. nMessages]
  /\ pc \in [Threads -> Nat] /\ \A t \in Threads : pc[t] \in 1 .. Last[t] + 1
  /\ DOMAIN got = Threads /\ \A t \in Threads : got[t] \in [Ins[t] -> Nat]
  /\ val \in [Threads -> Nat]
  /\ round \in [Threads -> Nat]
  /\ timeStamp \in [Sources \cup Resamplers -> Nat]
  /\ eof \in [Sources -> BOOLEAN]
  /\ stop \in [Sources -> BOOLEAN]
  /\ rtnValuePush \in [Resamplers -> {0, -1}]
  /\ rtnValuePop \in [Resamplers -> {0, -1}]
  /\ noMorePush \in [Resamplers -> BOOLEAN]
  /\ intervalSize \in [Resamplers -> Nat]
  /\ written \in [Sinks -> Seq(Nat)]
  /\ exited \in BOOLEAN

\* The messages that a join combines always belong to the same hop, so that
\* "Time stamp mismatch." is never printed and the process never exits:
\* whatever the scheduling, the branches that meet again at mod_sst, mod_sss
\* and mod_classify neither lose, duplicate nor shift a message.
NoTimeStampMismatch == ~exited

\* The pools of which a thread holds a message
Holds(t, p) ==
  IF t \notin Resamplers THEN p \in HeldBefore[t][pc[t]]
  ELSE \/ /\ p = Ops[t][1].pool
          /\ pc[t] \in {2, 3, 4, 6} \/ (pc[t] = 5 /\ rtnValuePush[t] = -1)
       \/ /\ p = Ops[t][2].pool
          /\ pc[t] \in 3 .. 7 \/ (pc[t] = 1 /\ rtnValuePop[t] = -1)

\* Every message object of a pool is in one of its FIFOs or with one thread;
\* none is leaked or handed to two threads, also when a resampler keeps its
\* input or its output over several iterations.
MessagesConserved ==
  \A p \in Pools :
    Len(filled[p]) + empty[p] + Cardinality({t \in Threads : Holds(t, p)}) = nMessages

\* A sink writes hop 1, 2, 3, ... without a gap and never after the "0" message.
SinksInOrder == \A t \in Sinks : \A i \in DOMAIN written[t] : written[t][i] = i

\* When the last thread is done, every sink wrote every hop of its clock and
\* every message object is back in its pool, where amsg_*_destroy frees it.
NothingLeftBehind ==
  AllDone =>
    /\ \A t \in Sinks : \A p \in Ins[t] : Len(written[t]) = timeStamp[Clock[p]]
    /\ \A p \in Pools : empty[p] = nMessages

\* amod_resample_thread leaves its loop when push and pop both return -1.  That
\* must mean the end of the stream, never a full buffer without an output hop.
ResamplerEndsOnlyAtEnd ==
  \A t \in Resamplers : pc[t] \in {6, 7} => noMorePush[t] /\ val[t] = 0

\* A resampler turns n input hops into as many output hops as they hold samples
\* for: no hop is dropped when the buffer is full or when the stream ends.
ResamplerConverts ==
  \A t \in Resamplers \cap Enabled : Done(t) =>
     timeStamp[t] = (round[t] * IntervalIn(Rate[t])) \div IntervalOut(Rate[t])

(***************************************************************************)
(* Refinement, for a network with one source, on whose clock all sinks     *)
(* run: the threads and pools implement an ordered stream without loss.    *)
(***************************************************************************)
src == CHOOSE t \in Sources : TRUE

Stream == INSTANCE HopStream WITH
            produced  <- timeStamp[src],
            ended     <- pc[src] >= 5,
            delivered <- [s \in Sinks |-> Len(written[s])],
            closed    <- [s \in Sinks |-> Done(s)]

\* Each sink writes the hops of the source, all of them and in order.
ImplementsStream == Stream!Spec

(***************************************************************************)
(* Liveness: after the end of the source -- end of file or thread_stop --  *)
(* the "0" message reaches every thread, and threads_multiple_join returns.*)
(***************************************************************************)
Termination == <>AllDone

\* Every sink gets something to write before the stream ends.
SinksAreFed == \A t \in Sinks : <>(written[t] # <<>>)

=============================================================================
