--------------------------- MODULE PipelineProofs ---------------------------
(***************************************************************************)
(* Proofs about Pipeline, for every network that satisfies its three       *)
(* assumptions, every number of messages per pool and all sampling rates.  *)
(* First the steps: types, the end of the resamplers, then                 *)
(* MessagesInPlace, the invariant from which NoTimeStampMismatch and       *)
(* SinksInOrder follow.  Then the pipeline as a whole: no message object   *)
(* is leaked or held twice (MessagesConserved), what is true when the last *)
(* thread is done (NothingLeftBehind, ResamplerConverts), and that the     *)
(* threads and pools together implement the ordered stream of HopStream    *)
(* (ImplementsStream).                                                     *)
(***************************************************************************)
EXTENDS Pipeline, FiniteSetTheorems, TLAPS

(***************************************************************************)
(* The network                                                             *)
(***************************************************************************)
LEMMA KindsDisjoint ==
  /\ Sources \subseteq Threads /\ Resamplers \subseteq Threads
  /\ Relays \subseteq Threads /\ Sinks \subseteq Relays
  /\ Sources \cap Resamplers = {} /\ Sources \cap Relays = {}
  /\ Resamplers \cap Relays = {}
  BY DEF Sources, Resamplers, Relays, Sinks, Kind

PoolOperations == {"filled_pop", "empty_pop", "filled_push", "empty_push"}

\* An operation on a pool is one on a pool of the network, an input when it
\* pops filled messages and an output when it pushes them.
LEMMA OpPool ==
  ASSUME NEW t \in Threads, NEW i \in 1 .. Last[t]
  PROVE  /\ Ops[t][i].do \in PoolOperations => Ops[t][i].pool \in Pools
         /\ Ops[t][i].do = "filled_pop" => Ops[t][i].pool \in Ins[t]
         /\ Ops[t][i].do = "filled_push" => Ops[t][i].pool \in Outs[t]
  <1>1. Ops[t][i].do \in PoolOperations => Ops[t][i].pool \in Touched[t]
    BY LoopsAssumption DEF PoolOperations, Touched
  <1> QED
    BY <1>1 DEF PoolOperations, Pools, Ins, Outs, Does

LEMMA InsOps ==
  ASSUME NEW t \in Threads, NEW p \in Ins[t]
  PROVE  p \in Pools /\ \E i \in 1 .. Last[t] : Does(t, i, "filled_pop", p)
  BY DEF Ins, Pools

LEMMA OutsOps ==
  ASSUME NEW t \in Threads, NEW p \in Outs[t]
  PROVE  p \in Pools /\ \E i \in 1 .. Last[t] : Does(t, i, "filled_push", p)
  BY DEF Outs, Pools

\* Where the threads with a fixed program do what
LEMMA SourceAt ==
  ASSUME NEW t \in Sources, NEW i \in 1 .. Last[t]
  PROVE  /\ Last[t] = 6
         /\ Ops[t][i].do \in {"empty_pop", "process", "filled_push", "check"}
         /\ Ops[t][i].do = "process" <=> i = 2
         /\ Ops[t][i].do = "filled_push" <=> i \in {3, 6}
         /\ Ops[t][i].do = "check" <=> i = 4
  <1>1. Last[t] = 6 /\ SourceLoop(t)
    BY LoopsAssumption DEF SourceLoop
  <1>2. i = 1 \/ i = 2 \/ i = 3 \/ i = 4 \/ i = 5 \/ i = 6
    BY <1>1
  <1> QED
    BY <1>1, <1>2 DEF SourceLoop

LEMMA ResamplerAt ==
  ASSUME NEW t \in Resamplers, NEW i \in 1 .. Last[t]
  PROVE  /\ Last[t] = 7
         /\ Ops[t][i].do \in {"filled_pop", "empty_pop", "process", "empty_push",
                              "filled_push"}
         /\ Ops[t][i].do = "filled_pop" <=> i = 1
         /\ Ops[t][i].do = "empty_pop" <=> i = 2
         /\ Ops[t][i].do = "process" <=> i = 3
         /\ Ops[t][i].do = "empty_push" <=> i \in {4, 6}
         /\ Ops[t][i].do = "filled_push" <=> i \in {5, 7}
  <1>1. Last[t] = 7 /\ ResamplerLoop(t)
    BY LoopsAssumption DEF ResamplerLoop
  <1>2. i = 1 \/ i = 2 \/ i = 3 \/ i = 4 \/ i = 5 \/ i = 6 \/ i = 7
    BY <1>1
  <1> QED
    BY <1>1, <1>2 DEF ResamplerLoop

\* the place of an operation that a relay does
Position(t, do, p) == CHOOSE i \in 1 .. Last[t] : Does(t, i, do, p)

LEMMA RelayPosition ==
  ASSUME NEW t \in Relays, NEW do, NEW p, NEW i \in 1 .. Last[t], Does(t, i, do, p)
  PROVE  Position(t, do, p) = i
  <1>1. \A j \in 1 .. Last[t] : Does(t, j, Ops[t][i].do, Ops[t][i].pool) => j = i
    BY LoopsAssumption DEF RelayLoop
  <1>2. Ops[t][i].do = do /\ Ops[t][i].pool = p
    BY DEF Does
  <1> QED
    BY <1>1, <1>2 DEF Position

(***************************************************************************)
(* hop2hop: a full buffer holds an output hop                              *)
(***************************************************************************)
LEMMA RoundUp ==
  ASSUME NEW x \in Nat, NEW f \in Nat \ {0}
  PROVE  f * ((x + f - 1) \div f) \in Nat /\ f * ((x + f - 1) \div f) >= x
  <1> DEFINE y == x + f - 1
  <1>1. y \in Nat
    OBVIOUS
  <1> HIDE DEF y
  <1>2. f * (y \div f) \in Nat /\ y < f * (y \div f) + f
    BY <1>1, SMTT(30)
  <1>3. f * (y \div f) >= x
    BY <1>1, <1>2 DEF y
  <1> QED
    BY <1>2, <1>3 DEF y

LEMMA FullHasOutput ==
  ASSUME NEW t \in Resamplers, NEW size \in Nat, isFull(Rate[t], size)
  PROVE  ~isEmpty(Rate[t], size)
  <1> DEFINE in  == IntervalIn(Rate[t])
             out == IntervalOut(Rate[t])
             f   == Rate[t].fSout
             twice == IF in >= out THEN 2 * in ELSE 2 * out
  <1>1. in \in Nat /\ out \in Nat /\ f \in Nat \ {0}
    BY SizesAssumption, SMT DEF IntervalIn, IntervalOut
  <1>2. BufferSize(Rate[t]) = f * ((twice + f - 1) \div f)
    BY DEF BufferSize
  <1> HIDE DEF in, out, f
  <1>3. twice \in Nat
    BY <1>1
  <1>4. BufferSize(Rate[t]) \in Nat /\ BufferSize(Rate[t]) >= twice
    BY <1>1, <1>2, <1>3, RoundUp
  <1>5. size + in > BufferSize(Rate[t])
    BY DEF isFull, in
  <1>6. size >= out
    BY <1>1, <1>4, <1>5
  <1> QED
    BY <1>1, <1>6 DEF isEmpty, out

(***************************************************************************)
(* Types                                                                   *)
(***************************************************************************)
LEMMA PcBounds ==
  ASSUME TypeOK, NEW t \in Threads, NEW do, At(t, do)
  PROVE  pc[t] \in 1 .. Last[t] /\ Last[t] \in Nat /\ Ops[t][pc[t]].do = do
  BY LoopsAssumption DEF TypeOK, At, Done, Op

\* Only a source has a "check".
LEMMA CheckIsSource ==
  ASSUME TypeOK, NEW t \in Threads, At(t, "check")
  PROVE  t \in Sources /\ pc[t] = 4 /\ Last[t] = 6
  <1>1. pc[t] \in 1 .. Last[t] /\ Ops[t][pc[t]].do = "check"
    BY PcBounds
  <1>2. t \notin Relays
    BY <1>1, LoopsAssumption DEF RelayLoop
  <1>3. t \notin Resamplers
    BY <1>1, ResamplerAt
  <1>4. t \in Sources
    BY <1>2, <1>3, LoopsAssumption
  <1> QED
    BY <1>1, <1>4, SourceAt

\* Advance moves only t, and within its program.
LEMMA AdvanceType ==
  ASSUME TypeOK, NEW t \in Threads, pc[t] \in 1 .. Last[t], Advance(t)
  PROVE  /\ pc' \in [Threads -> Nat]
         /\ \A u \in Threads : pc'[u] \in 1 .. Last[u] + 1
         /\ round' \in [Threads -> Nat]
  <1>1. Last[t] \in Nat
    BY LoopsAssumption
  <1> DEFINE next == IF t \in Relays THEN RelayNext(t)
                     ELSE IF t \in Resamplers THEN ResamplerNext(t)
                     ELSE pc[t] + 1
  <1>2. next \in 1 .. Last[t] + 1
    <2>1. CASE t \in Relays
      BY <1>1, <2>1 DEF RelayNext
    <2>2. CASE t \in Resamplers
      <3>1. Last[t] = 7
        BY <2>2, LoopsAssumption DEF ResamplerLoop
      <3> QED
        BY <2>2, <3>1, KindsDisjoint DEF ResamplerNext
    <2>3. CASE t \notin Relays /\ t \notin Resamplers
      BY <1>1, <2>3
    <2> QED
      BY <2>1, <2>2, <2>3
  <1>3. pc' = [pc EXCEPT ![t] = next]
    BY DEF Advance
  <1> HIDE DEF next
  <1>4. round' \in [Threads -> Nat]
    BY DEF Advance, TypeOK
  <1>5. next \in Nat
    BY <1>1, <1>2
  <1>6. pc' \in [Threads -> Nat]
    BY <1>3, <1>5 DEF TypeOK
  <1>7. ASSUME NEW u \in Threads
        PROVE  pc'[u] \in 1 .. Last[u] + 1
    BY <1>2, <1>3, <1>7 DEF TypeOK
  <1> QED
    BY <1>4, <1>6, <1>7

LEMMA ResampleSize ==
  ASSUME TypeOK, NEW t \in Resamplers
  PROVE  /\ SizeAfterPush(t) \in Nat
         /\ PopAccepted(t) => AfterPop(Rate[t], SizeAfterPush(t)) \in Nat
  <1>1. intervalSize[t] \in Nat
    BY DEF TypeOK
  <1>2. IntervalIn(Rate[t]) \in Nat /\ IntervalOut(Rate[t]) \in Nat
    BY SizesAssumption, SMT DEF IntervalIn, IntervalOut
  <1>3. SizeAfterPush(t) \in Nat
    BY <1>1, <1>2 DEF SizeAfterPush, AfterPush
  <1> QED
    BY <1>2, <1>3 DEF PopAccepted, AfterPop, isEmpty

LEMMA TypeInit == Init => TypeOK
  <1> SUFFICES ASSUME Init
               PROVE  TypeOK
    OBVIOUS
  <1>1. \A t \in Threads : 1 \in 1 .. Last[t] + 1
    BY LoopsAssumption
  <1>2. /\ pc \in [Threads -> Nat]
        /\ \A t \in Threads : pc[t] \in 1 .. Last[t] + 1
    BY <1>1 DEF Init
  <1>3. /\ filled \in [Pools -> Seq(Nat)]
        /\ written \in [Sinks -> Seq(Nat)]
        /\ empty \in [Pools -> 0 .. nMessages]
    BY SizesAssumption DEF Init
  <1>4. DOMAIN got = Threads /\ \A t \in Threads : got[t] \in [Ins[t] -> Nat]
    BY DEF Init
  <1>5. /\ rtnValuePush \in [Resamplers -> {0, -1}]
        /\ rtnValuePop \in [Resamplers -> {0, -1}]
        /\ noMorePush \in [Resamplers -> BOOLEAN]
        /\ intervalSize \in [Resamplers -> Nat]
        /\ timeStamp \in [Sources \cup Resamplers -> Nat]
    BY DEF Init
  <1>6. /\ val \in [Threads -> Nat] /\ round \in [Threads -> Nat]
        /\ eof \in [Sources -> BOOLEAN] /\ stop \in [Sources -> BOOLEAN]
        /\ exited \in BOOLEAN
    BY DEF Init
  <1> QED
    BY <1>2, <1>3, <1>4, <1>5, <1>6 DEF TypeOK

LEMMA TypeNext == TypeOK /\ [Next]_vars => TypeOK'
  <1> SUFFICES ASSUME TypeOK, [Next]_vars
               PROVE  TypeOK'
    OBVIOUS
  <1> USE KindsDisjoint
  <1>1. ASSUME NEW t \in Threads, PopFilled(t)
        PROVE  TypeOK'
    <2>1. pc[t] \in 1 .. Last[t] /\ Ops[t][pc[t]].do = "filled_pop"
      BY <1>1, PcBounds DEF PopFilled
    <2> DEFINE p == Op(t).pool
    <2>2. p \in Pools /\ p \in Ins[t]
      BY <2>1, OpPool DEF Op, PoolOperations
    <2>3. /\ filled[p] # <<>>
          /\ got' = [got EXCEPT ![t][p] = Head(filled[p])]
          /\ filled' = [filled EXCEPT ![p] = Tail(filled[p])]
          /\ Advance(t)
      BY <1>1 DEF PopFilled
    <2> HIDE DEF p
    <2>4. Head(filled[p]) \in Nat /\ Tail(filled[p]) \in Seq(Nat)
      BY <2>2, <2>3 DEF TypeOK
    <2>5. filled' \in [Pools -> Seq(Nat)]
      BY <2>3, <2>4 DEF TypeOK
    <2>6. DOMAIN got' = Threads /\ \A u \in Threads : got'[u] \in [Ins[u] -> Nat]
      BY <2>2, <2>3, <2>4 DEF TypeOK
    <2>7. UNCHANGED <<empty, val, timeStamp, source, resampler, written, exited>>
      BY <1>1 DEF PopFilled
    <2> QED
      BY <2>1, <2>3, <2>5, <2>6, <2>7, AdvanceType DEF TypeOK, source, resampler
  <1>2. ASSUME NEW t \in Threads, PushEmpty(t)
        PROVE  TypeOK'
    <2>1. pc[t] \in 1 .. Last[t] /\ Ops[t][pc[t]].do = "empty_push"
      BY <1>2, PcBounds DEF PushEmpty
    <2> DEFINE p == Op(t).pool
    <2>2. p \in Pools /\ empty[p] < nMessages /\ empty' = [empty EXCEPT ![p] = @ + 1]
      BY <1>2, <2>1, OpPool DEF Op, PoolOperations, PushEmpty
    <2> HIDE DEF p
    <2>3. empty' \in [Pools -> 0 .. nMessages]
      BY <2>2, SizesAssumption DEF TypeOK
    <2>4. /\ Advance(t)
          /\ UNCHANGED <<filled, got, val, timeStamp, source, resampler, written, exited>>
      BY <1>2 DEF PushEmpty
    <2> QED
      BY <2>1, <2>3, <2>4, AdvanceType DEF TypeOK, source, resampler
  <1>3. ASSUME NEW t \in Threads, PopEmpty(t)
        PROVE  TypeOK'
    <2>1. pc[t] \in 1 .. Last[t] /\ Ops[t][pc[t]].do = "empty_pop"
      BY <1>3, PcBounds DEF PopEmpty
    <2> DEFINE p == Op(t).pool
    <2>2. p \in Pools /\ empty[p] > 0 /\ empty' = [empty EXCEPT ![p] = @ - 1]
      BY <1>3, <2>1, OpPool DEF Op, PoolOperations, PopEmpty
    <2> HIDE DEF p
    <2>3. empty' \in [Pools -> 0 .. nMessages]
      BY <2>2, SizesAssumption DEF TypeOK
    <2>4. /\ Advance(t)
          /\ UNCHANGED <<filled, got, val, timeStamp, source, resampler, written, exited>>
      BY <1>3 DEF PopEmpty
    <2> QED
      BY <2>1, <2>3, <2>4, AdvanceType DEF TypeOK, source, resampler
  <1>4. ASSUME NEW t \in Threads, PushFilled(t)
        PROVE  TypeOK'
    <2>1. pc[t] \in 1 .. Last[t] /\ Ops[t][pc[t]].do = "filled_push"
      BY <1>4, PcBounds DEF PushFilled
    <2> DEFINE p == Op(t).pool
    <2>2. p \in Pools /\ filled' = [filled EXCEPT ![p] = Append(@, val[t])]
      BY <1>4, <2>1, OpPool DEF Op, PoolOperations, PushFilled
    <2> HIDE DEF p
    <2>3. filled' \in [Pools -> Seq(Nat)]
      BY <2>2 DEF TypeOK
    <2>4. /\ Advance(t)
          /\ UNCHANGED <<empty, got, val, timeStamp, source, resampler, written, exited>>
      BY <1>4 DEF PushFilled
    <2> QED
      BY <2>1, <2>3, <2>4, AdvanceType DEF TypeOK, source, resampler
  <1>5. ASSUME NEW t \in Threads, SourceProcess(t)
        PROVE  TypeOK'
    <2>1. t \in Sources /\ pc[t] \in 1 .. Last[t] /\ Advance(t)
      BY <1>5, PcBounds DEF SourceProcess
    <2>2. /\ timeStamp' \in [Sources \cup Resamplers -> Nat]
          /\ val' \in [Threads -> Nat]
          /\ eof' \in [Sources -> BOOLEAN]
      BY <1>5, <2>1 DEF SourceProcess, TypeOK
    <2>3. UNCHANGED <<flow, got, stop, resampler, written, exited>>
      BY <1>5 DEF SourceProcess
    <2> QED
      BY <2>1, <2>2, <2>3, AdvanceType DEF TypeOK, flow, resampler
  <1>6. ASSUME NEW t \in Threads, SourceCheck(t)
        PROVE  TypeOK'
    <2>1. t \in Sources /\ Last[t] = 6
      BY <1>6, CheckIsSource DEF SourceCheck
    <2>2. \E next \in {1, 5}, v \in Nat : pc' = [pc EXCEPT ![t] = next]
                                          /\ val' = [val EXCEPT ![t] = v]
      <3>1. val[t] \in Nat /\ val = [val EXCEPT ![t] = val[t]]
        BY DEF TypeOK
      <3> QED
        BY <1>6, <3>1 DEF SourceCheck
    <2>3. /\ pc' \in [Threads -> Nat]
          /\ \A u \in Threads : pc'[u] \in 1 .. Last[u] + 1
          /\ val' \in [Threads -> Nat]
      BY <2>1, <2>2 DEF TypeOK
    <2>4. UNCHANGED <<flow, got, round, timeStamp, source, resampler, written, exited>>
      BY <1>6 DEF SourceCheck
    <2> QED
      BY <2>3, <2>4 DEF TypeOK, flow, source, resampler
  <1>7. ASSUME NEW t \in Threads, RelayProcess(t)
        PROVE  TypeOK'
    <2>1. /\ t \in Relays /\ pc[t] \in 1 .. Last[t]
          /\ UNCHANGED <<flow, got, timeStamp, source, resampler>>
      BY <1>7, PcBounds DEF RelayProcess
    <2>2. CASE Mismatch(t)
      BY <1>7, <2>1, <2>2 DEF RelayProcess, TypeOK, flow, source, resampler
    <2>3. CASE ~Mismatch(t)
      <3>1. Stamp(t) \in Nat
        BY <2>1, NetworkAssumption DEF TypeOK, Stamp
      <3>2. /\ val' = [val EXCEPT ![t] = Stamp(t)]
            /\ \/ t \in Sinks /\ written' = [written EXCEPT ![t] = Append(@, Stamp(t))]
               \/ written' = written
        BY <1>7, <2>3 DEF RelayProcess
      <3>4. val' \in [Threads -> Nat]
        BY <3>1, <3>2 DEF TypeOK
      <3>5. ASSUME t \in Sinks
            PROVE  Append(written[t], Stamp(t)) \in Seq(Nat)
        BY <3>1, <3>5 DEF TypeOK
      <3>6. written' \in [Sinks -> Seq(Nat)]
        BY <3>2, <3>5 DEF TypeOK
      <3>3. Advance(t) /\ UNCHANGED exited
        BY <1>7, <2>3 DEF RelayProcess
      <3> QED
        BY <2>1, <3>3, <3>4, <3>6, AdvanceType DEF TypeOK, flow, source, resampler
    <2> QED
      BY <2>2, <2>3
  <1>8. ASSUME NEW t \in Threads, ResampleProcess(t)
        PROVE  TypeOK'
    <2>1. t \in Resamplers /\ Last[t] = 7
      BY <1>8, LoopsAssumption DEF ResampleProcess, ResamplerLoop
    <2>2. /\ rtnValuePush' \in [Resamplers -> {0, -1}]
          /\ rtnValuePop' \in [Resamplers -> {0, -1}]
          /\ noMorePush' \in [Resamplers -> BOOLEAN]
      BY <1>8, <2>1 DEF ResampleProcess, TypeOK
    <2>3. intervalSize' \in [Resamplers -> Nat]
      BY <1>8, <2>1, ResampleSize DEF ResampleProcess, TypeOK
    <2>4. timeStamp' \in [Sources \cup Resamplers -> Nat] /\ val' \in [Threads -> Nat]
      <3>1. timeStamp[t] \in Nat /\ val[t] \in Nat
        BY <2>1 DEF TypeOK
      <3>2. \E v \in Nat : val' = [val EXCEPT ![t] = v]
        BY <1>8, <3>1 DEF ResampleProcess
      <3>3. timeStamp' = [timeStamp EXCEPT ![t] = @ + 1] \/ timeStamp' = timeStamp
        BY <1>8 DEF ResampleProcess
      <3>4. val' \in [Threads -> Nat]
        BY <3>2 DEF TypeOK
      <3> QED
        BY <2>1, <3>3, <3>4 DEF TypeOK
    <2>5. /\ pc' \in [Threads -> Nat]
          /\ \A u \in Threads : pc'[u] \in 1 .. Last[u] + 1
      BY <1>8, <2>1 DEF ResampleProcess, TypeOK
    <2>6. UNCHANGED <<flow, got, round, source, written, exited>>
      BY <1>8 DEF ResampleProcess
    <2> QED
      BY <2>2, <2>3, <2>4, <2>5, <2>6 DEF TypeOK, flow, source
  <1>9. ASSUME NEW t \in Sources, StopSource(t)
        PROVE  TypeOK'
    BY <1>9 DEF StopSource, TypeOK, flow, resampler
  <1>10. CASE UNCHANGED vars
    BY <1>10 DEF TypeOK, vars
  <1> QED
    BY <1>1, <1>2, <1>3, <1>4, <1>5, <1>6, <1>7, <1>8, <1>9, <1>10
    DEF Next, Step, Terminated

\* Type correctness, and in particular: a FIFO of filled messages only ever
\* holds time stamps, and no FIFO of empty messages runs below 0 or above the
\* number of messages of its pool.
THEOREM Spec_TypeOK == Spec => []TypeOK
  BY TypeInit, TypeNext, PTL DEF Spec

(***************************************************************************)
(* The resamplers end only at the end of the stream.  Inductive given the  *)
(* types; the argument is FullHasOutput.                                   *)
(***************************************************************************)
LEMMA EndsInit == Init => ResamplerEndsOnlyAtEnd
  BY KindsDisjoint DEF Init, ResamplerEndsOnlyAtEnd

LEMMA EndsNext ==
  TypeOK /\ ResamplerEndsOnlyAtEnd /\ [Next]_vars => ResamplerEndsOnlyAtEnd'
  <1> SUFFICES ASSUME TypeOK, ResamplerEndsOnlyAtEnd, [Next]_vars,
                      NEW r \in Resamplers, pc'[r] \in {6, 7}
               PROVE  noMorePush'[r] /\ val'[r] = 0
    BY DEF ResamplerEndsOnlyAtEnd
  <1>0. r \in Threads /\ r \notin Relays /\ r \notin Sources
    BY KindsDisjoint
  \* the pool operations: pc[r] = 6 before, if it is r that moves
  <1>1. ASSUME pc[r] \in {6, 7} \/ pc'[r] = pc[r],
               UNCHANGED <<val, noMorePush>>
        PROVE  noMorePush'[r] /\ val'[r] = 0
    BY <1>1 DEF ResamplerEndsOnlyAtEnd
  <1>2. ASSUME NEW t \in Threads, pc[t] \in 1 .. Last[t], Advance(t),
               t = r => Ops[t][pc[t]].do # "process"
        PROVE  pc[r] \in {6, 7} \/ pc'[r] = pc[r]
    <2>1. CASE t = r
      <3>1. pc[r] \in 1 .. 7 /\ pc[r] # 3
        BY <1>2, <2>1, ResamplerAt
      <3>2. pc'[r] = ResamplerNext(r)
        BY <1>0, <1>2, <2>1 DEF Advance, TypeOK
      <3> QED
        BY <3>1, <3>2 DEF ResamplerNext
    <2>2. CASE t # r
      BY <1>0, <1>2, <2>2 DEF Advance, TypeOK
    <2> QED
      BY <2>1, <2>2
  <1>3. ASSUME NEW t \in Threads,
               PopFilled(t) \/ PushEmpty(t) \/ PopEmpty(t) \/ PushFilled(t)
        PROVE  noMorePush'[r] /\ val'[r] = 0
    <2>1. PICK do \in PoolOperations : At(t, do)
      BY <1>3 DEF PopFilled, PushEmpty, PopEmpty, PushFilled, PoolOperations
    <2>2. pc[t] \in 1 .. Last[t] /\ Ops[t][pc[t]].do # "process"
      BY <2>1, PcBounds DEF PoolOperations
    <2>3. Advance(t) /\ UNCHANGED <<val, noMorePush>>
      BY <1>3 DEF PopFilled, PushEmpty, PopEmpty, PushFilled, resampler
    <2> QED
      BY <1>1, <1>2, <2>2, <2>3
  \* sources and relays are other threads
  <1>4. ASSUME NEW t \in Threads, SourceProcess(t) \/ SourceCheck(t) \/ RelayProcess(t)
        PROVE  noMorePush'[r] /\ val'[r] = 0
    <2>1. t # r
      BY <1>0, <1>4, CheckIsSource DEF SourceProcess, SourceCheck, RelayProcess
    <2>2. UNCHANGED noMorePush
      BY <1>4 DEF SourceProcess, SourceCheck, RelayProcess, resampler
    <2>3. pc'[r] = pc[r] /\ val'[r] = val[r]
      BY <1>0, <1>4, <2>1 DEF SourceProcess, SourceCheck, RelayProcess, Advance, TypeOK
    <2> QED
      BY <2>2, <2>3 DEF ResamplerEndsOnlyAtEnd
  <1>7. ASSUME NEW t \in Threads, ResampleProcess(t)
        PROVE  noMorePush'[r] /\ val'[r] = 0
    <2>1. CASE t = r
      <3>1. pc'[r] = 6 /\ ~PushAccepted(r) /\ ~PopAccepted(r)
        BY <1>0, <1>7, <2>1 DEF ResampleProcess, TypeOK
      <3>2. intervalSize[r] \in Nat /\ SizeAfterPush(r) = intervalSize[r]
        BY <3>1 DEF TypeOK, SizeAfterPush
      <3>3. InStamp(r) = 0
        BY <3>1, <3>2, FullHasOutput DEF PushAccepted, PopAccepted
      <3>4. noMorePush'[r]
        BY <1>7, <2>1, <3>3 DEF ResampleProcess, TypeOK
      <3>5. val'[r] = 0
        BY <1>0, <1>7, <2>1, <3>1, <3>4 DEF ResampleProcess, TypeOK
      <3> QED
        BY <3>4, <3>5
    <2>2. CASE t # r
      <3>1. /\ pc'[r] = pc[r] /\ val'[r] = val[r]
            /\ noMorePush'[r] = noMorePush[r]
        BY <1>0, <1>7, <2>2 DEF ResampleProcess, TypeOK
      <3> QED
        BY <3>1 DEF ResamplerEndsOnlyAtEnd
    <2> QED
      BY <2>1, <2>2
  <1>8. ASSUME NEW t \in Sources, StopSource(t)
        PROVE  noMorePush'[r] /\ val'[r] = 0
    BY <1>8 DEF StopSource, resampler, ResamplerEndsOnlyAtEnd
  <1>9. CASE UNCHANGED vars
    BY <1>9 DEF vars, ResamplerEndsOnlyAtEnd
  <1> QED
    BY <1>3, <1>4, <1>7, <1>8, <1>9 DEF Next, Step, Terminated

\* amod_resample_thread never leaves its loop because its buffer is full: for
\* all sampling rates and hop sizes, "push and pop both fail" means that the
\* "0" message was taken and every output hop published.
THEOREM Spec_ResamplerEndsOnlyAtEnd == Spec => []ResamplerEndsOnlyAtEnd
  BY Spec_TypeOK, EndsInit, EndsNext, PTL DEF Spec

(***************************************************************************)
(* Every message is in its place.  The k-th message that a pool ever       *)
(* carries has time stamp k, or is the "0" message after the last hop of   *)
(* the clock of the pool; so two pools of a clock agree on their k-th      *)
(* messages, and a join that takes the k-th message of each input sees     *)
(* equal time stamps.  The invariant says which k each message has that a  *)
(* FIFO, a thread's input or a thread's output holds.                      *)
(***************************************************************************)
Bit(b) == IF b THEN 1 ELSE 0

\* c has reached the code after its loop
Ended(c) == IF c \in Sources THEN pc[c] >= 5 ELSE pc[c] >= 6

\* x is the k-th message on clock c
IsMessage(c, k, x) == \/ k \in 1 .. timeStamp[c] /\ x = k
                      \/ Ended(c) /\ k = timeStamp[c] + 1 /\ x = 0

\* t is past place i in the current iteration; it did this operation in it;
\* how often it did it at all
Been(t, i)      == ~Done(t) /\ i < pc[t]
Past(t, do, p)  == Been(t, Position(t, do, p))
Count(t, do, p) == round[t] + Bit(Past(t, do, p))

\* how many messages t published on p
Published(t, p) ==
  IF t \in Sources
  THEN timeStamp[t] - Bit(pc[t] = 3) + Bit(pc[t] = 7)
  ELSE IF t \in Resamplers
  THEN timeStamp[t] - Bit(pc[t] \in {4, 5} /\ rtnValuePop[t] = 0) + Bit(pc[t] = 8)
  ELSE Count(t, "filled_push", p)

\* what a source is about to publish: the hop it stamped last, or the "0" message
SourcesInPlace ==
  \A t \in Sources : /\ pc[t] = 3 => timeStamp[t] > 0 /\ val[t] = timeStamp[t]
                     /\ pc[t] \in {5, 6} => val[t] = 0

\* what a resampler is about to publish: the output hop it stamped last
ResamplersInPlace ==
  \A t \in Resamplers :
    /\ pc[t] \in {4, 5} /\ rtnValuePop[t] = 0 => timeStamp[t] > 0 /\ val[t] = timeStamp[t]
    /\ pc[t] = 5 => rtnValuePop[t] = 0

\* an input that a relay has taken in round k + 1 is the (k + 1)-th message of its pool
InputsInPlace ==
  \A t \in Relays : \A p \in Ins[t] :
    Past(t, "filled_pop", p) => IsMessage(Clock[p], round[t] + 1, got[t][p])

\* and so is, for each of its outputs, the message it has made of its inputs
OutputsInPlace ==
  \A t \in Relays : \A p \in Outs[t] :
    Past(t, "process", "-") => IsMessage(Clock[p], round[t] + 1, val[t])

\* the FIFO of a pool holds the last messages published, in order
FilledInPlace ==
  \A t \in Threads : \A p \in Outs[t] : \A i \in 1 .. Len(filled[p]) :
    IsMessage(Clock[p], Published(t, p) - Len(filled[p]) + i, filled[p][i])

\* what a relay has taken and what is in the FIFO is what has been published
TakenInPlace ==
  \A t \in Threads, u \in Relays : \A p \in Outs[t] \cap Ins[u] :
    Count(u, "filled_pop", p) + Len(filled[p]) = Published(t, p)

\* a sink has written one message a round, but not the "0" one
WrittenInPlace ==
  \A t \in Sinks :
    ~Done(t) => Len(written[t]) = round[t] + Bit(Past(t, "process", "-") /\ val[t] # 0)

MessagesInPlace ==
  /\ SourcesInPlace /\ ResamplersInPlace
  /\ InputsInPlace /\ OutputsInPlace
  /\ FilledInPlace /\ TakenInPlace
  /\ WrittenInPlace /\ SinksInOrder
  /\ NoTimeStampMismatch


LEMMA RelayPlaces ==
  ASSUME NEW t \in Relays
  PROVE  /\ Last[t] \in Nat /\ Position(t, "process", "-") \in 1 .. Last[t] - 1
         /\ \A i \in 1 .. Last[t] :
              Ops[t][i].do = "process" <=> i = Position(t, "process", "-")
         /\ \A p \in Ins[t] :
              /\ Position(t, "filled_pop", p) \in 1 .. Last[t]
              /\ Position(t, "filled_pop", p) < Position(t, "process", "-")
              /\ Does(t, Position(t, "filled_pop", p), "filled_pop", p)
         /\ \A p \in Outs[t] :
              /\ Position(t, "filled_push", p) \in 1 .. Last[t]
              /\ Position(t, "filled_push", p) > Position(t, "process", "-")
              /\ Does(t, Position(t, "filled_push", p), "filled_push", p)
  <1>1. t \in Threads /\ Last[t] \in Nat
    BY LoopsAssumption, KindsDisjoint
  <1>2. PICK m \in 1 .. Last[t] - 1 : \A i \in 1 .. Last[t] :
          /\ Ops[t][i].do = "filled_pop" => i < m
          /\ Ops[t][i].do = "process" <=> i = m
          /\ Ops[t][i].do = "filled_push" => i > m
    BY LoopsAssumption DEF RelayLoop
  <1>3. m \in 1 .. Last[t] /\ Does(t, m, "process", "-")
    <2>1. m \in 1 .. Last[t]
      BY <1>1
    <2>2. Ops[t][m].do = "process"
      BY <1>2, <2>1
    <2>3. Ops[t][m].pool = "-"
      BY <1>1, <2>1, <2>2, LoopsAssumption
    <2> QED
      BY <2>1, <2>2, <2>3 DEF Does
  <1>4. Position(t, "process", "-") = m
    BY <1>3, RelayPosition
  <1>5. ASSUME NEW p \in Ins[t]
        PROVE  /\ Position(t, "filled_pop", p) \in 1 .. Last[t]
               /\ Position(t, "filled_pop", p) < m
               /\ Does(t, Position(t, "filled_pop", p), "filled_pop", p)
    <2>1. PICK i \in 1 .. Last[t] : Does(t, i, "filled_pop", p)
      BY <1>1, InsOps
    <2>2. Position(t, "filled_pop", p) = i
      BY <2>1, RelayPosition
    <2> QED
      BY <1>2, <2>1, <2>2 DEF Does
  <1>6. ASSUME NEW p \in Outs[t]
        PROVE  /\ Position(t, "filled_push", p) \in 1 .. Last[t]
               /\ Position(t, "filled_push", p) > m
               /\ Does(t, Position(t, "filled_push", p), "filled_push", p)
    <2>1. PICK i \in 1 .. Last[t] : Does(t, i, "filled_push", p)
      BY <1>1, OutsOps
    <2>2. Position(t, "filled_push", p) = i
      BY <2>1, RelayPosition
    <2> QED
      BY <1>2, <2>1, <2>2 DEF Does
  <1> QED
    BY <1>1, <1>2, <1>4, <1>5, <1>6

\* A step of a relay adds one to the count of the operation that it does.
LEMMA RelayAdvance ==
  ASSUME TypeOK, NEW t \in Relays, pc[t] \in 1 .. Last[t], Advance(t),
         NEW i \in 1 .. Last[t]
  PROVE  /\ Been(t, i) <=> i < pc[t]
         /\ Been(t, i)' => round'[t] = round[t] /\ (Been(t, i) \/ i = pc[t])
         /\ (round[t] + Bit(Been(t, i)))' = round[t] + Bit(Been(t, i)) + Bit(i = pc[t])
  <1>1. t \in Threads /\ Last[t] \in Nat /\ round[t] \in Nat
    BY LoopsAssumption, KindsDisjoint DEF TypeOK
  <1>2. pc'[t] = RelayNext(t)
    BY <1>1 DEF Advance, TypeOK
  <1>3. round'[t] = IF pc[t] = Last[t] THEN round[t] + 1 ELSE round[t]
    BY <1>1, KindsDisjoint DEF Advance, TypeOK
  <1>4. Been(t, i) <=> i < pc[t]
    BY <1>1 DEF Been, Done
  <1>5. CASE pc[t] < Last[t]
    BY <1>1, <1>2, <1>3, <1>4, <1>5 DEF RelayNext, Been, Done, Bit
  <1>6. CASE pc[t] = Last[t]
    <2>1. ~Been(t, i)'
      BY <1>1, <1>2, <1>6 DEF RelayNext, Been, Done
    <2>2. Been(t, i) <=> i # pc[t]
      BY <1>1, <1>4, <1>6
    <2> QED
      BY <1>1, <1>3, <1>4, <1>6, <2>1, <2>2 DEF Bit
  <1> QED
    BY <1>1, <1>5, <1>6

\* The other threads do not move.
LEMMA OthersStay ==
  ASSUME TypeOK, NEW t \in Threads, Advance(t), NEW u \in Threads \ {t}
  PROVE  pc'[u] = pc[u] /\ round'[u] = round[u]
  BY DEF Advance, TypeOK

\* No clock runs backwards, and none runs on after its "0" message.
LEMMA ClockNext ==
  ASSUME TypeOK, [Next]_vars, NEW c \in Sources \cup Resamplers
  PROVE  /\ timeStamp[c] \in Nat /\ timeStamp'[c] \in Nat
         /\ timeStamp'[c] >= timeStamp[c]
         /\ Ended(c) => Ended(c)' /\ timeStamp'[c] = timeStamp[c]
  <1>0. c \in Threads /\ c \notin Relays /\ timeStamp[c] \in Nat
    BY KindsDisjoint DEF TypeOK
  <1>1. ASSUME NEW t \in Threads, NEW do \in PoolOperations, At(t, do), Advance(t),
               UNCHANGED timeStamp
        PROVE  /\ timeStamp'[c] = timeStamp[c]
               /\ Ended(c) => Ended(c)'
    <2>1. CASE t = c
      <3>1. pc[c] \in 1 .. Last[c] /\ Ops[c][pc[c]].do = do
        BY <1>1, <2>1, PcBounds
      <3>2. CASE c \in Sources
        <4>1. pc'[c] = pc[c] + 1
          BY <1>0, <1>1, <2>1, <3>2, KindsDisjoint DEF Advance, TypeOK
        <4> QED
          BY <1>1, <3>1, <3>2, <4>1, LoopsAssumption DEF Ended
      <3>3. CASE c \in Resamplers
        <4>1. pc'[c] = ResamplerNext(c) /\ c \notin Sources
          BY <1>0, <1>1, <2>1, <3>3, KindsDisjoint DEF Advance, TypeOK
          <4>2. pc[c] \in 1 .. 7
          BY <3>1, <3>3, ResamplerAt
        <4> QED
          BY <1>1, <4>1, <4>2 DEF Ended, ResamplerNext
      <3> QED
        BY <3>2, <3>3
    <2>2. CASE t # c
      BY <1>0, <1>1, <2>2, OthersStay DEF Ended
    <2> QED
      BY <2>1, <2>2
  <1>2. ASSUME NEW t \in Threads, PopFilled(t) \/ PushEmpty(t) \/ PopEmpty(t) \/ PushFilled(t)
        PROVE  /\ timeStamp'[c] = timeStamp[c]
               /\ Ended(c) => Ended(c)'
    <2>1. PICK do \in PoolOperations : At(t, do)
      BY <1>2 DEF PopFilled, PushEmpty, PopEmpty, PushFilled, PoolOperations
    <2>2. Advance(t) /\ UNCHANGED timeStamp
      BY <1>2 DEF PopFilled, PushEmpty, PopEmpty, PushFilled
    <2> QED
      BY <1>1, <2>1, <2>2
  <1>3. ASSUME NEW t \in Threads, SourceProcess(t)
        PROVE  /\ timeStamp'[c] >= timeStamp[c]
               /\ Ended(c) => Ended(c)' /\ timeStamp'[c] = timeStamp[c]
    <2>1. t \in Sources /\ At(t, "process") /\ Advance(t)
      BY <1>3 DEF SourceProcess
    <2>2. pc[t] = 2
      <3>1. pc[t] \in 1 .. Last[t] /\ Ops[t][pc[t]].do = "process"
        BY <2>1, PcBounds
      <3> QED
        BY <2>1, <3>1, SourceAt
    <2>3. timeStamp' = [timeStamp EXCEPT ![t] = @ + 1]
      BY <1>3 DEF SourceProcess
    <2>4. CASE t = c
      <3>1. timeStamp'[c] = timeStamp[c] + 1
        BY <2>3, <2>4 DEF TypeOK
      <3> QED
        BY <1>0, <2>1, <2>2, <2>4, <3>1 DEF Ended
    <2>5. CASE t # c
      <3>1. timeStamp'[c] = timeStamp[c]
        BY <1>0, <2>1, <2>3, <2>5 DEF TypeOK
      <3> QED
        BY <1>0, <2>1, <2>5, <3>1, OthersStay DEF Ended
    <2> QED
      BY <2>4, <2>5
  <1>4. ASSUME NEW t \in Threads, SourceCheck(t)
        PROVE  timeStamp'[c] = timeStamp[c] /\ (Ended(c) => Ended(c)')
    <2>1. t \in Sources /\ pc[t] = 4
      BY <1>4, CheckIsSource DEF SourceCheck
    <2>2. timeStamp' = timeStamp /\ (t # c => pc'[c] = pc[c])
      BY <1>0, <1>4 DEF SourceCheck, TypeOK
    <2> QED
      BY <2>1, <2>2 DEF Ended
  <1>5. ASSUME NEW t \in Threads, RelayProcess(t)
        PROVE  timeStamp'[c] = timeStamp[c] /\ (Ended(c) => Ended(c)')
    <2>1. t # c /\ timeStamp' = timeStamp
      BY <1>0, <1>5 DEF RelayProcess
    <2>2. pc'[c] = pc[c]
      BY <1>0, <1>5, <2>1, OthersStay DEF RelayProcess
    <2> QED
      BY <2>1, <2>2 DEF Ended
  <1>6. ASSUME NEW t \in Threads, ResampleProcess(t)
        PROVE  /\ timeStamp'[c] >= timeStamp[c]
               /\ Ended(c) => Ended(c)' /\ timeStamp'[c] = timeStamp[c]
    <2>0. t \in Resamplers /\ t \notin Sources /\ At(t, "process")
      BY <1>6, KindsDisjoint DEF ResampleProcess
    <2>1. pc[t] = 3
      <3>1. pc[t] \in 1 .. Last[t] /\ Ops[t][pc[t]].do = "process"
        BY <2>0, PcBounds
      <3> QED
        BY <2>0, <3>1, ResamplerAt
    <2>2. t # c => pc'[c] = pc[c]
      BY <1>0, <1>6 DEF ResampleProcess, TypeOK
    <2>3. timeStamp' = [timeStamp EXCEPT ![t] = @ + 1] \/ timeStamp' = timeStamp
      BY <1>6 DEF ResampleProcess
    <2> QED
      BY <1>0, <2>0, <2>1, <2>2, <2>3 DEF Ended, TypeOK
  <1>7. ASSUME NEW t \in Sources, StopSource(t)
        PROVE  timeStamp'[c] = timeStamp[c] /\ (Ended(c) => Ended(c)')
    BY <1>7 DEF StopSource, Ended
  <1>8. CASE UNCHANGED vars
    BY <1>0, <1>8 DEF vars, Ended
  <1>9. timeStamp'[c] \in Nat
    BY TypeNext DEF TypeOK
  <1> QED
    BY <1>0, <1>2, <1>3, <1>4, <1>5, <1>6, <1>7, <1>8, <1>9 DEF Next, Step, Terminated

LEMMA PublishedType ==
  ASSUME TypeOK, NEW w \in Threads, NEW p
  PROVE  Published(w, p) \in Int
  <1>1. round[w] \in Nat /\ (w \in Sources \cup Resamplers => timeStamp[w] \in Nat)
    BY DEF TypeOK
  <1>2. \A b : Bit(b) \in Int
    BY DEF Bit
  <1> QED
    BY <1>1, <1>2 DEF Published, Count

\* What an operation on a pool adds to the two sides of TakenInPlace
LEMMA PublishedAdvance ==
  ASSUME TypeOK, ResamplersInPlace, NEW t \in Threads, NEW do \in PoolOperations,
         At(t, do), Advance(t), UNCHANGED <<timeStamp, rtnValuePop>>,
         NEW w \in Threads, NEW p \in Outs[w]
  PROVE  Published(w, p)' =
           Published(w, p) + Bit(w = t /\ do = "filled_push" /\ p = Op(t).pool)
  <1>0. pc[t] \in 1 .. Last[t] /\ Ops[t][pc[t]].do = do
    BY PcBounds
  <1>1. CASE w # t
    <2>1. pc'[w] = pc[w] /\ round'[w] = round[w]
      BY <1>1, OthersStay
    <2>2. Published(w, p)' = Published(w, p)
      BY <2>1 DEF Published, Count, Past, Been, Done
    <2> QED
      BY <1>1, <2>2, PublishedType DEF Bit
  <1>2. CASE w = t /\ t \in Sources
    <2>0. timeStamp[t] \in Nat /\ pc'[t] = pc[t] + 1
      BY <1>2, KindsDisjoint DEF Advance, TypeOK
    <2>1. /\ pc[t] \in 1 .. 6 /\ pc[t] # 2 /\ pc[t] # 4
          /\ pc[t] \in {3, 6} <=> do = "filled_push"
      BY <1>0, <1>2, SourceAt DEF PoolOperations
    <2>2. pc[t] \in {3, 6} => p = Op(t).pool
      <3>1. PICK i \in 1 .. Last[t] : Does(t, i, "filled_push", p)
        BY <1>2, OutsOps
      <3>2. i \in {3, 6} /\ Ops[t][i].pool = p /\ Ops[t][3].pool = Ops[t][6].pool
        BY <1>2, <3>1, SourceAt, LoopsAssumption DEF Does, SourceLoop
      <3> QED
        BY <3>2 DEF Op
    <2>3. Published(t, p)' = Published(t, p) + Bit(do = "filled_push")
      <3>1. pc[t] = 1 \/ pc[t] = 3 \/ pc[t] = 5 \/ pc[t] = 6
        BY <2>1
      <3>2. (timeStamp[t] - Bit(pc[t] = 3) + Bit(pc[t] = 7))'
              = timeStamp[t] - Bit(pc[t] = 3) + Bit(pc[t] = 7) + Bit(do = "filled_push")
        BY <2>0, <2>1, <3>1 DEF Bit
      <3> QED
        BY <1>2, <3>2 DEF Published
    <2> QED
      BY <1>2, <2>1, <2>2, <2>3 DEF Bit
  <1>3. CASE w = t /\ t \in Resamplers
    <2>0. /\ timeStamp[t] \in Nat /\ pc'[t] = ResamplerNext(t) /\ t \notin Sources
          /\ rtnValuePop[t] \in {0, -1}
      BY <1>3, KindsDisjoint DEF Advance, TypeOK
    <2>1. /\ pc[t] \in 1 .. 7 /\ pc[t] # 3
          /\ pc[t] \in {5, 7} <=> do = "filled_push"
      BY <1>0, <1>3, ResamplerAt DEF PoolOperations
    <2>2. pc[t] \in {5, 7} => p = Op(t).pool
      <3>1. PICK i \in 1 .. Last[t] : Does(t, i, "filled_push", p)
        BY <1>3, OutsOps
      <3>2. i \in {5, 7} /\ Ops[t][i].pool = p /\ Ops[t][5].pool = Ops[t][7].pool
        BY <1>3, <3>1, ResamplerAt, LoopsAssumption DEF Does, ResamplerLoop
      <3> QED
        BY <3>2 DEF Op
    <2>3. pc[t] = 5 => rtnValuePop[t] = 0
      BY <1>3 DEF ResamplersInPlace
    <2>4. Published(t, p)' = Published(t, p) + Bit(do = "filled_push")
      <3>1. pc[t] = 1 \/ pc[t] = 2 \/ pc[t] = 4 \/ pc[t] = 5 \/ pc[t] = 6 \/ pc[t] = 7
        BY <2>1
      <3>2. (timeStamp[t] - Bit(pc[t] \in {4, 5} /\ rtnValuePop[t] = 0) + Bit(pc[t] = 8))'
              = timeStamp[t] - Bit(pc[t] \in {4, 5} /\ rtnValuePop[t] = 0)
                  + Bit(pc[t] = 8) + Bit(do = "filled_push")
        BY <2>0, <2>1, <2>3, <3>1 DEF Bit, ResamplerNext
      <3> QED
        BY <1>3, <2>0, <3>2 DEF Published
    <2> QED
      BY <1>3, <2>1, <2>2, <2>4 DEF Bit
  <1>4. CASE w = t /\ t \in Relays
    <2> DEFINE i == Position(t, "filled_push", p)
    <2>1. i \in 1 .. Last[t] /\ Does(t, i, "filled_push", p)
      BY <1>4, RelayPlaces
    <2>2. i = pc[t] <=> do = "filled_push" /\ p = Op(t).pool
      BY <1>0, <1>4, <2>1, RelayPosition DEF Does, Op
    <2>3. t \notin Sources /\ t \notin Resamplers
      BY <1>4, KindsDisjoint
    <2> QED
      BY <1>0, <1>4, <2>1, <2>2, <2>3, RelayAdvance DEF Published, Count, Past
  <1> QED
    BY <1>1, <1>2, <1>3, <1>4, LoopsAssumption

LEMMA CountAdvance ==
  ASSUME TypeOK, NEW t \in Threads, NEW do, At(t, do), Advance(t),
         NEW u \in Relays, NEW p \in Ins[u]
  PROVE  /\ Count(u, "filled_pop", p)' = Count(u, "filled_pop", p)
                + Bit(u = t /\ do = "filled_pop" /\ p = Op(t).pool)
         /\ Past(u, "filled_pop", p)' =>
              /\ round'[u] = round[u]
              /\ \/ Past(u, "filled_pop", p)
                 \/ u = t /\ do = "filled_pop" /\ p = Op(t).pool
  <1>0. pc[t] \in 1 .. Last[t] /\ Ops[t][pc[t]].do = do /\ u \in Threads
    BY PcBounds, KindsDisjoint
  <1>1. CASE u # t
    <2>1. pc'[u] = pc[u] /\ round'[u] = round[u] /\ round[u] \in Nat
      BY <1>0, <1>1, OthersStay DEF TypeOK
    <2> QED
      BY <1>1, <2>1 DEF Count, Past, Been, Done, Bit
  <1>2. CASE u = t
    <2> DEFINE i == Position(t, "filled_pop", p)
    <2>1. i \in 1 .. Last[t] /\ Does(t, i, "filled_pop", p)
      BY <1>2, RelayPlaces
    <2>2. i = pc[t] <=> do = "filled_pop" /\ p = Op(t).pool
      BY <1>0, <1>2, <2>1, RelayPosition DEF Does, Op
    <2>3. Past(t, "filled_pop", p)' = Been(t, i)' /\ Past(t, "filled_pop", p) = Been(t, i)
      BY DEF Past
    <2>4. /\ Been(t, i)' => round'[t] = round[t] /\ (Been(t, i) \/ i = pc[t])
          /\ (round[t] + Bit(Been(t, i)))' = round[t] + Bit(Been(t, i)) + Bit(i = pc[t])
      BY <1>0, <1>2, <2>1, RelayAdvance
    <2>5. Bit(i = pc[t]) = Bit(u = t /\ do = "filled_pop" /\ p = Op(t).pool)
      BY <1>2, <2>2 DEF Bit
    <2> QED
      BY <1>2, <2>2, <2>3, <2>4, <2>5 DEF Count
  <1> QED
    BY <1>1, <1>2

(***************************************************************************)
(* A pool operation keeps every message in its place.                      *)
(***************************************************************************)
LEMMA PoolClock ==
  ASSUME NEW t \in Threads, NEW p \in Ins[t] \cup Outs[t]
  PROVE  p \in Pools /\ Clock[p] \in Sources \cup Resamplers
  BY InsOps, OutsOps, NetworkAssumption

LEMMA MessageType ==
  ASSUME NEW c, NEW k, NEW x, timeStamp[c] \in Nat, IsMessage(c, k, x)
  PROVE  k \in Nat /\ x \in Nat
  BY DEF IsMessage

LEMMA PoolStepThreads ==
  ASSUME TypeOK, MessagesInPlace, [Next]_vars,
         NEW t \in Threads, NEW do \in PoolOperations, At(t, do), Advance(t),
         UNCHANGED <<val, timeStamp, rtnValuePop, written, exited>>
  PROVE  /\ SourcesInPlace' /\ ResamplersInPlace' /\ OutputsInPlace'
         /\ WrittenInPlace' /\ SinksInOrder' /\ NoTimeStampMismatch'
  <1>0. pc[t] \in 1 .. Last[t] /\ Ops[t][pc[t]].do = do /\ do # "process" /\ do # "check"
    BY PcBounds DEF PoolOperations
  <1>1. ASSUME NEW s \in Sources
        PROVE  /\ pc'[s] = 3 => timeStamp[s] > 0 /\ val[s] = timeStamp[s]
               /\ pc'[s] \in {5, 6} => val[s] = 0
    <2>1. CASE s = t
      <3>1. pc[s] \in 1 .. 6 /\ pc[s] # 2 /\ pc[s] # 4 /\ pc'[s] = pc[s] + 1
        BY <1>0, <2>1, SourceAt, KindsDisjoint DEF Advance, TypeOK
      <3> QED
        BY <3>1 DEF MessagesInPlace, SourcesInPlace
    <2>2. CASE s # t
      BY <2>2, OthersStay, KindsDisjoint DEF MessagesInPlace, SourcesInPlace
    <2> QED
      BY <2>1, <2>2
  <1>2. ASSUME NEW r \in Resamplers
        PROVE  /\ pc'[r] \in {4, 5} /\ rtnValuePop[r] = 0
                    => timeStamp[r] > 0 /\ val[r] = timeStamp[r]
               /\ pc'[r] = 5 => rtnValuePop[r] = 0
    <2>1. CASE r = t
      <3>1. /\ pc[r] \in 1 .. 7 /\ pc[r] # 3 /\ pc'[r] = ResamplerNext(r)
            /\ rtnValuePop[r] \in {0, -1}
        BY <1>0, <2>1, ResamplerAt, KindsDisjoint DEF Advance, TypeOK
      <3> QED
        BY <3>1 DEF MessagesInPlace, ResamplersInPlace, ResamplerNext
    <2>2. CASE r # t
      BY <2>2, OthersStay, KindsDisjoint DEF MessagesInPlace, ResamplersInPlace
    <2> QED
      BY <2>1, <2>2
  \* the place of "process" is not the one that t leaves
  <1>3. ASSUME NEW u \in Relays
        PROVE  /\ Past(u, "process", "-")' =>
                     Past(u, "process", "-") /\ round'[u] = round[u]
               /\ (round[u] + Bit(Past(u, "process", "-")))'
                     = round[u] + Bit(Past(u, "process", "-"))
    <2> DEFINE m == Position(u, "process", "-")
    <2>1. m \in 1 .. Last[u] /\ u \in Threads /\ round[u] \in Nat
      BY RelayPlaces, KindsDisjoint DEF TypeOK
    <2>2. CASE u = t
      <3>1. m # pc[t]
        BY <1>0, <2>2, RelayPlaces
      <3>2. /\ Been(t, m)' => round'[t] = round[t] /\ (Been(t, m) \/ m = pc[t])
            /\ (round[t] + Bit(Been(t, m)))'
                  = round[t] + Bit(Been(t, m)) + Bit(m = pc[t])
        BY <1>0, <2>1, <2>2, RelayAdvance
      <3>3. Bit(m = pc[t]) = 0 /\ round[t] + Bit(Been(t, m)) \in Nat
        BY <2>1, <2>2, <3>1 DEF Bit
      <3> QED
        BY <2>2, <3>1, <3>2, <3>3 DEF Past
    <2>3. CASE u # t
      BY <2>1, <2>3, OthersStay DEF Past, Been, Done, Bit
    <2> QED
      BY <2>2, <2>3
  <1>4. OutputsInPlace'
    <2> SUFFICES ASSUME NEW u \in Relays, NEW p \in Outs[u], Past(u, "process", "-")'
                 PROVE  IsMessage(Clock[p], round[u] + 1, val[u])'
      BY DEF OutputsInPlace
    <2>1. IsMessage(Clock[p], round[u] + 1, val[u]) /\ round'[u] = round[u]
      BY <1>3 DEF MessagesInPlace, OutputsInPlace
    <2>2. Clock[p] \in Sources \cup Resamplers
      BY PoolClock, KindsDisjoint
    <2> QED
      BY <2>1, <2>2, ClockNext DEF IsMessage
  <1>5. WrittenInPlace'
    <2> SUFFICES ASSUME NEW u \in Sinks, ~Done(u)'
                 PROVE  Len(written[u]) =
                          round'[u] + Bit(Past(u, "process", "-")' /\ val[u] # 0)
      BY DEF WrittenInPlace
    <2> DEFINE m == Position(u, "process", "-")
    <2>1. u \in Relays /\ u \in Threads /\ round[u] \in Nat /\ Last[u] \in Nat
      BY KindsDisjoint, LoopsAssumption DEF TypeOK
    <2>2. ~Done(u) => Len(written[u]) =
                        round[u] + Bit(Past(u, "process", "-") /\ val[u] # 0)
      BY DEF MessagesInPlace, WrittenInPlace
    <2>3. CASE u # t
      <3>1. pc'[u] = pc[u] /\ round'[u] = round[u]
        BY <2>1, <2>3, OthersStay
      <3> QED
        BY <2>2, <3>1 DEF Past, Been, Done
    <2>4. CASE u = t
      <3>1. /\ ~Done(u) /\ pc'[u] = RelayNext(u)
            /\ round'[u] = IF pc[u] = Last[u] THEN round[u] + 1 ELSE round[u]
        BY <1>0, <2>1, <2>4, KindsDisjoint DEF Advance, TypeOK, Done
      <3>2. CASE pc[u] < Last[u]
        <4>1. m # pc[u] /\ pc'[u] = pc[u] + 1 /\ round'[u] = round[u]
          BY <1>0, <2>1, <2>4, <3>1, <3>2, RelayPlaces DEF RelayNext
        <4>2. m \in Nat
          BY <2>1, RelayPlaces
        <4>3. Past(u, "process", "-")' <=> Past(u, "process", "-")
          BY <1>0, <2>1, <2>4, <3>2, <4>1, <4>2 DEF Past, Been, Done
        <4> QED
          BY <2>2, <3>1, <4>1, <4>3 DEF Bit
      <3>3. CASE pc[u] = Last[u]
        <4>1. val[u] # 0 /\ pc'[u] = 1 /\ round'[u] = round[u] + 1
          BY <2>1, <3>1, <3>3 DEF RelayNext, Done
        <4>2. ~Past(u, "process", "-")'
          BY <1>3, <2>1, <4>1
        <4>3. Past(u, "process", "-")
          BY <2>1, <3>1, <3>3, RelayPlaces DEF Past, Been
        <4> QED
          BY <2>1, <2>2, <3>1, <4>1, <4>2, <4>3 DEF Bit
      <3> QED
        BY <1>0, <2>1, <2>4, <3>2, <3>3
    <2> QED
      BY <2>3, <2>4
  <1>6. SinksInOrder' /\ NoTimeStampMismatch'
    BY DEF MessagesInPlace, SinksInOrder, NoTimeStampMismatch
  <1>7. SourcesInPlace' /\ ResamplersInPlace'
    BY <1>1, <1>2 DEF SourcesInPlace, ResamplersInPlace
  <1> QED
    BY <1>4, <1>5, <1>6, <1>7

LEMMA PushFilledInPlace ==
  ASSUME TypeOK, MessagesInPlace, ResamplerEndsOnlyAtEnd, [Next]_vars,
         NEW t \in Threads, PushFilled(t)
  PROVE  InputsInPlace' /\ FilledInPlace' /\ TakenInPlace'
  <1> DEFINE p0 == Op(t).pool
  <1>0. /\ At(t, "filled_push") /\ Advance(t) /\ "filled_push" \in PoolOperations
        /\ filled' = [filled EXCEPT ![p0] = Append(@, val[t])]
        /\ UNCHANGED <<got, val, timeStamp, rtnValuePop>>
    BY DEF PushFilled, resampler, PoolOperations
  <1>1. /\ pc[t] \in 1 .. Last[t] /\ Ops[t][pc[t]].do = "filled_push"
        /\ p0 \in Outs[t] /\ p0 \in Pools /\ val[t] \in Nat
    BY <1>0, PcBounds, OpPool DEF Op, TypeOK
  <1>2. filled[p0] \in Seq(Nat)
    BY <1>1 DEF TypeOK
  <1>3. /\ filled'[p0] = Append(filled[p0], val[t])
        /\ \A p \in Pools \ {p0} : filled'[p] = filled[p]
    BY <1>0, <1>1 DEF TypeOK
  <1>4. ASSUME NEW w \in Threads, NEW p \in Outs[w]
        PROVE  /\ p = p0 => w = t /\ Published(w, p)' = Published(w, p) + 1
               /\ p # p0 => Published(w, p)' = Published(w, p)
    <2>1. p = p0 => w = t
      BY <1>1, NetworkAssumption
    <2> QED
      BY <1>0, <2>1, PublishedAdvance, PublishedType DEF Bit, MessagesInPlace
  \* the message pushed is the next one on the clock of the pool
  <1>5. IsMessage(Clock[p0], Published(t, p0) + 1, val[t])
    <2>1. CASE t \in Sources
      <3>1. pc[t] \in {3, 6} /\ timeStamp[t] \in Nat /\ Clock[p0] = t
        <4>1. Clock[p0] = t
          BY <1>1, <2>1, NetworkAssumption
        <4> QED
          BY <1>1, <2>1, <4>1, SourceAt DEF TypeOK
      <3>2. /\ pc[t] = 3 => timeStamp[t] > 0 /\ val[t] = timeStamp[t]
            /\ pc[t] = 6 => val[t] = 0
        BY <2>1 DEF MessagesInPlace, SourcesInPlace
      <3> QED
        BY <2>1, <3>1, <3>2 DEF IsMessage, Published, Ended, Bit
    <2>2. CASE t \in Resamplers
      <3>1. /\ pc[t] \in {5, 7} /\ timeStamp[t] \in Nat /\ Clock[p0] = t
            /\ t \notin Sources
        <4>1. pc[t] \in {5, 7}
          BY <1>1, <2>2, ResamplerAt
        <4> QED
          BY <1>1, <2>2, <4>1, NetworkAssumption, KindsDisjoint DEF TypeOK
      <3>2. /\ pc[t] = 5 => /\ rtnValuePop[t] = 0
                            /\ timeStamp[t] > 0 /\ val[t] = timeStamp[t]
            /\ pc[t] = 7 => val[t] = 0
        BY <2>2 DEF MessagesInPlace, ResamplersInPlace, ResamplerEndsOnlyAtEnd
      <3> QED
        BY <2>2, <3>1, <3>2 DEF IsMessage, Published, Ended, Bit
    <2>3. CASE t \in Relays
      <3> DEFINE i == Position(t, "filled_push", p0)
                 m == Position(t, "process", "-")
      <3>1. i = pc[t]
        BY <1>1, <2>3, RelayPosition DEF Does, Op
      <3>2. ~Past(t, "filled_push", p0)
        BY <1>1, <3>1, LoopsAssumption DEF Past, Been
      <3>3. t \notin Sources /\ t \notin Resamplers /\ round[t] \in Nat
        BY <2>3, KindsDisjoint DEF TypeOK
      <3>4. Published(t, p0) = round[t]
        BY <3>2, <3>3 DEF Published, Count, Bit
      <3>5. m < pc[t]
        BY <1>1, <2>3, <3>1, RelayPlaces
      <3>6. Past(t, "process", "-")
        BY <1>1, <2>3, <3>5, RelayPlaces DEF Past, Been, Done
      <3> QED
        BY <1>1, <2>3, <3>4, <3>6 DEF MessagesInPlace, OutputsInPlace
    <2> QED
      BY <2>1, <2>2, <2>3, LoopsAssumption
  <1> HIDE DEF p0
  <1>6. InputsInPlace'
    <2> SUFFICES ASSUME NEW u \in Relays, NEW p \in Ins[u], Past(u, "filled_pop", p)'
                 PROVE  IsMessage(Clock[p], round[u] + 1, got[u][p])'
      BY DEF InputsInPlace
    <2>1. Past(u, "filled_pop", p) /\ round'[u] = round[u]
      BY <1>0, CountAdvance
    <2>2. IsMessage(Clock[p], round[u] + 1, got[u][p])
      BY <2>1 DEF MessagesInPlace, InputsInPlace
    <2>3. Clock[p] \in Sources \cup Resamplers
      BY PoolClock, KindsDisjoint
    <2> QED
      BY <1>0, <2>1, <2>2, <2>3, ClockNext DEF IsMessage
  <1>7. FilledInPlace'
    <2> SUFFICES ASSUME NEW w \in Threads, NEW p \in Outs[w], NEW i \in 1 .. Len(filled'[p])
                 PROVE  IsMessage(Clock[p], Published(w, p) - Len(filled[p]) + i, filled[p][i])'
      BY DEF FilledInPlace
    <2>1. Clock[p] \in Sources \cup Resamplers /\ p \in Pools
      BY PoolClock
    <2>2. filled[p] \in Seq(Nat) /\ Published(w, p) \in Int
      BY <2>1, PublishedType DEF TypeOK
    <2>3. i \in 1 .. Len(filled[p]) =>
            IsMessage(Clock[p], Published(w, p) - Len(filled[p]) + i, filled[p][i])
      BY DEF MessagesInPlace, FilledInPlace
    <2>4. CASE p # p0
      BY <1>3, <1>4, <2>1, <2>3, <2>4, ClockNext DEF IsMessage
    <2>5. CASE p = p0 /\ i = Len(filled[p]) + 1
      <3>1. /\ filled'[p][i] = val[t] /\ Len(filled'[p]) = i /\ w = t
            /\ Published(w, p)' = Published(t, p0) + 1
        BY <1>2, <1>3, <1>4, <2>5
      <3>2. (Published(w, p) - Len(filled[p]) + i)' = Published(t, p0) + 1
        BY <1>4, <2>2, <2>5, <3>1
      <3> QED
        BY <1>5, <2>1, <2>5, <3>1, <3>2, ClockNext DEF IsMessage
    <2>6. CASE p = p0 /\ i # Len(filled[p]) + 1
      <3>1. /\ i \in 1 .. Len(filled[p]) /\ filled'[p][i] = filled[p][i]
            /\ Len(filled'[p]) = Len(filled[p]) + 1
        BY <1>1, <1>2, <1>3, <2>6
      <3>2. Published(w, p)' = Published(w, p) + 1
        BY <1>4, <2>6
      <3>3. Published(w, p)' - Len(filled'[p]) + i = Published(w, p) - Len(filled[p]) + i
        <4>1. Len(filled[p]) \in Int /\ i \in Int
          BY <2>2, <3>1
        <4>2. \A a, b, c \in Int : (a + 1) - (b + 1) + c = a - b + c
          OBVIOUS
        <4> QED
          BY <2>2, <3>1, <3>2, <4>1, <4>2
      <3> QED
        BY <2>1, <2>3, <3>1, <3>3, ClockNext DEF IsMessage
    <2> QED
      BY <2>4, <2>5, <2>6
  <1>8. TakenInPlace'
    <2> SUFFICES ASSUME NEW w \in Threads, NEW u \in Relays, NEW p \in Outs[w] \cap Ins[u]
                 PROVE  (Count(u, "filled_pop", p) + Len(filled[p]) = Published(w, p))'
      BY DEF TakenInPlace
    <2>1. Count(u, "filled_pop", p)' = Count(u, "filled_pop", p) + 0
      BY <1>0, CountAdvance DEF Bit
    <2>2. Count(u, "filled_pop", p) + Len(filled[p]) = Published(w, p)
      BY DEF MessagesInPlace, TakenInPlace
    <2>3. Count(u, "filled_pop", p) \in Nat /\ p \in Pools
      BY KindsDisjoint, PoolClock DEF TypeOK, Count, Bit
    <2>4. CASE p = p0
      <3>1. Len(filled'[p]) = Len(filled[p]) + 1
        BY <1>1, <1>2, <1>3, <2>4
      <3> QED
        BY <1>2, <1>4, <2>1, <2>2, <2>3, <2>4, <3>1
    <2>5. CASE p # p0
      BY <1>3, <1>4, <2>1, <2>2, <2>3, <2>5
    <2> QED
      BY <2>4, <2>5
  <1> QED
    BY <1>6, <1>7, <1>8

LEMMA TailFacts ==
  ASSUME NEW s \in Seq(Nat), Len(s) > 0
  PROVE  /\ Len(s) \in Int /\ Len(Tail(s)) = Len(s) - 1
         /\ \A i \in 1 .. Len(Tail(s)) : i + 1 \in 1 .. Len(s) /\ Tail(s)[i] = s[i + 1]
  OBVIOUS

LEMMA PopFilledInPlace ==
  ASSUME TypeOK, MessagesInPlace, [Next]_vars, NEW t \in Threads, PopFilled(t)
  PROVE  InputsInPlace' /\ FilledInPlace' /\ TakenInPlace'
  <1> DEFINE p0 == Op(t).pool
  <1>0. /\ At(t, "filled_pop") /\ Advance(t) /\ "filled_pop" \in PoolOperations
        /\ filled[p0] # <<>>
        /\ got' = [got EXCEPT ![t][p0] = Head(filled[p0])]
        /\ filled' = [filled EXCEPT ![p0] = Tail(@)]
        /\ UNCHANGED <<val, timeStamp, rtnValuePop>>
    BY DEF PopFilled, resampler, PoolOperations
  <1>1. /\ pc[t] \in 1 .. Last[t] /\ Ops[t][pc[t]].do = "filled_pop"
        /\ p0 \in Ins[t] /\ p0 \in Pools
    BY <1>0, PcBounds, OpPool DEF Op, PoolOperations
  <1>2. filled[p0] \in Seq(Nat) /\ Len(filled[p0]) > 0
    BY <1>0, <1>1 DEF TypeOK
  <1>3. /\ filled'[p0] = Tail(filled[p0])
        /\ \A p \in Pools \ {p0} : filled'[p] = filled[p]
        /\ got'[t][p0] = filled[p0][1]
        /\ \A u \in Threads : \A p \in Ins[u] : u # t \/ p # p0 => got'[u][p] = got[u][p]
    <2>1. /\ filled'[p0] = Tail(filled[p0])
          /\ \A p \in Pools \ {p0} : filled'[p] = filled[p]
      BY <1>0, <1>1 DEF TypeOK
    <2>2. Head(filled[p0]) = filled[p0][1]
      BY <1>2
    <2> HIDE DEF p0
    <2>3. DOMAIN got = Threads /\ \A u \in Threads : DOMAIN got[u] = Ins[u]
      BY DEF TypeOK
    <2> QED
      BY <1>0, <1>1, <2>1, <2>2, <2>3
  <1>4. ASSUME NEW w \in Threads, NEW p \in Outs[w]
        PROVE  Published(w, p)' = Published(w, p)
    BY <1>0, PublishedAdvance, PublishedType DEF Bit, MessagesInPlace
  <1> HIDE DEF p0
  \* the message popped is the one that t's round asks for
  <1>5. ASSUME t \in Relays
        PROVE  IsMessage(Clock[p0], round[t] + 1, filled[p0][1])
    <2>1. PICK w \in Threads : p0 \in Outs[w]
      BY <1>1, NetworkAssumption
    <2>2. Position(t, "filled_pop", p0) = pc[t]
      BY <1>1, <1>5, RelayPosition DEF Does, Op, p0
    <2>3. ~Past(t, "filled_pop", p0) /\ round[t] \in Nat
      BY <1>1, <2>2, LoopsAssumption DEF Past, Been, TypeOK
    <2>4. Count(t, "filled_pop", p0) = round[t]
      BY <2>3 DEF Count, Bit
    <2>5. round[t] + Len(filled[p0]) = Published(w, p0)
      BY <1>1, <1>5, <2>1, <2>4 DEF MessagesInPlace, TakenInPlace
    <2>6. IsMessage(Clock[p0], Published(w, p0) - Len(filled[p0]) + 1, filled[p0][1])
      BY <1>2, <2>1 DEF MessagesInPlace, FilledInPlace
    <2>7. Published(w, p0) - Len(filled[p0]) + 1 = round[t] + 1
      BY <1>2, <2>3, <2>5
    <2> QED
      BY <2>6, <2>7
  <1>6. InputsInPlace'
    <2> SUFFICES ASSUME NEW u \in Relays, NEW p \in Ins[u], Past(u, "filled_pop", p)'
                 PROVE  IsMessage(Clock[p], round[u] + 1, got[u][p])'
      BY DEF InputsInPlace
    <2>0. u \in Threads
      BY KindsDisjoint
    <2>1. /\ round'[u] = round[u]
          /\ Past(u, "filled_pop", p) \/ (u = t /\ p = p0)
      BY <1>0, CountAdvance DEF p0
    <2>2. Clock[p] \in Sources \cup Resamplers
      BY <2>0, PoolClock
    <2>3. CASE u = t /\ p = p0
      BY <1>3, <1>5, <2>1, <2>2, <2>3, ClockNext DEF IsMessage
    <2>4. CASE u # t \/ p # p0
      <3>1. IsMessage(Clock[p], round[u] + 1, got[u][p])
        BY <2>1, <2>4 DEF MessagesInPlace, InputsInPlace
      <3> QED
        BY <1>3, <2>0, <2>1, <2>2, <2>4, <3>1, ClockNext DEF IsMessage
    <2> QED
      BY <2>3, <2>4
  <1>7. FilledInPlace'
    <2> SUFFICES ASSUME NEW w \in Threads, NEW p \in Outs[w], NEW i \in 1 .. Len(filled'[p])
                 PROVE  IsMessage(Clock[p], Published(w, p) - Len(filled[p]) + i, filled[p][i])'
      BY DEF FilledInPlace
    <2>1. Clock[p] \in Sources \cup Resamplers /\ p \in Pools
      BY PoolClock
    <2>2. \A j \in 1 .. Len(filled[p]) :
            IsMessage(Clock[p], Published(w, p) - Len(filled[p]) + j, filled[p][j])
      BY DEF MessagesInPlace, FilledInPlace
    <2>3. CASE p # p0
      <3>1. IsMessage(Clock[p], Published(w, p) - Len(filled[p]) + i, filled[p][i])
        BY <1>3, <2>1, <2>2, <2>3
      <3> QED
        BY <1>3, <1>4, <2>1, <2>3, <3>1, ClockNext DEF IsMessage
    <2>4. CASE p = p0
      <3>0. filled'[p] = Tail(filled[p]) /\ filled[p] \in Seq(Nat) /\ Len(filled[p]) > 0
        BY <1>2, <1>3, <2>4
      <3>1. /\ i + 1 \in 1 .. Len(filled[p]) /\ filled'[p][i] = filled[p][i + 1]
            /\ Len(filled'[p]) = Len(filled[p]) - 1
            /\ i \in Int /\ Len(filled[p]) \in Int
        BY <3>0, TailFacts
      <3>2. IsMessage(Clock[p], Published(w, p) - Len(filled[p]) + (i + 1), filled[p][i + 1])
        BY <2>2, <3>1
      <3>3. Published(w, p)' - Len(filled'[p]) + i = Published(w, p) - Len(filled[p]) + (i + 1)
        <4>1. \A a, b, c \in Int : a - (b - 1) + c = a - b + (c + 1)
          OBVIOUS
        <4>2. Published(w, p)' = Published(w, p) /\ Published(w, p) \in Int
          BY <1>4, PublishedType
        <4>3. Published(w, p)' - Len(filled'[p]) + i
                = Published(w, p) - (Len(filled[p]) - 1) + i
          BY <3>1, <4>2
        <4>4. Published(w, p) - (Len(filled[p]) - 1) + i
                = Published(w, p) - Len(filled[p]) + (i + 1)
          BY <3>1, <4>1, <4>2
        <4> QED
          BY <4>3, <4>4
      <3> QED
        BY <2>1, <3>1, <3>2, <3>3, ClockNext DEF IsMessage
    <2> QED
      BY <2>3, <2>4
  <1>8. TakenInPlace'
    <2> SUFFICES ASSUME NEW w \in Threads, NEW u \in Relays, NEW p \in Outs[w] \cap Ins[u]
                 PROVE  (Count(u, "filled_pop", p) + Len(filled[p]) = Published(w, p))'
      BY DEF TakenInPlace
    <2>1. Count(u, "filled_pop", p)' = Count(u, "filled_pop", p) + Bit(u = t /\ p = p0)
      BY <1>0, CountAdvance DEF p0
    <2>2. Count(u, "filled_pop", p) + Len(filled[p]) = Published(w, p)
      BY DEF MessagesInPlace, TakenInPlace
    <2>3. u \in Threads /\ Count(u, "filled_pop", p) \in Nat /\ p \in Pools
      BY KindsDisjoint, PoolClock DEF TypeOK, Count, Bit
    <2>4. CASE p = p0
      <3>1. u = t
        BY <1>1, <2>3, <2>4, NetworkAssumption
      <3>2. Len(filled'[p]) = Len(filled[p]) - 1 /\ Len(filled[p]) \in Int
        BY <1>2, <1>3, <2>4, TailFacts
      <3>3. Count(u, "filled_pop", p)' = Count(u, "filled_pop", p) + 1
        BY <2>1, <2>4, <3>1 DEF Bit
      <3> QED
        BY <1>4, <2>2, <2>3, <3>2, <3>3
    <2>5. CASE p # p0
      BY <1>3, <1>4, <2>1, <2>2, <2>3, <2>5 DEF Bit
    <2> QED
      BY <2>4, <2>5
  <1> QED
    BY <1>6, <1>7, <1>8

(***************************************************************************)
(* So do the steps that process or check: they leave the pools alone, and  *)
(* what they change is a clock, an output or, in a sink, what is written.  *)
(***************************************************************************)
LEMMA QuietStep ==
  ASSUME TypeOK, MessagesInPlace, [Next]_vars, UNCHANGED <<filled, got>>,
         \A w \in Threads : \A p \in Outs[w] : Published(w, p)' = Published(w, p),
         \A u \in Relays : \A p \in Ins[u] :
           /\ Count(u, "filled_pop", p)' = Count(u, "filled_pop", p)
           /\ Past(u, "filled_pop", p)' =>
                 Past(u, "filled_pop", p) /\ round'[u] = round[u]
  PROVE  InputsInPlace' /\ FilledInPlace' /\ TakenInPlace'
  <1>1. InputsInPlace'
    <2> SUFFICES ASSUME NEW u \in Relays, NEW p \in Ins[u], Past(u, "filled_pop", p)'
                 PROVE  IsMessage(Clock[p], round[u] + 1, got[u][p])'
      BY DEF InputsInPlace
    <2>1. IsMessage(Clock[p], round[u] + 1, got[u][p]) /\ round'[u] = round[u]
      BY DEF MessagesInPlace, InputsInPlace
    <2>2. Clock[p] \in Sources \cup Resamplers
      BY PoolClock, KindsDisjoint
    <2> QED
      BY <2>1, <2>2, ClockNext DEF IsMessage
  <1>2. FilledInPlace'
    <2> SUFFICES ASSUME NEW w \in Threads, NEW p \in Outs[w], NEW i \in 1 .. Len(filled[p])
                 PROVE  IsMessage(Clock[p], Published(w, p) - Len(filled[p]) + i, filled[p][i])'
      BY DEF FilledInPlace
    <2>1. IsMessage(Clock[p], Published(w, p) - Len(filled[p]) + i, filled[p][i])
      BY DEF MessagesInPlace, FilledInPlace
    <2>2. Clock[p] \in Sources \cup Resamplers
      BY PoolClock
    <2> QED
      BY <2>1, <2>2, ClockNext DEF IsMessage
  <1>3. TakenInPlace'
    BY DEF MessagesInPlace, TakenInPlace
  <1> QED
    BY <1>1, <1>2, <1>3

LEMMA EmptyOperationInPlace ==
  ASSUME TypeOK, MessagesInPlace, [Next]_vars,
         NEW t \in Threads, PushEmpty(t) \/ PopEmpty(t)
  PROVE  InputsInPlace' /\ FilledInPlace' /\ TakenInPlace'
  <1>1. PICK do \in {"empty_push", "empty_pop"} : At(t, do)
    BY DEF PushEmpty, PopEmpty
  <1>2. Advance(t) /\ UNCHANGED <<filled, got, timeStamp, rtnValuePop>>
    BY DEF PushEmpty, PopEmpty, resampler
  <1>3. ASSUME NEW w \in Threads, NEW p \in Outs[w]
        PROVE  Published(w, p)' = Published(w, p)
    BY <1>1, <1>2, PublishedAdvance, PublishedType DEF Bit, MessagesInPlace, PoolOperations
  <1>4. ASSUME NEW u \in Relays, NEW p \in Ins[u]
        PROVE  /\ Count(u, "filled_pop", p)' = Count(u, "filled_pop", p)
               /\ Past(u, "filled_pop", p)' =>
                     Past(u, "filled_pop", p) /\ round'[u] = round[u]
    <2>1. Count(u, "filled_pop", p) \in Nat
      BY KindsDisjoint DEF TypeOK, Count, Bit
    <2> QED
      BY <1>1, <1>2, <2>1, CountAdvance DEF Bit
  <1> QED
    BY <1>2, <1>3, <1>4, QuietStep

\* what neither moves a relay nor touches the pools
LEMMA OffPoolsInPlace ==
  ASSUME TypeOK, MessagesInPlace, [Next]_vars, UNCHANGED <<filled, got, written, exited>>,
         \A w \in Threads : \A p \in Outs[w] : Published(w, p)' = Published(w, p),
         \A u \in Relays : pc'[u] = pc[u] /\ round'[u] = round[u] /\ val'[u] = val[u]
  PROVE  /\ InputsInPlace' /\ FilledInPlace' /\ TakenInPlace' /\ OutputsInPlace'
         /\ WrittenInPlace' /\ SinksInOrder' /\ NoTimeStampMismatch'
  <1>1. InputsInPlace' /\ FilledInPlace' /\ TakenInPlace'
    <2>1. ASSUME NEW u \in Relays, NEW p \in Ins[u]
          PROVE  /\ Count(u, "filled_pop", p)' = Count(u, "filled_pop", p)
                 /\ Past(u, "filled_pop", p)' =>
                       Past(u, "filled_pop", p) /\ round'[u] = round[u]
      BY DEF Count, Past, Been, Done
    <2> QED
      BY <2>1, QuietStep
  <1>2. OutputsInPlace'
    <2> SUFFICES ASSUME NEW u \in Relays, NEW p \in Outs[u], Past(u, "process", "-")'
                 PROVE  IsMessage(Clock[p], round[u] + 1, val[u])'
      BY DEF OutputsInPlace
    <2>1. Past(u, "process", "-")
      BY DEF Past, Been, Done
    <2>2. IsMessage(Clock[p], round[u] + 1, val[u])
      BY <2>1 DEF MessagesInPlace, OutputsInPlace
    <2>3. Clock[p] \in Sources \cup Resamplers
      BY PoolClock, KindsDisjoint
    <2> QED
      BY <2>2, <2>3, ClockNext DEF IsMessage
  <1>3. WrittenInPlace' /\ SinksInOrder'
    <2>1. \A u \in Sinks : u \in Relays
      BY KindsDisjoint
    <2> QED
      BY <2>1 DEF MessagesInPlace, WrittenInPlace, SinksInOrder, Past, Been, Done
  <1> QED
    BY <1>1, <1>2, <1>3 DEF MessagesInPlace, NoTimeStampMismatch

LEMMA SourceProcessInPlace ==
  ASSUME TypeOK, MessagesInPlace, [Next]_vars, NEW t \in Threads, SourceProcess(t)
  PROVE  MessagesInPlace'
  <1>0. /\ t \in Sources /\ At(t, "process") /\ Advance(t)
        /\ timeStamp' = [timeStamp EXCEPT ![t] = @ + 1]
        /\ val' = [val EXCEPT ![t] = timeStamp[t] + 1]
        /\ UNCHANGED <<filled, got, rtnValuePop, written, exited>>
    BY DEF SourceProcess, flow, resampler
  <1>1. pc[t] = 2 /\ pc'[t] = 3 /\ timeStamp[t] \in Nat
    <2>1. pc[t] \in 1 .. Last[t] /\ Ops[t][pc[t]].do = "process"
      BY <1>0, PcBounds
    <2>2. pc[t] = 2
      BY <1>0, <2>1, SourceAt
    <2> QED
      BY <1>0, <2>2, KindsDisjoint DEF Advance, TypeOK
  <1>2. /\ timeStamp'[t] = timeStamp[t] + 1 /\ val'[t] = timeStamp[t] + 1
        /\ \A u \in Threads \ {t} : val'[u] = val[u] /\ pc'[u] = pc[u] /\ round'[u] = round[u]
        /\ \A c \in Sources \cup Resamplers : c # t => timeStamp'[c] = timeStamp[c]
    BY <1>0, OthersStay DEF TypeOK
  <1>3. ASSUME NEW w \in Threads, NEW p \in Outs[w]
        PROVE  Published(w, p)' = Published(w, p)
    <2>1. CASE w = t
      BY <1>0, <1>1, <1>2, <2>1 DEF Published, Bit
    <2>2. CASE w # t
      BY <1>0, <1>2, <2>2 DEF Published, Count, Past, Been, Done
    <2> QED
      BY <2>1, <2>2
  <1>4. ASSUME NEW u \in Relays
        PROVE  pc'[u] = pc[u] /\ round'[u] = round[u] /\ val'[u] = val[u]
    BY <1>0, <1>2, KindsDisjoint
  <1>5. SourcesInPlace'
    <2> SUFFICES ASSUME NEW s \in Sources
                 PROVE  /\ pc'[s] = 3 => timeStamp'[s] > 0 /\ val'[s] = timeStamp'[s]
                        /\ pc'[s] \in {5, 6} => val'[s] = 0
      BY DEF SourcesInPlace
    <2>1. CASE s = t
      BY <1>1, <1>2, <2>1
    <2>2. CASE s # t
      BY <1>2, <2>2, KindsDisjoint DEF MessagesInPlace, SourcesInPlace
    <2> QED
      BY <2>1, <2>2
  <1>6. ResamplersInPlace'
    <2>1. \A r \in Resamplers : r # t /\ r \in Threads
      BY <1>0, KindsDisjoint
    <2> QED
      BY <1>0, <1>2, <2>1 DEF MessagesInPlace, ResamplersInPlace
  <1> QED
    BY <1>0, <1>3, <1>4, <1>5, <1>6, OffPoolsInPlace DEF MessagesInPlace

LEMMA SourceCheckInPlace ==
  ASSUME TypeOK, MessagesInPlace, [Next]_vars, NEW t \in Threads, SourceCheck(t)
  PROVE  MessagesInPlace'
  <1>0. /\ t \in Sources /\ pc[t] = 4
        /\ UNCHANGED <<filled, got, round, timeStamp, rtnValuePop, written, exited>>
    BY CheckIsSource DEF SourceCheck, flow, resampler
  <1>1. pc'[t] = 1 \/ (pc'[t] = 5 /\ val'[t] = 0)
    BY <1>0 DEF SourceCheck, TypeOK
  <1>2. \A u \in Threads \ {t} : val'[u] = val[u] /\ pc'[u] = pc[u]
    BY DEF SourceCheck, TypeOK
  <1>3. ASSUME NEW w \in Threads, NEW p \in Outs[w]
        PROVE  Published(w, p)' = Published(w, p)
    <2>1. CASE w = t
      BY <1>0, <1>1, <2>1 DEF Published, Bit
    <2>2. CASE w # t
      BY <1>0, <1>2, <2>2 DEF Published, Count, Past, Been, Done
    <2> QED
      BY <2>1, <2>2
  <1>4. ASSUME NEW u \in Relays
        PROVE  pc'[u] = pc[u] /\ round'[u] = round[u] /\ val'[u] = val[u]
    BY <1>0, <1>2, KindsDisjoint
  <1>5. SourcesInPlace'
    <2> SUFFICES ASSUME NEW s \in Sources
                 PROVE  /\ pc'[s] = 3 => timeStamp'[s] > 0 /\ val'[s] = timeStamp'[s]
                        /\ pc'[s] \in {5, 6} => val'[s] = 0
      BY DEF SourcesInPlace
    <2>1. CASE s = t
      BY <1>1, <2>1
    <2>2. CASE s # t
      BY <1>0, <1>2, <2>2, KindsDisjoint DEF MessagesInPlace, SourcesInPlace
    <2> QED
      BY <2>1, <2>2
  <1>6. ResamplersInPlace'
    <2>1. \A r \in Resamplers : r # t /\ r \in Threads
      BY <1>0, KindsDisjoint
    <2> QED
      BY <1>0, <1>2, <2>1 DEF MessagesInPlace, ResamplersInPlace
  <1> QED
    BY <1>0, <1>3, <1>4, <1>5, <1>6, OffPoolsInPlace DEF MessagesInPlace

LEMMA ResampleProcessInPlace ==
  ASSUME TypeOK, MessagesInPlace, [Next]_vars, NEW t \in Threads, ResampleProcess(t)
  PROVE  MessagesInPlace'
  <1>0. /\ t \in Resamplers /\ t \notin Sources /\ At(t, "process")
        /\ UNCHANGED <<filled, got, round, written, exited>>
    BY KindsDisjoint DEF ResampleProcess, flow
  <1>1. pc[t] = 3
    <2>1. pc[t] \in 1 .. Last[t] /\ Ops[t][pc[t]].do = "process"
      BY <1>0, PcBounds
    <2> QED
      BY <1>0, <2>1, ResamplerAt
  <1>2. /\ \A u \in Threads \ {t} : val'[u] = val[u] /\ pc'[u] = pc[u]
        /\ \A r \in Resamplers \ {t} : rtnValuePop'[r] = rtnValuePop[r]
        /\ \A c \in Sources \cup Resamplers : c # t => timeStamp'[c] = timeStamp[c]
    <2>1. /\ \E x : pc' = [pc EXCEPT ![t] = x]
          /\ \E x : rtnValuePop' = [rtnValuePop EXCEPT ![t] = x]
          /\ \E x : val' = [val EXCEPT ![t] = x]
          /\ \/ timeStamp' = [timeStamp EXCEPT ![t] = @ + 1]
             \/ timeStamp' = timeStamp
      BY DEF ResampleProcess
    <2> QED
      BY <2>1 DEF TypeOK
  \* an output hop is stamped with the time it has been counted with
  <1>3. \/ /\ rtnValuePop'[t] = 0 /\ pc'[t] \in {4, 5}
           /\ timeStamp'[t] = timeStamp[t] + 1 /\ val'[t] = timeStamp[t] + 1
        \/ /\ rtnValuePop'[t] = -1 /\ pc'[t] \in {4, 6}
           /\ timeStamp'[t] = timeStamp[t]
    <2>1. pc'[t] = IF PushAccepted(t) THEN 4 ELSE IF PopAccepted(t) THEN 5 ELSE 6
      BY DEF ResampleProcess, TypeOK
    <2>2. rtnValuePop'[t] = IF PopAccepted(t) THEN 0 ELSE -1
      BY <1>0 DEF ResampleProcess, TypeOK
    <2>3. CASE PopAccepted(t)
      <3>1. timeStamp'[t] = timeStamp[t] + 1 /\ val'[t] = timeStamp[t] + 1
        BY <1>0, <2>3 DEF ResampleProcess, TypeOK
      <3> QED
        BY <2>1, <2>2, <2>3, <3>1
    <2>4. CASE ~PopAccepted(t)
      <3>1. timeStamp'[t] = timeStamp[t]
        BY <2>4 DEF ResampleProcess
      <3> QED
        BY <2>1, <2>2, <2>4, <3>1
    <2> QED
      BY <2>3, <2>4
  <1>4. timeStamp[t] \in Nat
    BY <1>0 DEF TypeOK
  <1>5. ASSUME NEW w \in Threads, NEW p \in Outs[w]
        PROVE  Published(w, p)' = Published(w, p)
    <2>1. CASE w = t
      BY <1>0, <1>1, <1>3, <1>4, <2>1 DEF Published, Bit
    <2>2. CASE w # t
      BY <1>0, <1>2, <2>2 DEF Published, Count, Past, Been, Done
    <2> QED
      BY <2>1, <2>2
  <1>6. ASSUME NEW u \in Relays
        PROVE  pc'[u] = pc[u] /\ round'[u] = round[u] /\ val'[u] = val[u]
    BY <1>0, <1>2, KindsDisjoint
  <1>7. SourcesInPlace'
    <2>1. \A s \in Sources : s # t /\ s \in Threads
      BY <1>0, KindsDisjoint
    <2> QED
      BY <1>0, <1>2, <2>1 DEF MessagesInPlace, SourcesInPlace
  <1>8. ResamplersInPlace'
    <2> SUFFICES ASSUME NEW r \in Resamplers
                 PROVE  /\ pc'[r] \in {4, 5} /\ rtnValuePop'[r] = 0
                             => timeStamp'[r] > 0 /\ val'[r] = timeStamp'[r]
                        /\ pc'[r] = 5 => rtnValuePop'[r] = 0
      BY DEF ResamplersInPlace
    <2>1. CASE r = t
      BY <1>3, <1>4, <2>1
    <2>2. CASE r # t
      BY <1>2, <2>2, KindsDisjoint DEF MessagesInPlace, ResamplersInPlace
    <2> QED
      BY <2>1, <2>2
  <1> QED
    BY <1>0, <1>5, <1>6, <1>7, <1>8, OffPoolsInPlace DEF MessagesInPlace

\* The inputs of a relay that is about to process have the same time stamp.
LEMMA InputsAgree ==
  ASSUME TypeOK, MessagesInPlace, NEW t \in Relays, At(t, "process")
  PROVE  /\ ~Mismatch(t)
         /\ \A p \in Ins[t] \cup Outs[t] : IsMessage(Clock[p], round[t] + 1, Stamp(t))
  <1>1. t \in Threads /\ pc[t] = Position(t, "process", "-")
    BY PcBounds, RelayPlaces, KindsDisjoint
  <1>2. ASSUME NEW p \in Ins[t]
        PROVE  /\ IsMessage(Clock[p], round[t] + 1, got[t][p])
               /\ timeStamp[Clock[p]] \in Nat
    <2>1. Past(t, "filled_pop", p)
      BY <1>1, RelayPlaces DEF Past, Been, At
    <2> QED
      BY <1>1, <2>1, PoolClock DEF MessagesInPlace, InputsInPlace, TypeOK
  <1>3. ASSUME NEW p \in Ins[t], NEW q \in Ins[t]
        PROVE  got[t][p] = got[t][q]
    <2>1. Clock[p] = Clock[q]
      BY NetworkAssumption
    <2> QED
      BY <1>2, <2>1 DEF IsMessage
  <1>0. Ins[t] # {}
    BY NetworkAssumption
  <1>4. PICK q \in Ins[t] : Stamp(t) = got[t][q]
    BY <1>0 DEF Stamp
  <1>5. ASSUME NEW p \in Ins[t] \cup Outs[t]
        PROVE  IsMessage(Clock[p], round[t] + 1, Stamp(t))
    <2>1. Clock[p] = Clock[q]
      BY NetworkAssumption
    <2> QED
      BY <1>2, <1>4, <2>1
  <1> QED
    BY <1>3, <1>5 DEF Mismatch

LEMMA RelayProcessInPlace ==
  ASSUME TypeOK, MessagesInPlace, [Next]_vars, NEW t \in Threads, RelayProcess(t)
  PROVE  MessagesInPlace'
  <1> DEFINE m == Position(t, "process", "-")
  <1>0. t \in Relays /\ At(t, "process") /\ ~Mismatch(t)
    BY InputsAgree DEF RelayProcess
  <1>1. /\ Advance(t) /\ val' = [val EXCEPT ![t] = Stamp(t)]
        /\ written' = IF t \in Sinks /\ Stamp(t) # 0
                      THEN [written EXCEPT ![t] = Append(@, Stamp(t))] ELSE written
        /\ UNCHANGED <<filled, got, timeStamp, rtnValuePop, exited>>
    BY <1>0 DEF RelayProcess, flow, resampler
  <1>2. /\ pc[t] = m /\ m \in 1 .. Last[t] - 1 /\ Last[t] \in Nat
        /\ pc'[t] = m + 1 /\ round'[t] = round[t] /\ round[t] \in Nat
        /\ val'[t] = Stamp(t)
    <2>1. pc[t] \in 1 .. Last[t] /\ Ops[t][pc[t]].do = "process"
      BY <1>0, PcBounds
    <2>2. pc[t] = m /\ m \in 1 .. Last[t] - 1 /\ Last[t] \in Nat
      BY <1>0, <2>1, RelayPlaces
    <2>3. pc'[t] = RelayNext(t) /\ val'[t] = Stamp(t) /\ round[t] \in Nat
      BY <1>0, <1>1 DEF Advance, TypeOK
    <2>4. round'[t] = round[t]
      BY <1>0, <1>1, <2>2, KindsDisjoint DEF Advance
    <2> QED
      BY <2>2, <2>3, <2>4 DEF RelayNext
  <1>3. \A u \in Threads \ {t} : val'[u] = val[u] /\ pc'[u] = pc[u] /\ round'[u] = round[u]
    BY <1>1, OthersStay DEF TypeOK
  <1>4. Past(t, "process", "-")' /\ ~Past(t, "process", "-")
    BY <1>2 DEF Past, Been, Done
  <1> HIDE DEF m
  <1>5. ASSUME NEW w \in Threads, NEW p \in Outs[w]
        PROVE  Published(w, p)' = Published(w, p)
    <2>1. CASE w = t
      <3>1. ~Past(t, "filled_push", p) /\ ~Past(t, "filled_push", p)'
        BY <1>0, <1>2, <2>1, RelayPlaces DEF Past, Been, m
      <3>2. Count(t, "filled_push", p)' = Count(t, "filled_push", p)
        BY <1>2, <3>1 DEF Count, Bit
      <3> QED
        BY <1>0, <2>1, <3>2, KindsDisjoint DEF Published
    <2>2. CASE w # t
      BY <1>1, <1>3, <2>2 DEF Published, Count, Past, Been, Done
    <2> QED
      BY <2>1, <2>2
  <1>6. InputsInPlace' /\ FilledInPlace' /\ TakenInPlace'
    <2>1. ASSUME NEW u \in Relays, NEW p \in Ins[u]
          PROVE  /\ Count(u, "filled_pop", p)' = Count(u, "filled_pop", p)
                 /\ Past(u, "filled_pop", p)' =>
                       Past(u, "filled_pop", p) /\ round'[u] = round[u]
      <3>1. Count(u, "filled_pop", p) \in Nat
        BY KindsDisjoint DEF TypeOK, Count, Bit
      <3> QED
        BY <1>0, <1>1, <3>1, CountAdvance DEF Bit
    <2> QED
      BY <1>1, <1>5, <2>1, QuietStep
  <1>7. OutputsInPlace'
    <2> SUFFICES ASSUME NEW u \in Relays, NEW p \in Outs[u], Past(u, "process", "-")'
                 PROVE  IsMessage(Clock[p], round[u] + 1, val[u])'
      BY DEF OutputsInPlace
    <2>1. u \in Threads /\ Clock[p] \in Sources \cup Resamplers
      BY PoolClock, KindsDisjoint
    <2>2. CASE u = t
      BY <1>0, <1>2, <2>1, <2>2, InputsAgree, ClockNext DEF IsMessage
    <2>3. CASE u # t
      <3>1. Past(u, "process", "-")
        BY <1>3, <2>1, <2>3 DEF Past, Been, Done
      <3>2. IsMessage(Clock[p], round[u] + 1, val[u])
        BY <3>1 DEF MessagesInPlace, OutputsInPlace
      <3> QED
        BY <1>3, <2>1, <2>3, <3>2, ClockNext DEF IsMessage
    <2> QED
      BY <2>2, <2>3
  \* a sink writes the hop after those it has written
  <1>8. ASSUME NEW u \in Sinks
        PROVE  /\ ~Done(u)' => Len(written'[u]) =
                                 round'[u] + Bit(Past(u, "process", "-")' /\ val'[u] # 0)
               /\ \A i \in DOMAIN written'[u] : written'[u][i] = i
    <2>0. /\ u \in Threads /\ written[u] \in Seq(Nat)
          /\ ~Done(u) => Len(written[u]) =
                           round[u] + Bit(Past(u, "process", "-") /\ val[u] # 0)
          /\ \A i \in DOMAIN written[u] : written[u][i] = i
      BY KindsDisjoint DEF MessagesInPlace, WrittenInPlace, SinksInOrder, TypeOK
    <2>1. CASE u # t
      <3>1. written'[u] = written[u]
        BY <1>1, <2>1 DEF TypeOK
      <3> QED
        BY <1>3, <2>0, <2>1, <3>1 DEF Past, Been, Done
    <2>2. CASE u = t
      <3>1. Len(written[t]) = round[t]
        BY <1>0, <1>2, <1>4, <2>0, <2>2 DEF Bit, At
      <3>2. CASE Stamp(t) = 0
        BY <1>1, <1>2, <1>4, <2>0, <2>2, <3>1, <3>2 DEF Bit
      <3>3. CASE Stamp(t) # 0
        <4>1. PICK p \in Ins[t] : IsMessage(Clock[p], round[t] + 1, Stamp(t))
          BY <1>0, InputsAgree, NetworkAssumption
        <4>2. Stamp(t) = round[t] + 1
          BY <3>3, <4>1 DEF IsMessage
        <4>3. written'[t] = Append(written[t], Stamp(t))
          BY <1>1, <2>2, <3>3 DEF TypeOK
        <4>4. Len(written'[t]) = round[t] + 1
          BY <1>2, <2>0, <2>2, <3>1, <4>3
        <4>5. \A i \in DOMAIN written'[t] : written'[t][i] = i
          BY <1>2, <2>0, <2>2, <3>1, <4>2, <4>3
        <4> QED
          BY <1>2, <1>4, <2>2, <3>3, <4>4, <4>5 DEF Bit
      <3> QED
        BY <3>2, <3>3
    <2> QED
      BY <2>1, <2>2
  <1>9. WrittenInPlace' /\ SinksInOrder'
    BY <1>8 DEF WrittenInPlace, SinksInOrder
  <1>10. SourcesInPlace' /\ ResamplersInPlace'
    <2>1. \A u \in Sources \cup Resamplers : u \in Threads /\ u # t
      BY <1>0, KindsDisjoint
    <2> QED
      BY <1>1, <1>3, <2>1 DEF MessagesInPlace, SourcesInPlace, ResamplersInPlace
  <1>11. NoTimeStampMismatch'
    BY <1>1 DEF MessagesInPlace, NoTimeStampMismatch
  <1> QED
    BY <1>6, <1>7, <1>9, <1>10, <1>11 DEF MessagesInPlace

LEMMA InPlaceInit == Init => MessagesInPlace
  <1> SUFFICES ASSUME Init
               PROVE  MessagesInPlace
    OBVIOUS
  <1>1. /\ pc = [t \in Threads |-> 1] /\ round = [t \in Threads |-> 0]
        /\ filled = [p \in Pools |-> <<>>]
        /\ timeStamp = [t \in Sources \cup Resamplers |-> 0]
    BY DEF Init
  <1>2. ASSUME NEW u \in Relays, NEW i \in 1 .. Last[u]
        PROVE  ~Been(u, i)
    BY <1>1, KindsDisjoint DEF Been
  <1>3. ASSUME NEW u \in Relays
        PROVE  /\ round[u] = 0 /\ ~Past(u, "process", "-")
               /\ \A p \in Ins[u] : ~Past(u, "filled_pop", p)
               /\ \A p \in Outs[u] : ~Past(u, "filled_push", p)
    BY <1>1, <1>2, RelayPlaces, KindsDisjoint DEF Past
  <1>4. ASSUME NEW w \in Threads, NEW p \in Outs[w]
        PROVE  filled[p] = <<>> /\ Published(w, p) = 0
    <2>1. CASE w \in Sources \cup Resamplers
      BY <1>1, <2>1, OutsOps DEF Published, Bit
    <2>2. CASE w \in Relays
      <3>1. Count(w, "filled_push", p) = 0
        BY <1>3, <2>2 DEF Count, Bit
      <3> QED
        BY <1>1, <2>2, <3>1, OutsOps, KindsDisjoint DEF Published
    <2> QED
      BY <2>1, <2>2, LoopsAssumption
  <1>5. SourcesInPlace /\ ResamplersInPlace
    BY <1>1, KindsDisjoint DEF SourcesInPlace, ResamplersInPlace
  <1>6. InputsInPlace /\ OutputsInPlace
    BY <1>3 DEF InputsInPlace, OutputsInPlace
  <1>7. FilledInPlace
    BY <1>4 DEF FilledInPlace
  <1>8. TakenInPlace
    <2> SUFFICES ASSUME NEW w \in Threads, NEW u \in Relays, NEW p \in Outs[w] \cap Ins[u]
                 PROVE  Count(u, "filled_pop", p) + Len(filled[p]) = Published(w, p)
      BY DEF TakenInPlace
    <2>1. Count(u, "filled_pop", p) = 0
      BY <1>3 DEF Count, Bit
    <2> QED
      BY <1>4, <2>1
  <1>9. WrittenInPlace /\ SinksInOrder
    <2>1. \A t \in Sinks : written[t] = <<>> /\ t \in Relays
      BY KindsDisjoint DEF Init
    <2> QED
      BY <1>3, <2>1 DEF WrittenInPlace, SinksInOrder, Bit
  <1>10. NoTimeStampMismatch
    BY DEF Init, NoTimeStampMismatch
  <1> QED
    BY <1>5, <1>6, <1>7, <1>8, <1>9, <1>10 DEF MessagesInPlace

LEMMA InPlaceNext ==
  TypeOK /\ ResamplerEndsOnlyAtEnd /\ MessagesInPlace /\ [Next]_vars => MessagesInPlace'
  <1> SUFFICES ASSUME TypeOK, ResamplerEndsOnlyAtEnd, MessagesInPlace, [Next]_vars
               PROVE  MessagesInPlace'
    OBVIOUS
  <1>1. ASSUME NEW t \in Threads,
               PopFilled(t) \/ PushEmpty(t) \/ PopEmpty(t) \/ PushFilled(t)
        PROVE  MessagesInPlace'
    <2>1. PICK do \in PoolOperations : At(t, do)
      BY <1>1 DEF PopFilled, PushEmpty, PopEmpty, PushFilled, PoolOperations
    <2>2. Advance(t) /\ UNCHANGED <<val, timeStamp, rtnValuePop, written, exited>>
      BY <1>1 DEF PopFilled, PushEmpty, PopEmpty, PushFilled, resampler
    <2>3. /\ SourcesInPlace' /\ ResamplersInPlace' /\ OutputsInPlace'
          /\ WrittenInPlace' /\ SinksInOrder' /\ NoTimeStampMismatch'
      BY <2>1, <2>2, PoolStepThreads
    <2>4. InputsInPlace' /\ FilledInPlace' /\ TakenInPlace'
      BY <1>1, PopFilledInPlace, PushFilledInPlace, EmptyOperationInPlace
    <2> QED
      BY <2>3, <2>4 DEF MessagesInPlace
  <1>2. ASSUME NEW t \in Threads,
               \/ SourceProcess(t) \/ SourceCheck(t)
               \/ RelayProcess(t) \/ ResampleProcess(t)
        PROVE  MessagesInPlace'
    BY <1>2, SourceProcessInPlace, SourceCheckInPlace, RelayProcessInPlace,
       ResampleProcessInPlace
  \* thread_stop touches nothing that the invariant mentions, and nor does a
  \* step after the end
  <1>3. ASSUME UNCHANGED <<filled, pc, got, val, round, timeStamp, rtnValuePop,
                           written, exited>>
        PROVE  MessagesInPlace'
    <2>1. ASSUME NEW w \in Threads, NEW p \in Outs[w]
          PROVE  Published(w, p)' = Published(w, p)
      BY <1>3 DEF Published, Count, Past, Been, Done
    <2>2. SourcesInPlace' /\ ResamplersInPlace'
      BY <1>3 DEF MessagesInPlace, SourcesInPlace, ResamplersInPlace
    <2> QED
      BY <1>3, <2>1, <2>2, OffPoolsInPlace DEF MessagesInPlace
  <1>4. ASSUME NEW t \in Sources, StopSource(t)
        PROVE  MessagesInPlace'
    BY <1>3, <1>4 DEF StopSource, flow, resampler
  <1>5. CASE UNCHANGED vars
    BY <1>3, <1>5 DEF vars
  <1> QED
    BY <1>1, <1>2, <1>4, <1>5 DEF Next, Step, Terminated

LEMMA Spec_MessagesInPlace == Spec => []MessagesInPlace
  BY Spec_TypeOK, Spec_ResamplerEndsOnlyAtEnd, InPlaceInit, InPlaceNext, PTL DEF Spec

\* In every network of these threads -- any graph, any pool size, any rates, any
\* scheduling -- a join never sees two time stamps, and the process never exits.
THEOREM Spec_NoTimeStampMismatch == Spec => []NoTimeStampMismatch
  <1>1. MessagesInPlace => NoTimeStampMismatch
    BY DEF MessagesInPlace
  <1> QED
    BY <1>1, Spec_MessagesInPlace, PTL

\* In every such network each sink writes hop 1, 2, 3, ... of its clock: nothing is
\* lost, duplicated or reordered on the way to it, and the "0" message is not written.
THEOREM Spec_SinksInOrder == Spec => []SinksInOrder
  <1>1. MessagesInPlace => SinksInOrder
    BY DEF MessagesInPlace
  <1> QED
    BY <1>1, Spec_MessagesInPlace, PTL

(***************************************************************************)
(* Which pools a thread holds a message of                                 *)
(***************************************************************************)
\* One operation adds the pool it acquires and takes out the one it releases.
LEMMA HeldStep ==
  ASSUME NEW t \in Threads, NEW i \in 1 .. Last[t], Last[t] \in Nat
  PROVE  /\ Acquires(Ops[t][i]) =>
              HeldBefore[t][i + 1] = HeldBefore[t][i] \cup {Ops[t][i].pool}
         /\ Releases(Ops[t][i]) =>
              HeldBefore[t][i + 1] = HeldBefore[t][i] \ {Ops[t][i].pool}
         /\ ~Acquires(Ops[t][i]) /\ ~Releases(Ops[t][i]) =>
              HeldBefore[t][i + 1] = HeldBefore[t][i]
  <1> DEFINE Kept(k, j) == \A l \in k + 1 .. j - 1 :
                ~(Releases(Ops[t][l]) /\ Ops[t][l].pool = Ops[t][k].pool)
             Open(j) == {k \in 1 .. j - 1 : Acquires(Ops[t][k]) /\ Kept(k, j)}
  <1>1. /\ HeldBefore[t][i] = {Ops[t][k].pool : k \in Open(i)}
        /\ HeldBefore[t][i + 1] = {Ops[t][k].pool : k \in Open(i + 1)}
    BY DEF HeldBefore
  <1>2. ASSUME NEW k \in 1 .. i - 1
        PROVE  Kept(k, i + 1) <=>
                 Kept(k, i) /\ ~(Releases(Ops[t][i]) /\ Ops[t][i].pool = Ops[t][k].pool)
    <2>1. k + 1 .. (i + 1) - 1 = (k + 1 .. i - 1) \cup {i}
      OBVIOUS
    <2> QED
      BY <2>1
  <1>3. Kept(i, i + 1)
    OBVIOUS
  <1>4. 1 .. (i + 1) - 1 = (1 .. i - 1) \cup {i} /\ i \notin 1 .. i - 1
    OBVIOUS
  <1>5. ~(Acquires(Ops[t][i]) /\ Releases(Ops[t][i]))
    BY DEF Acquires, Releases
  <1> HIDE DEF Kept
  <1>6. \A k : k \in Open(i + 1) <=>
          \/ /\ k \in Open(i)
             /\ ~(Releases(Ops[t][i]) /\ Ops[t][i].pool = Ops[t][k].pool)
          \/ k = i /\ Acquires(Ops[t][i])
    BY <1>2, <1>3, <1>4
  <1> HIDE DEF Open
  <1> QED
    BY <1>1, <1>5, <1>6

\* No message is held at the head of a loop, nor by a source before its "check"
\* and after its loop.
LEMMA HeldAtEnds ==
  ASSUME NEW t \in Threads \ Resamplers
  PROVE  /\ Last[t] \in Nat /\ Paired(t)
         /\ HeldBefore[t][1] = {} /\ HeldBefore[t][Last[t] + 1] = {}
         /\ t \in Sources => HeldBefore[t][4] = {} /\ HeldBefore[t][5] = {}
  <1>1. Last[t] \in Nat
    BY LoopsAssumption
  <1>2. HeldBefore[t][1] = {}
    BY <1>1 DEF HeldBefore
  <1>3. CASE t \in Sources
    <2>1. SourceLoop(t) /\ Last[t] = 6
      BY <1>3, LoopsAssumption DEF SourceLoop
    <2> DEFINE p == Ops[t][6].pool
    <2>2. /\ Acquires(Ops[t][1]) /\ Ops[t][1].pool = p
          /\ ~Acquires(Ops[t][2]) /\ ~Releases(Ops[t][2])
          /\ Releases(Ops[t][3]) /\ Ops[t][3].pool = p
          /\ ~Acquires(Ops[t][4]) /\ ~Releases(Ops[t][4])
          /\ Acquires(Ops[t][5]) /\ Ops[t][5].pool = p
          /\ Releases(Ops[t][6]) /\ Ops[t][6].pool = p
      BY <2>1 DEF SourceLoop, Acquires, Releases
    <2>3. /\ 1 + 1 = 2 /\ 2 + 1 = 3 /\ 3 + 1 = 4 /\ 4 + 1 = 5 /\ 5 + 1 = 6 /\ 6 + 1 = 7
          /\ 1 \in 1 .. 6 /\ 2 \in 1 .. 6 /\ 3 \in 1 .. 6 /\ 4 \in 1 .. 6
          /\ 5 \in 1 .. 6 /\ 6 \in 1 .. 6
      OBVIOUS
    <2> HIDE DEF p
    <2>4. HeldBefore[t][2] = {p} /\ HeldBefore[t][3] = {p}
      <3>1. HeldBefore[t][2] = HeldBefore[t][1] \cup {p}
        BY <2>1, <2>2, <2>3, <1>1, HeldStep
      <3>2. HeldBefore[t][3] = HeldBefore[t][2]
        BY <2>1, <2>2, <2>3, <1>1, HeldStep
      <3> QED
        BY <1>2, <3>1, <3>2
    <2>5. HeldBefore[t][4] = {} /\ HeldBefore[t][5] = {}
      <3>1. HeldBefore[t][4] = HeldBefore[t][3] \ {p}
        BY <2>1, <2>2, <2>3, <1>1, HeldStep
      <3>2. HeldBefore[t][5] = HeldBefore[t][4]
        BY <2>1, <2>2, <2>3, <1>1, HeldStep
      <3> QED
        BY <2>4, <3>1, <3>2
    <2>6. HeldBefore[t][6] = {p} /\ HeldBefore[t][7] = {}
      <3>1. HeldBefore[t][6] = HeldBefore[t][5] \cup {p}
        BY <2>1, <2>2, <2>3, <1>1, HeldStep
      <3>2. HeldBefore[t][7] = HeldBefore[t][6] \ {p}
        BY <2>1, <2>2, <2>3, <1>1, HeldStep
      <3> QED
        BY <2>5, <3>1, <3>2
    <2>7. ASSUME NEW i \in 1 .. 6
          PROVE  /\ Acquires(Ops[t][i]) => Ops[t][i].pool \notin HeldBefore[t][i]
                 /\ Releases(Ops[t][i]) => Ops[t][i].pool \in HeldBefore[t][i]
      <3>1. i = 1 \/ i = 2 \/ i = 3 \/ i = 4 \/ i = 5 \/ i = 6
        OBVIOUS
      <3>2. ~Releases(Ops[t][1]) /\ ~Acquires(Ops[t][3])
             /\ ~Releases(Ops[t][5]) /\ ~Acquires(Ops[t][6])
        BY <2>1 DEF SourceLoop, Acquires, Releases
      <3> QED
        BY <1>2, <2>2, <2>4, <2>5, <2>6, <3>1, <3>2
    <2> QED
      BY <1>1, <1>2, <2>1, <2>3, <2>5, <2>6, <2>7 DEF Paired
  <1>4. CASE t \in Relays
    <2>1. Paired(t)
      BY <1>4, LoopsAssumption DEF RelayLoop
    <2> QED
      BY <1>1, <1>2, <1>4, <2>1, KindsDisjoint DEF Paired
  <1> QED
    BY <1>3, <1>4, LoopsAssumption

\* a resampler returns its input in its loop only when it was pushed
PushFlags == \A t \in Resamplers : pc[t] = 4 => rtnValuePush[t] = 0

\* A pool operation changes what its own thread holds of its own pool, and
\* nothing else.
LEMMA HoldsStep ==
  ASSUME TypeOK, ResamplersInPlace, PushFlags,
         NEW t \in Threads, NEW do \in PoolOperations, At(t, do), Advance(t),
         UNCHANGED <<rtnValuePush, rtnValuePop>>,
         NEW p, NEW u \in Threads
  PROVE  IF u = t /\ p = Op(t).pool
         THEN IF do \in {"filled_pop", "empty_pop"} THEN ~Holds(u, p) /\ Holds(u, p)'
                                                    ELSE Holds(u, p) /\ ~Holds(u, p)'
         ELSE Holds(u, p)' <=> Holds(u, p)
  <1>0. /\ pc[t] \in 1 .. Last[t] /\ Last[t] \in Nat /\ Ops[t][pc[t]].do = do
        /\ do \in {"filled_pop", "empty_pop"} <=> Acquires(Ops[t][pc[t]])
        /\ do \notin {"filled_pop", "empty_pop"} <=> Releases(Ops[t][pc[t]])
    BY PcBounds DEF PoolOperations, Acquires, Releases
  <1>1. CASE u # t
    <2>1. pc'[u] = pc[u]
      BY <1>1, OthersStay
    <2> QED
      BY <1>1, <2>1 DEF Holds
  <1>2. CASE u = t /\ t \notin Resamplers
    <2> DEFINE i == pc[t]
               q == Op(t).pool
    <2>1. Paired(t) /\ HeldBefore[t][1] = {} /\ HeldBefore[t][Last[t] + 1] = {}
      BY <1>2, HeldAtEnds
    <2>2. pc'[t] = i + 1 \/ (i = Last[t] /\ pc'[t] = 1)
      BY <1>0, <1>2 DEF Advance, RelayNext, TypeOK
    <2>3. HeldBefore[t][pc'[t]] = HeldBefore[t][i + 1]
      BY <2>1, <2>2
    <2>4. IF Acquires(Ops[t][i]) THEN q \notin HeldBefore[t][i]
                                 ELSE q \in HeldBefore[t][i]
      BY <1>0, <2>1 DEF Paired, Op
    <2>5. HeldBefore[t][i + 1] = IF Acquires(Ops[t][i]) THEN HeldBefore[t][i] \cup {q}
                                                        ELSE HeldBefore[t][i] \ {q}
      BY <1>0, HeldStep DEF Op
    <2> HIDE DEF q, i
    <2>6. /\ Holds(t, p) <=> p \in HeldBefore[t][i]
          /\ Holds(t, p)' <=> p \in HeldBefore[t][i + 1]
      BY <1>2, <2>3 DEF Holds, i
    <2> QED
      BY <1>0, <1>2, <2>4, <2>5, <2>6 DEF q, i
  <1>3. CASE u = t /\ t \in Resamplers
    <2>1. /\ pc'[t] = ResamplerNext(t) /\ pc[t] \in 1 .. 7 /\ pc[t] # 3
          /\ rtnValuePop[t] \in {0, -1} /\ rtnValuePush[t] \in {0, -1}
          /\ do = "filled_pop" <=> pc[t] = 1
          /\ do = "empty_pop" <=> pc[t] = 2
      <3>1. pc'[t] = ResamplerNext(t)
        BY <1>3, KindsDisjoint DEF Advance, TypeOK
      <3>2. pc[t] \in 1 .. 7 /\ pc[t] # 3
        BY <1>0, <1>3, ResamplerAt DEF PoolOperations
      <3>3. /\ do = "filled_pop" <=> pc[t] = 1
            /\ do = "empty_pop" <=> pc[t] = 2
        BY <1>0, <1>3, ResamplerAt
      <3> QED
        BY <1>3, <3>1, <3>2, <3>3 DEF TypeOK
    <2> DEFINE a == Ops[t][1].pool
               b == Ops[t][2].pool
    <2>2. /\ a # b
          /\ Op(t).pool = IF pc[t] \in {1, 4, 6} THEN a ELSE b
      <3>1. ResamplerLoop(t)
        BY <1>3, LoopsAssumption
      <3>2. pc[t] = 1 \/ pc[t] = 2 \/ pc[t] = 4 \/ pc[t] = 5 \/ pc[t] = 6 \/ pc[t] = 7
        BY <2>1
      <3> QED
        BY <3>1, <3>2 DEF ResamplerLoop, Op
    <2>3. /\ pc[t] = 5 => rtnValuePop[t] = 0
          /\ pc[t] = 4 => rtnValuePush[t] = 0
      BY <1>3 DEF ResamplersInPlace, PushFlags
    <2> DEFINE HoldsIn  == pc[t] \in {2, 3, 4, 6} \/ (pc[t] = 5 /\ rtnValuePush[t] = -1)
               HoldsOut == pc[t] \in 3 .. 7 \/ (pc[t] = 1 /\ rtnValuePop[t] = -1)
    <2>4. /\ Holds(t, p) <=> (p = a /\ HoldsIn) \/ (p = b /\ HoldsOut)
          /\ Holds(t, p)' <=> (p = a /\ HoldsIn') \/ (p = b /\ HoldsOut')
      BY <1>3 DEF Holds
    <2>5. /\ pc[t] = 1 => ~HoldsIn /\ HoldsIn' /\ (HoldsOut' <=> HoldsOut)
          /\ pc[t] = 2 => ~HoldsOut /\ HoldsOut' /\ (HoldsIn' <=> HoldsIn)
          /\ pc[t] \in {4, 6} => HoldsIn /\ ~HoldsIn' /\ (HoldsOut' <=> HoldsOut)
          /\ pc[t] \in {5, 7} => HoldsOut /\ ~HoldsOut' /\ (HoldsIn' <=> HoldsIn)
      <3>1. pc[t] = 1 \/ pc[t] = 2 \/ pc[t] = 4 \/ pc[t] = 5 \/ pc[t] = 6 \/ pc[t] = 7
        BY <2>1
      <3> QED
        BY <2>1, <2>3, <3>1 DEF ResamplerNext
    <2> HIDE DEF a, b, HoldsIn, HoldsOut
    <2>6. CASE pc[t] = 1
      BY <1>3, <2>1, <2>2, <2>4, <2>5, <2>6
    <2>7. CASE pc[t] = 2
      BY <1>3, <2>1, <2>2, <2>4, <2>5, <2>7
    <2>8. CASE pc[t] \in {4, 6}
      BY <1>3, <2>1, <2>2, <2>4, <2>5, <2>8
    <2>9. CASE pc[t] \in {5, 7}
      BY <1>3, <2>1, <2>2, <2>4, <2>5, <2>9
    <2> QED
      BY <2>1, <2>6, <2>7, <2>8, <2>9
  <1> QED
    BY <1>1, <1>2, <1>3

(***************************************************************************)
(* MessagesConserved                                                       *)
(***************************************************************************)
Holders(p) == {t \in Threads : Holds(t, p)}

Conserved ==
  /\ PushFlags
  /\ \A p \in Pools :
       /\ IsFiniteSet(Holders(p))
       /\ Len(filled[p]) + empty[p] + Cardinality(Holders(p)) = nMessages

\* A pool operation moves one message between a FIFO and its thread.
LEMMA PoolStepConserved ==
  ASSUME TypeOK, TypeOK', ResamplersInPlace, Conserved, NEW t \in Threads,
         PopFilled(t) \/ PushEmpty(t) \/ PopEmpty(t) \/ PushFilled(t)
  PROVE  Conserved'
  <1>1. PICK do \in PoolOperations : At(t, do)
    BY DEF PopFilled, PushEmpty, PopEmpty, PushFilled, PoolOperations
  <1>2. Advance(t) /\ UNCHANGED <<rtnValuePush, rtnValuePop>>
    BY DEF PopFilled, PushEmpty, PopEmpty, PushFilled, resampler
  <1>3. pc[t] \in 1 .. Last[t] /\ Ops[t][pc[t]].do = do
    BY <1>1, PcBounds
  <1>4. PICK q \in Pools : q = Op(t).pool
    BY <1>3, OpPool DEF Op
  <1>5. PushFlags'
    <2> SUFFICES ASSUME NEW r \in Resamplers, pc'[r] = 4
                 PROVE  rtnValuePush[r] = 0
      BY <1>2 DEF PushFlags
    <2>1. r \in Threads /\ r \notin Relays
      BY KindsDisjoint
    <2>2. CASE r = t
      <3>1. pc[r] \in 1 .. 7 /\ pc[r] # 3
        BY <1>3, <2>2, ResamplerAt DEF PoolOperations
      <3>2. pc'[r] = ResamplerNext(r)
        BY <1>2, <2>1, <2>2 DEF Advance, TypeOK
      <3> QED
        BY <3>1, <3>2 DEF ResamplerNext
    <2>3. CASE r # t
      <3>1. pc[r] = 4
        BY <1>2, <2>1, <2>3, OthersStay
      <3> QED
        BY <3>1 DEF Conserved, PushFlags
    <2> QED
      BY <2>2, <2>3
  <1>6. ASSUME NEW p \in Pools
        PROVE  p # q => Holders(p)' = Holders(p)
    <2>1. ASSUME p # q, NEW u \in Threads
          PROVE  Holds(u, p)' <=> Holds(u, p)
      BY <1>1, <1>2, <1>4, <2>1, HoldsStep DEF Conserved
    <2> QED
      BY <2>1 DEF Holders
  <1>7. /\ do \in {"filled_pop", "empty_pop"} =>
              t \notin Holders(q) /\ Holders(q)' = Holders(q) \cup {t}
        /\ do \notin {"filled_pop", "empty_pop"} =>
              t \in Holders(q) /\ Holders(q)' = Holders(q) \ {t}
    <2>1. ASSUME NEW u \in Threads
          PROVE  IF u = t
                 THEN IF do \in {"filled_pop", "empty_pop"}
                      THEN ~Holds(u, q) /\ Holds(u, q)'
                      ELSE Holds(u, q) /\ ~Holds(u, q)'
                 ELSE Holds(u, q)' <=> Holds(u, q)
      BY <1>1, <1>2, <1>4, HoldsStep DEF Conserved
    <2> QED
      BY <2>1 DEF Holders
  <1>8. /\ do = "filled_pop" => /\ filled[q] # <<>> /\ empty' = empty
                                /\ filled' = [filled EXCEPT ![q] = Tail(@)]
        /\ do = "empty_push" => /\ empty' = [empty EXCEPT ![q] = @ + 1]
                                /\ filled' = filled
        /\ do = "empty_pop" => /\ empty' = [empty EXCEPT ![q] = @ - 1]
                               /\ filled' = filled
        /\ do = "filled_push" => /\ filled' = [filled EXCEPT ![q] = Append(@, val[t])]
                                 /\ empty' = empty
    BY <1>1, <1>4 DEF PopFilled, PushEmpty, PopEmpty, PushFilled, At
  \* the pool of the operation
  <1>9. /\ IsFiniteSet(Holders(q)')
        /\ Len(filled'[q]) + empty'[q] + Cardinality(Holders(q)') = nMessages
    <2>0. /\ filled[q] \in Seq(Nat) /\ empty[q] \in Nat
          /\ filled'[q] \in Seq(Nat) /\ empty'[q] \in Nat
          /\ IsFiniteSet(Holders(q)) /\ Cardinality(Holders(q)) \in Nat
          /\ Len(filled[q]) + empty[q] + Cardinality(Holders(q)) = nMessages
      BY FS_CardinalityType, SizesAssumption DEF TypeOK, Conserved
    <2>1. CASE do \in {"filled_pop", "empty_pop"}
      <3>1. /\ IsFiniteSet(Holders(q)')
            /\ Cardinality(Holders(q)') = Cardinality(Holders(q)) + 1
        BY <1>7, <2>0, <2>1, FS_AddElement
      <3>2. PICK l \in Nat, e \in Nat, c \in Nat :
              /\ l = Len(filled[q]) /\ e = empty[q] /\ c = Cardinality(Holders(q))
              /\ l + e + c = nMessages
        BY <2>0
      <3>3. Len(filled'[q]) + empty'[q] + Cardinality(Holders(q)') = nMessages
        <4>1. CASE do = "filled_pop"
          <5>1. /\ filled'[q] = Tail(filled[q]) /\ empty'[q] = empty[q]
                /\ filled[q] # <<>>
            BY <1>4, <1>8, <2>1, <4>1 DEF TypeOK
          <5>2. Len(filled'[q]) = l - 1 /\ empty'[q] = e
            BY <2>0, <3>2, <5>1
          <5>3. Len(filled'[q]) + empty'[q] + Cardinality(Holders(q)') = (l - 1) + e + (c + 1)
            BY <3>1, <3>2, <5>2
          <5>4. (l - 1) + e + (c + 1) = l + e + c
            OBVIOUS
          <5> QED
            BY <3>2, <5>3, <5>4
        <4>2. CASE do = "empty_pop"
          <5>1. Len(filled'[q]) = l /\ empty'[q] = e - 1
            BY <1>4, <1>8, <2>1, <3>2, <4>2 DEF TypeOK
          <5>2. Len(filled'[q]) + empty'[q] + Cardinality(Holders(q)') = l + (e - 1) + (c + 1)
            BY <3>1, <3>2, <5>1
          <5>3. l + (e - 1) + (c + 1) = l + e + c
            OBVIOUS
          <5> QED
            BY <3>2, <5>2, <5>3
        <4> QED
          BY <2>1, <4>1, <4>2
      <3> QED
        BY <3>1, <3>3
    <2>2. CASE do \notin {"filled_pop", "empty_pop"}
      <3>1. /\ IsFiniteSet(Holders(q)')
            /\ Cardinality(Holders(q)') = Cardinality(Holders(q)) - 1
        BY <1>7, <2>0, <2>2, FS_RemoveElement
      <3>2. Len(filled'[q]) + empty'[q] = Len(filled[q]) + empty[q] + 1
        <4>1. CASE do = "empty_push"
          BY <1>4, <1>8, <2>0, <2>2, <4>1 DEF TypeOK
        <4>2. CASE do = "filled_push"
          <5>1. filled'[q] = Append(filled[q], val[t]) /\ empty'[q] = empty[q]
            BY <1>4, <1>8, <2>2, <4>2 DEF TypeOK
          <5> QED
            BY <2>0, <5>1 DEF TypeOK
        <4> QED
          BY <2>2, <4>1, <4>2 DEF PoolOperations
      <3>3. Len(filled'[q]) + empty'[q] + Cardinality(Holders(q)') = nMessages
        BY <2>0, <3>1, <3>2
      <3> QED
        BY <3>1, <3>3
    <2> QED
      BY <2>1, <2>2
  \* the other pools
  <1>10. ASSUME NEW p \in Pools
        PROVE  (/\ IsFiniteSet(Holders(p))
                /\ Len(filled[p]) + empty[p] + Cardinality(Holders(p)) = nMessages)'
    <2>0. /\ filled[p] \in Seq(Nat) /\ empty[p] \in Nat
          /\ IsFiniteSet(Holders(p)) /\ Cardinality(Holders(p)) \in Nat
          /\ Len(filled[p]) + empty[p] + Cardinality(Holders(p)) = nMessages
      BY FS_CardinalityType, SizesAssumption DEF TypeOK, Conserved
    <2>1. CASE p # q
      <3>1. filled'[p] = filled[p] /\ empty'[p] = empty[p]
        BY <1>4, <1>8, <2>1 DEF TypeOK, PoolOperations
      <3> QED
        BY <1>6, <2>0, <2>1, <3>1
    <2> QED
      BY <1>9, <2>1
  <1> QED
    BY <1>5, <1>10 DEF Conserved

\* The other steps keep what a thread holds.
LEMMA OtherStepHolds ==
  ASSUME TypeOK, PushFlags, NEW t \in Threads,
         \/ SourceProcess(t) \/ SourceCheck(t) \/ RelayProcess(t) \/ ResampleProcess(t)
  PROVE  /\ PushFlags' /\ \A p, u : u \in Threads => (Holds(u, p)' <=> Holds(u, p))
         /\ UNCHANGED <<filled, empty>>
  <1>0. UNCHANGED <<filled, empty>>
    BY DEF SourceProcess, SourceCheck, RelayProcess, ResampleProcess, flow
  <1>1. ASSUME ~ResampleProcess(t)
        PROVE  t \notin Resamplers /\ UNCHANGED <<rtnValuePush, rtnValuePop>>
    BY <1>1, CheckIsSource, KindsDisjoint
       DEF SourceProcess, SourceCheck, RelayProcess, resampler
  <1>2. ASSUME NEW u \in Threads \ {t}
        PROVE  pc'[u] = pc[u]
    BY OthersStay DEF SourceProcess, SourceCheck, RelayProcess, ResampleProcess, TypeOK
  <1>3. ASSUME NEW u \in Resamplers \ {t}
        PROVE  rtnValuePush'[u] = rtnValuePush[u] /\ rtnValuePop'[u] = rtnValuePop[u]
    <2>1. CASE ResampleProcess(t)
      BY <2>1 DEF ResampleProcess, TypeOK
    <2> QED
      BY <1>1, <2>1
  \* t itself
  <1>4. ASSUME NEW p, t \notin Resamplers
        PROVE  HeldBefore[t][pc'[t]] = HeldBefore[t][pc[t]]
    <2>0. /\ HeldBefore[t][4] = {} \/ t \notin Sources
          /\ HeldBefore[t][5] = {} \/ t \notin Sources
          /\ HeldBefore[t][1] = {} /\ HeldBefore[t][Last[t] + 1] = {} /\ Last[t] \in Nat
      BY <1>4, HeldAtEnds
    <2>1. CASE SourceCheck(t)
      <3>1. t \in Sources /\ pc[t] = 4 /\ pc'[t] \in {1, 5}
        BY <2>1, CheckIsSource DEF SourceCheck, TypeOK
      <3> QED
        BY <2>0, <3>1
    <2>2. CASE SourceProcess(t) \/ RelayProcess(t)
      <3>1. At(t, "process")
        BY <2>2 DEF SourceProcess, RelayProcess
      <3>2. pc[t] \in 1 .. Last[t] /\ Ops[t][pc[t]].do = "process"
        BY <3>1, PcBounds
      <3>3. HeldBefore[t][pc[t] + 1] = HeldBefore[t][pc[t]]
        BY <2>0, <3>2, HeldStep DEF Acquires, Releases
      <3>4. pc'[t] = pc[t] \/ Advance(t)
        BY <2>2 DEF SourceProcess, RelayProcess
      <3>5. pc'[t] = pc[t] \/ pc'[t] = pc[t] + 1 \/ (pc[t] = Last[t] /\ pc'[t] = 1)
        BY <1>4, <2>0, <3>2, <3>4 DEF Advance, RelayNext, TypeOK
      <3> QED
        BY <2>0, <3>3, <3>5
    <2> QED
      BY <1>4, <2>1, <2>2 DEF ResampleProcess
  <1>5. ASSUME ResampleProcess(t)
        PROVE  /\ t \in Resamplers /\ pc[t] = 3
               /\ pc'[t] \in {4, 5, 6} /\ rtnValuePush'[t] \in {0, -1}
               /\ rtnValuePush'[t] = 0 <=> pc'[t] = 4
    <2>1. t \in Resamplers /\ At(t, "process")
      BY <1>5 DEF ResampleProcess
    <2>2. pc[t] \in 1 .. Last[t] /\ Ops[t][pc[t]].do = "process"
      BY <2>1, PcBounds
    <2>3. pc[t] = 3
      BY <2>1, <2>2, ResamplerAt
    <2>4. /\ pc'[t] = IF PushAccepted(t) THEN 4 ELSE IF PopAccepted(t) THEN 5 ELSE 6
          /\ rtnValuePush'[t] = IF PushAccepted(t) THEN 0 ELSE -1
      BY <1>5, <2>1 DEF ResampleProcess, TypeOK
    <2> QED
      BY <2>1, <2>3, <2>4
  <1>6. ASSUME NEW p, NEW u \in Threads
        PROVE  Holds(u, p)' <=> Holds(u, p)
    <2>1. CASE u # t
      BY <1>2, <1>3, <2>1 DEF Holds
    <2>2. CASE u = t /\ t \notin Resamplers
      BY <1>4, <2>2 DEF Holds
    <2>3. CASE u = t /\ t \in Resamplers
      <3>1. ResampleProcess(t)
        BY <1>1, <2>3
      <3> QED
        BY <1>5, <2>3, <3>1 DEF Holds
    <2> QED
      BY <2>1, <2>2, <2>3
  <1>7. PushFlags'
    <2> SUFFICES ASSUME NEW r \in Resamplers, pc'[r] = 4
                 PROVE  rtnValuePush'[r] = 0
      BY DEF PushFlags
    <2>1. CASE r = t
      BY <1>1, <1>5, <2>1
    <2>2. CASE r # t
      BY <1>2, <1>3, <2>2, KindsDisjoint DEF PushFlags
    <2> QED
      BY <2>1, <2>2
  <1> QED
    BY <1>0, <1>6, <1>7

LEMMA ConservedInit == Init => Conserved
  <1> SUFFICES ASSUME Init
               PROVE  Conserved
    OBVIOUS
  <1>1. PushFlags
    BY DEF Init, PushFlags
  <1>2. ASSUME NEW p \in Pools
        PROVE  /\ Holders(p) = {} /\ filled[p] = <<>> /\ empty[p] = nMessages
    <2>1. filled[p] = <<>> /\ empty[p] = nMessages
      BY DEF Init
    <2>2. ASSUME NEW t \in Threads
          PROVE  ~Holds(t, p)
      <3>1. pc[t] = 1
        BY DEF Init
      <3>2. CASE t \in Resamplers
        BY <3>1, <3>2 DEF Holds, Init
      <3>3. CASE t \notin Resamplers
        BY <3>1, <3>3, HeldAtEnds DEF Holds
      <3> QED
        BY <3>2, <3>3
    <2> QED
      BY <2>1, <2>2 DEF Holders
  <1>3. ASSUME NEW p \in Pools
        PROVE  /\ IsFiniteSet(Holders(p))
               /\ Len(filled[p]) + empty[p] + Cardinality(Holders(p)) = nMessages
    <2>1. IsFiniteSet({}) /\ Cardinality({}) = 0
      BY FS_EmptySet
    <2>2. Len(<<>>) = 0 /\ nMessages \in Nat
      BY SizesAssumption
    <2>3. IsFiniteSet(Holders(p)) /\ Cardinality(Holders(p)) = 0
      BY <1>2, <2>1
    <2>4. Len(filled[p]) = 0 /\ empty[p] = nMessages
      BY <1>2, <2>2
    <2> QED
      BY <2>2, <2>3, <2>4
  <1> QED
    BY <1>1, <1>3 DEF Conserved

LEMMA ConservedNext ==
  TypeOK /\ MessagesInPlace /\ Conserved /\ [Next]_vars => Conserved'
  <1> SUFFICES ASSUME TypeOK, MessagesInPlace, Conserved, [Next]_vars
               PROVE  Conserved'
    OBVIOUS
  <1>1. ASSUME NEW t \in Threads,
               PopFilled(t) \/ PushEmpty(t) \/ PopEmpty(t) \/ PushFilled(t)
        PROVE  Conserved'
    BY <1>1, PoolStepConserved, TypeNext DEF MessagesInPlace
  <1>2. ASSUME PushFlags', UNCHANGED <<filled, empty>>,
               \A p, u : u \in Threads => (Holds(u, p)' <=> Holds(u, p))
        PROVE  Conserved'
    <2>1. \A p : Holders(p)' = Holders(p)
      BY <1>2 DEF Holders
    <2> QED
      BY <1>2, <2>1 DEF Conserved
  <1>3. ASSUME NEW t \in Threads,
               \/ SourceProcess(t) \/ SourceCheck(t)
               \/ RelayProcess(t) \/ ResampleProcess(t)
        PROVE  Conserved'
    <2>1. PushFlags
      BY DEF Conserved
    <2> QED
      BY <1>2, <1>3, <2>1, OtherStepHolds
  <1>4. ASSUME UNCHANGED <<pc, rtnValuePush, rtnValuePop, filled, empty>>
        PROVE  Conserved'
    <2>1. PushFlags' /\ \A p, u : u \in Threads => (Holds(u, p)' <=> Holds(u, p))
      BY <1>4 DEF Conserved, PushFlags, Holds
    <2> QED
      BY <1>2, <1>4, <2>1
  <1>5. ASSUME NEW t \in Sources, StopSource(t)
        PROVE  Conserved'
    BY <1>4, <1>5 DEF StopSource, flow, resampler
  <1>6. CASE UNCHANGED vars
    BY <1>4, <1>6 DEF vars
  <1> QED
    BY <1>1, <1>3, <1>5, <1>6 DEF Next, Step, Terminated

LEMMA Spec_Conserved == Spec => []Conserved
  BY Spec_TypeOK, Spec_MessagesInPlace, ConservedInit, ConservedNext, PTL DEF Spec

\* In every network of these threads each message object of a pool is, at any
\* time, in one of its two FIFOs or with exactly one thread: no path through a
\* loop leaks one, returns one twice or hands one to two threads, and that is
\* also so when a resampler keeps its input or its output over an iteration.
THEOREM Spec_MessagesConserved == Spec => []MessagesConserved
  <1>1. Conserved => MessagesConserved
    BY DEF Conserved, MessagesConserved, Holders
  <1> QED
    BY <1>1, Spec_Conserved, PTL

(***************************************************************************)
(* The end of the stream                                                   *)
(***************************************************************************)
\* a relay makes of its inputs the message of their round, and its loop ends in
\* the round of the "0" message
RelaysEnd ==
  \A t \in Relays : \A p \in Ins[t] :
    /\ Past(t, "process", "-") => IsMessage(Clock[p], round[t] + 1, val[t])
    /\ Done(t) => Ended(Clock[p]) /\ round[t] = timeStamp[Clock[p]] + 1

SinksEnd == \A t \in Sinks : Done(t) => Len(written[t]) = round[t] - 1

\* a resampler has taken an input that it has not returned in its loop
HasInput(t) == pc[t] \in {2, 3, 4, 6, 7, 8} \/ (pc[t] = 5 /\ rtnValuePush[t] = -1)

ResamplersTake ==
  \A t \in Threads, u \in Resamplers : \A p \in Outs[t] \cap Ins[u] :
    /\ round[u] + Bit(HasInput(u)) + Len(filled[p]) = Published(t, p)
    /\ HasInput(u) => IsMessage(Clock[p], round[u] + 1, got[u][p])

\* after the "0" message a resampler only empties its buffer
ResamplersDrain ==
  \A t \in Resamplers :
    /\ noMorePush[t] => InStamp(t) = 0 /\ HasInput(t) /\ pc[t] # 4
    /\ pc[t] = 8 => noMorePush[t]

StreamEnds == RelaysEnd /\ SinksEnd /\ ResamplersTake /\ ResamplersDrain


\* what all operations on pools have in common
PoolStep(t, do) ==
  /\ At(t, do) /\ Advance(t)
  /\ UNCHANGED <<val, timeStamp, source, resampler, written, exited>>

LEMMA PoolSteps ==
  ASSUME NEW t \in Threads, PopFilled(t) \/ PushEmpty(t) \/ PopEmpty(t) \/ PushFilled(t)
  PROVE  \E do \in PoolOperations : PoolStep(t, do)
  BY DEF PopFilled, PushEmpty, PopEmpty, PushFilled, PoolOperations, PoolStep

LEMMA RelayPoolStep ==
  ASSUME TypeOK, NEW t \in Relays, NEW do \in PoolOperations, PoolStep(t, do)
  PROVE  /\ Past(t, "process", "-")' => Past(t, "process", "-") /\ round'[t] = round[t]
         /\ Done(t)' => /\ Past(t, "process", "-") /\ val[t] = 0
                        /\ pc[t] = Last[t] /\ round'[t] = round[t] + 1
         /\ ~Done(t)
  <1> DEFINE m == Position(t, "process", "-")
  <1>0. /\ At(t, do) /\ Advance(t) /\ t \in Threads /\ Last[t] \in Nat
        /\ m \in 1 .. Last[t] - 1
    BY RelayPlaces, KindsDisjoint DEF PoolStep
  <1>1. pc[t] \in 1 .. Last[t] /\ pc[t] # m
    <2>1. pc[t] \in 1 .. Last[t] /\ Ops[t][pc[t]].do = do /\ do # "process"
      BY <1>0, PcBounds DEF PoolOperations
    <2> QED
      BY <2>1, RelayPlaces
  <1>2. m \in 1 .. Last[t]
    BY <1>0
  <1>3. Been(t, m)' => round'[t] = round[t] /\ (Been(t, m) \/ m = pc[t])
    BY <1>0, <1>1, <1>2, RelayAdvance
  <1>4. Done(t)' => Been(t, m) /\ val[t] = 0 /\ pc[t] = Last[t] /\ round'[t] = round[t] + 1
    <2>1. pc'[t] = RelayNext(t)
      BY <1>0 DEF Advance, TypeOK
    <2>2. round'[t] = IF pc[t] = Last[t] THEN round[t] + 1 ELSE round[t]
      BY <1>0, KindsDisjoint DEF Advance, TypeOK
    <2> QED
      BY <1>0, <1>1, <2>1, <2>2 DEF RelayNext, Been, Done
  <1>5. ~Done(t)
    BY <1>0 DEF At
  <1> QED
    BY <1>1, <1>3, <1>4, <1>5 DEF Past

LEMMA RelaysEndNext ==
  ASSUME TypeOK, MessagesInPlace, RelaysEnd, SinksEnd, [Next]_vars
  PROVE  RelaysEnd' /\ SinksEnd'
  <1> DEFINE Ends(u) ==
        /\ \A p \in Ins[u] :
             /\ Past(u, "process", "-") => IsMessage(Clock[p], round[u] + 1, val[u])
             /\ Done(u) => Ended(Clock[p]) /\ round[u] = timeStamp[Clock[p]] + 1
        /\ u \in Sinks /\ Done(u) => Len(written[u]) = round[u] - 1
  <1>0. \A u \in Relays : Ends(u) /\ u \in Threads /\ round[u] \in Nat
    BY KindsDisjoint DEF RelaysEnd, SinksEnd, TypeOK
  <1>1. ASSUME NEW u \in Relays, UNCHANGED <<pc[u], round[u], val[u]>>,
               u \in Sinks => written'[u] = written[u]
        PROVE  Ends(u)'
    <2>1. ASSUME NEW p \in Ins[u]
          PROVE  /\ Past(u, "process", "-")' => IsMessage(Clock[p], round[u] + 1, val[u])'
                 /\ Done(u)' => Ended(Clock[p])' /\ round'[u] = timeStamp'[Clock[p]] + 1
      <3>1. Past(u, "process", "-")' => Past(u, "process", "-")
        BY <1>1 DEF Past, Been, Done
      <3>2. Past(u, "process", "-") => IsMessage(Clock[p], round[u] + 1, val[u])'
        BY <1>0, <1>1, ClockNext, PoolClock DEF IsMessage
      <3>3. Done(u)' => Done(u)
        BY <1>1 DEF Done
      <3>4. Done(u) => Ended(Clock[p])' /\ round'[u] = timeStamp'[Clock[p]] + 1
        BY <1>0, <1>1, ClockNext, PoolClock
      <3> QED
        BY <3>1, <3>2, <3>3, <3>4
    <2> QED
      BY <1>0, <1>1, <2>1 DEF Done
  <1>2. ASSUME NEW t \in Threads, NEW do \in PoolOperations, PoolStep(t, do),
               NEW u \in Relays
        PROVE  Ends(u)'
    <2>1. CASE u # t
      BY <1>0, <1>1, <1>2, <2>1, OthersStay DEF PoolStep
    <2>2. CASE u = t
      <3>0. /\ val' = val /\ written' = written
            /\ Past(t, "process", "-")' => Past(t, "process", "-") /\ round'[t] = round[t]
            /\ Done(t)' => /\ Past(t, "process", "-") /\ val[t] = 0
                           /\ round'[t] = round[t] + 1
            /\ ~Done(t)
        BY <1>2, <2>2, RelayPoolStep DEF PoolStep
      <3>1. ASSUME NEW p \in Ins[t], Past(t, "process", "-")'
            PROVE  IsMessage(Clock[p], round[t] + 1, val[t])'
        BY <1>0, <2>2, <3>0, <3>1, ClockNext, PoolClock DEF IsMessage
      <3>2. ASSUME NEW p \in Ins[t], Done(t)'
            PROVE  Ended(Clock[p])' /\ round'[t] = timeStamp'[Clock[p]] + 1
        <4>1. IsMessage(Clock[p], round[t] + 1, 0)
          BY <1>0, <2>2, <3>0, <3>2
        <4>2. Ended(Clock[p]) /\ round[t] + 1 = timeStamp[Clock[p]] + 1
          BY <1>0, <2>2, <4>1 DEF IsMessage
        <4> QED
          BY <3>0, <3>2, <4>2, ClockNext, PoolClock
      <3>3. ASSUME t \in Sinks, Done(t)'
            PROVE  Len(written'[t]) = round'[t] - 1
        <4>1. Len(written[t]) = round[t] + Bit(Past(t, "process", "-") /\ val[t] # 0)
          BY <3>0, <3>3 DEF MessagesInPlace, WrittenInPlace
        <4> QED
          BY <1>0, <2>2, <3>0, <3>3, <4>1 DEF Bit
      <3> QED
        BY <2>2, <3>1, <3>2, <3>3
    <2> QED
      BY <2>1, <2>2
  <1>3. ASSUME NEW t \in Threads, RelayProcess(t), NEW u \in Relays
        PROVE  Ends(u)'
    <2>0. /\ t \in Relays /\ At(t, "process") /\ ~Mismatch(t)
          /\ \A p \in Ins[t] : IsMessage(Clock[p], round[t] + 1, Stamp(t))
      BY <1>3, InputsAgree DEF RelayProcess
    <2>1. /\ Advance(t) /\ val' = [val EXCEPT ![t] = Stamp(t)]
          /\ \A s \in Sinks \ {t} : written'[s] = written[s]
      BY <1>3, <2>0 DEF RelayProcess, TypeOK
    <2>2. CASE u # t
      <3>1. pc'[u] = pc[u] /\ round'[u] = round[u] /\ val'[u] = val[u]
        BY <1>0, <2>1, <2>2, OthersStay DEF TypeOK
      <3> QED
        BY <1>1, <2>1, <2>2, <3>1
    <2>3. CASE u = t
      <3>1. pc[t] \in 1 .. Last[t] - 1 /\ Last[t] \in Nat
        <4>1. pc[t] \in 1 .. Last[t] /\ Ops[t][pc[t]].do = "process"
          BY <2>0, PcBounds
        <4> QED
          BY <2>0, <4>1, RelayPlaces
      <3>2. pc'[t] = pc[t] + 1 /\ round'[t] = round[t] /\ val'[t] = Stamp(t)
        <4>1. pc'[t] = RelayNext(t) /\ val'[t] = Stamp(t)
          BY <2>0, <2>1 DEF Advance, TypeOK
        <4>2. pc[t] # Last[t] /\ pc[t] < Last[t]
          BY <3>1
        <4>3. round'[t] = round[t]
          BY <2>0, <2>1, <4>2, KindsDisjoint DEF Advance
        <4> QED
          BY <4>1, <4>2, <4>3 DEF RelayNext
      <3>3. ~Done(t)'
        BY <3>1, <3>2 DEF Done
      <3>4. ASSUME NEW p \in Ins[t]
            PROVE  IsMessage(Clock[p], round[t] + 1, val[t])'
        BY <1>0, <2>0, <3>2, ClockNext, PoolClock DEF IsMessage
      <3> QED
        BY <2>3, <3>3, <3>4
    <2> QED
      BY <2>2, <2>3
  <1>4. ASSUME NEW t \in Threads, SourceProcess(t) \/ SourceCheck(t) \/ ResampleProcess(t),
               NEW u \in Relays
        PROVE  Ends(u)'
    <2>1. t \notin Relays
      BY <1>4, CheckIsSource, KindsDisjoint DEF SourceProcess, SourceCheck, ResampleProcess
    <2>2. /\ pc'[u] = pc[u] /\ round'[u] = round[u] /\ val'[u] = val[u]
          /\ written' = written
      BY <1>0, <1>4, <2>1, OthersStay
         DEF SourceProcess, SourceCheck, ResampleProcess, TypeOK
    <2> QED
      BY <1>1, <2>2
  <1>5. ASSUME UNCHANGED <<pc, round, val, written>>, NEW u \in Relays
        PROVE  Ends(u)'
    BY <1>1, <1>5
  <1>6. ASSUME NEW u \in Relays
        PROVE  Ends(u)'
    <2>1. CASE \E t \in Sources : StopSource(t)
      BY <1>5, <2>1 DEF StopSource
    <2>2. CASE UNCHANGED vars
      BY <1>5, <2>2 DEF vars
    <2> QED
      BY <1>2, <1>3, <1>4, <2>1, <2>2, PoolSteps DEF Next, Step, Terminated
  <1>7. \A u \in Sinks : u \in Relays
    BY KindsDisjoint
  <1> QED
    BY <1>6, <1>7 DEF RelaysEnd, SinksEnd

\* A resampler has one input.
LEMMA ResamplerInput ==
  ASSUME NEW t \in Resamplers, NEW p \in Ins[t]
  PROVE  p = Ops[t][1].pool
  <1>1. PICK i \in 1 .. Last[t] : Does(t, i, "filled_pop", p)
    BY InsOps, KindsDisjoint
  <1>2. i = 1 /\ Ops[t][i].pool = p
    BY <1>1, ResamplerAt DEF Does
  <1> QED
    BY <1>2

\* What an operation adds to the messages that a resampler took
LEMMA TakenAdvance ==
  ASSUME TypeOK, ResamplersInPlace, PushFlags,
         NEW t \in Threads, NEW do \in PoolOperations, PoolStep(t, do),
         NEW u \in Resamplers
  PROVE  /\ (round[u] + Bit(HasInput(u)))'
              = round[u] + Bit(HasInput(u)) + Bit(u = t /\ do = "filled_pop")
         /\ HasInput(u)' =>
              /\ round'[u] = round[u]
              /\ HasInput(u) \/ (u = t /\ do = "filled_pop")
         /\ u = t /\ do = "filled_pop" => ~HasInput(u)
  <1>0. /\ At(t, do) /\ Advance(t) /\ u \in Threads /\ u \notin Relays /\ round[u] \in Nat
        /\ rtnValuePush[u] \in {0, -1} /\ rtnValuePop[u] \in {0, -1}
        /\ UNCHANGED <<rtnValuePush, rtnValuePop>>
    BY KindsDisjoint DEF PoolStep, TypeOK, resampler
  <1>1. CASE u # t
    <2>1. pc'[u] = pc[u] /\ round'[u] = round[u]
      BY <1>0, <1>1, OthersStay
    <2> QED
      BY <1>0, <1>1, <2>1 DEF HasInput, Bit
  <1>2. CASE u = t
    <2>1. pc[t] \in 1 .. 7 /\ pc[t] # 3 /\ (do = "filled_pop" <=> pc[t] = 1)
      <3>1. pc[t] \in 1 .. Last[t] /\ Ops[t][pc[t]].do = do
        BY <1>0, PcBounds
      <3> QED
        BY <1>2, <3>1, ResamplerAt DEF PoolOperations
    <2>2. /\ pc'[t] = ResamplerNext(t)
          /\ round'[t] = IF pc[t] = 4 THEN round[t] + 1 ELSE round[t]
      BY <1>0, <1>2 DEF Advance, TypeOK
    <2>3. /\ pc[t] = 5 => rtnValuePop[t] = 0
          /\ pc[t] = 4 => rtnValuePush[t] = 0
      BY <1>2 DEF ResamplersInPlace, PushFlags
    <2>4. /\ pc[t] = 1 => ~HasInput(t) /\ HasInput(t)'
          /\ pc[t] = 4 => HasInput(t) /\ ~HasInput(t)'
          /\ pc[t] \in {2, 5, 6, 7} => (HasInput(t) <=> HasInput(t)')
      BY <1>0, <1>2, <2>1, <2>2, <2>3 DEF HasInput, ResamplerNext
    <2>5. pc[t] = 1 \/ pc[t] = 4 \/ pc[t] \in {2, 5, 6, 7}
      BY <2>1
    <2> HIDE DEF HasInput
    <2>6. CASE pc[t] = 1
      BY <1>0, <1>2, <2>1, <2>2, <2>4, <2>6 DEF Bit
    <2>7. CASE pc[t] = 4
      BY <1>0, <1>2, <2>1, <2>2, <2>4, <2>7 DEF Bit
    <2>8. CASE pc[t] \in {2, 5, 6, 7}
      BY <1>0, <1>2, <2>1, <2>2, <2>4, <2>8 DEF Bit
    <2> QED
      BY <2>5, <2>6, <2>7, <2>8
  <1> QED
    BY <1>1, <1>2

\* and to the messages of a FIFO
LEMMA FilledAdvance ==
  ASSUME TypeOK, NEW t \in Threads,
         PopFilled(t) \/ PushEmpty(t) \/ PopEmpty(t) \/ PushFilled(t)
  PROVE  \E do \in PoolOperations :
           /\ PoolStep(t, do)
           /\ \A p \in Pools :
                Len(filled[p])' + Bit(do = "filled_pop" /\ p = Op(t).pool)
                  = Len(filled[p]) + Bit(do = "filled_push" /\ p = Op(t).pool)
           /\ do = "filled_pop" =>
                /\ Len(filled[Op(t).pool]) > 0 /\ Op(t).pool \in Ins[t]
                /\ got' = [got EXCEPT ![t][Op(t).pool] = filled[Op(t).pool][1]]
           /\ do # "filled_pop" => got' = got
  <1>1. PICK do \in PoolOperations : PoolStep(t, do)
    BY PoolSteps
  <1>2. /\ pc[t] \in 1 .. Last[t] /\ Ops[t][pc[t]].do = do
    BY <1>1, PcBounds DEF PoolStep
  <1>3. PICK q \in Pools : q = Op(t).pool /\ (do = "filled_pop" => q \in Ins[t])
    BY <1>2, OpPool DEF Op
  <1>4. /\ do = "filled_pop" => /\ filled[q] # <<>>
                                /\ filled' = [filled EXCEPT ![q] = Tail(@)]
                                /\ got' = [got EXCEPT ![t][q] = Head(filled[q])]
        /\ do = "filled_push" => /\ filled' = [filled EXCEPT ![q] = Append(@, val[t])]
                                 /\ got' = got
        /\ do \notin {"filled_pop", "filled_push"} => filled' = filled /\ got' = got
    BY <1>1, <1>3 DEF PopFilled, PushEmpty, PopEmpty, PushFilled, At, PoolStep
  <1>5. filled[q] \in Seq(Nat) /\ val[t] \in Nat
    BY DEF TypeOK
  <1>6. do = "filled_pop" => Head(filled[q]) = filled[q][1] /\ Len(filled[q]) > 0
    BY <1>4, <1>5
  <1>7. ASSUME NEW p \in Pools
        PROVE  Len(filled[p])' + Bit(do = "filled_pop" /\ p = q)
                 = Len(filled[p]) + Bit(do = "filled_push" /\ p = q)
    <2>0. filled[p] \in Seq(Nat)
      BY DEF TypeOK
    <2>1. CASE do = "filled_push" /\ p = q
      <3>1. filled'[p] = Append(filled[p], val[t])
        BY <1>4, <2>1 DEF TypeOK
      <3> QED
        BY <1>5, <2>0, <2>1, <3>1 DEF Bit
    <2>2. CASE do = "filled_pop" /\ p = q
      <3>1. filled'[p] = Tail(filled[p]) /\ Len(filled[p]) > 0
        BY <1>4, <1>6, <2>2 DEF TypeOK
      <3>2. Len(filled'[p]) = Len(filled[p]) - 1 /\ Len(filled[p]) \in Int
        BY <2>0, <3>1, TailFacts
      <3>3. /\ Bit(do = "filled_push" /\ p = q) = 0
            /\ Bit(do = "filled_pop" /\ p = q) = 1
        BY <2>2 DEF Bit
      <3> QED
        BY <3>2, <3>3
    <2>3. CASE p # q \/ do \notin {"filled_push", "filled_pop"}
      <3>1. filled'[p] = filled[p]
        BY <1>4, <2>3 DEF TypeOK
      <3> QED
        BY <2>0, <2>3, <3>1 DEF Bit
    <2> QED
      BY <2>1, <2>2, <2>3
  <1> QED
    BY <1>1, <1>3, <1>4, <1>6, <1>7

\* The steps that process or check leave the other threads alone, and publish
\* nothing.
LEMMA OtherStepOthers ==
  ASSUME TypeOK, NEW t \in Threads,
         \/ SourceProcess(t) \/ SourceCheck(t) \/ RelayProcess(t) \/ ResampleProcess(t),
         NEW u \in Threads \ {t}
  PROVE  pc'[u] = pc[u] /\ round'[u] = round[u]
  BY OthersStay DEF SourceProcess, SourceCheck, RelayProcess, ResampleProcess, TypeOK

LEMMA OtherStepPublished ==
  ASSUME TypeOK, MessagesInPlace, NEW t \in Threads,
         \/ SourceProcess(t) \/ SourceCheck(t) \/ RelayProcess(t) \/ ResampleProcess(t),
         NEW w \in Threads, NEW p \in Outs[w]
  PROVE  Published(w, p)' = Published(w, p)
  <1>1. CASE w # t
    <2>1. pc'[w] = pc[w] /\ round'[w] = round[w]
      BY <1>1, OtherStepOthers
    <2>2. w \in Sources \cup Resamplers => timeStamp'[w] = timeStamp[w]
      BY <1>1 DEF SourceProcess, SourceCheck, RelayProcess, ResampleProcess, TypeOK
    <2>3. w \in Resamplers => rtnValuePop'[w] = rtnValuePop[w]
      BY <1>1 DEF SourceProcess, SourceCheck, RelayProcess, ResampleProcess, TypeOK, resampler
    <2> QED
      BY <2>1, <2>2, <2>3 DEF Published, Count, Past, Been, Done
  <1>2. CASE w = t /\ SourceCheck(t)
    <2>1. t \in Sources /\ pc[t] = 4 /\ pc'[t] \in {1, 5} /\ timeStamp' = timeStamp
      BY <1>2, CheckIsSource DEF SourceCheck, TypeOK
    <2> QED
      BY <1>2, <2>1 DEF Published, Bit
  <1>3. CASE w = t /\ ~SourceCheck(t)
    <2>1. At(t, "process") /\ pc[t] \in 1 .. Last[t] /\ Ops[t][pc[t]].do = "process"
      BY <1>3, PcBounds DEF SourceProcess, RelayProcess, ResampleProcess
    <2>2. CASE SourceProcess(t)
      <3>1. pc[t] = 2 /\ timeStamp[t] \in Nat /\ t \in Sources
        BY <2>1, <2>2, SourceAt DEF SourceProcess, TypeOK
      <3>2. pc'[t] = 3 /\ timeStamp'[t] = timeStamp[t] + 1
        BY <2>2, <3>1, KindsDisjoint DEF SourceProcess, Advance, TypeOK
      <3> QED
        BY <1>3, <3>1, <3>2 DEF Published, Bit
    <2>3. CASE ResampleProcess(t)
      <3>1. pc[t] = 3 /\ timeStamp[t] \in Nat /\ t \in Resamplers /\ t \notin Sources
        BY <2>1, <2>3, ResamplerAt, KindsDisjoint DEF ResampleProcess, TypeOK
      <3>2. /\ pc'[t] = IF PushAccepted(t) THEN 4 ELSE IF PopAccepted(t) THEN 5 ELSE 6
            /\ rtnValuePop'[t] = IF PopAccepted(t) THEN 0 ELSE -1
            /\ timeStamp'[t] = IF PopAccepted(t) THEN timeStamp[t] + 1 ELSE timeStamp[t]
        BY <2>3, <3>1 DEF ResampleProcess, TypeOK
      <3> QED
        BY <1>3, <3>1, <3>2 DEF Published, Bit
    <2>4. CASE RelayProcess(t)
      <3>1. t \in Relays /\ t \notin Sources /\ t \notin Resamplers /\ Advance(t)
        BY <2>1, <2>4, InputsAgree, KindsDisjoint DEF RelayProcess
      <3> DEFINE i == Position(t, "filled_push", p)
      <3>2. /\ i \in 1 .. Last[t] /\ i # pc[t]
        BY <1>3, <2>1, <3>1, RelayPlaces DEF Does
      <3>3. (round[t] + Bit(Been(t, i)))' = round[t] + Bit(Been(t, i)) + Bit(i = pc[t])
        BY <2>1, <3>1, <3>2, RelayAdvance
      <3>4. Bit(i = pc[t]) = 0 /\ round[t] + Bit(Been(t, i)) \in Nat
        BY <3>2 DEF Bit, TypeOK
      <3> QED
        BY <1>3, <3>1, <3>3, <3>4 DEF Published, Count, Past
    <2> QED
      BY <1>3, <2>2, <2>3, <2>4
  <1> QED
    BY <1>1, <1>2, <1>3

\* A resampler that processes has an input and keeps it, or returns it next.
LEMMA ResampleProcessInput ==
  ASSUME TypeOK, NEW t \in Threads, ResampleProcess(t)
  PROVE  /\ t \in Resamplers /\ pc[t] = 3 /\ HasInput(t) /\ HasInput(t)'
         /\ pc'[t] = 4 => InStamp(t) # 0
         /\ noMorePush'[t] <=> noMorePush[t] \/ InStamp(t) = 0
         /\ pc'[t] \in {4, 5, 6}
  <1>1. t \in Resamplers /\ pc[t] = 3
    <2>1. t \in Resamplers /\ At(t, "process")
      BY DEF ResampleProcess
    <2>2. pc[t] \in 1 .. Last[t] /\ Ops[t][pc[t]].do = "process"
      BY <2>1, PcBounds
    <2> QED
      BY <2>1, <2>2, ResamplerAt
  <1>2. /\ pc'[t] = IF PushAccepted(t) THEN 4 ELSE IF PopAccepted(t) THEN 5 ELSE 6
        /\ rtnValuePush'[t] = IF PushAccepted(t) THEN 0 ELSE -1
        /\ noMorePush'[t] <=> noMorePush[t] \/ InStamp(t) = 0
    BY <1>1 DEF ResampleProcess, TypeOK
  <1>3. PushAccepted(t) => InStamp(t) # 0
    BY DEF PushAccepted
  <1> QED
    BY <1>1, <1>2, <1>3 DEF HasInput

LEMMA ResamplersTakeNext ==
  ASSUME TypeOK, MessagesInPlace, PushFlags, ResamplersTake, [Next]_vars
  PROVE  ResamplersTake'
  <1> SUFFICES ASSUME NEW w \in Threads, NEW u \in Resamplers, NEW p \in Outs[w] \cap Ins[u]
               PROVE  /\ (round[u] + Bit(HasInput(u)) + Len(filled[p]) = Published(w, p))'
                      /\ HasInput(u)' => IsMessage(Clock[p], round[u] + 1, got[u][p])'
    BY DEF ResamplersTake
  <1>0. /\ u \in Threads /\ p \in Pools /\ round[u] \in Nat /\ filled[p] \in Seq(Nat)
        /\ round[u] + Bit(HasInput(u)) + Len(filled[p]) = Published(w, p)
        /\ HasInput(u) => IsMessage(Clock[p], round[u] + 1, got[u][p])
        /\ p = Ops[u][1].pool /\ Published(w, p) \in Int
    <2>1. u \in Threads /\ round[u] \in Nat /\ p = Ops[u][1].pool
      BY KindsDisjoint, ResamplerInput DEF TypeOK
    <2>2. p \in Pools /\ Published(w, p) \in Int
      BY PoolClock, PublishedType
    <2>3. filled[p] \in Seq(Nat)
      BY <2>2 DEF TypeOK
    <2>4. /\ round[u] + Bit(HasInput(u)) + Len(filled[p]) = Published(w, p)
          /\ HasInput(u) => IsMessage(Clock[p], round[u] + 1, got[u][p])
      BY DEF ResamplersTake
    <2> QED
      BY <2>1, <2>2, <2>3, <2>4
  \* steps that leave the pool and u's input alone
  <1>1. ASSUME Published(w, p)' = Published(w, p), UNCHANGED <<filled, got, round[u]>>,
               HasInput(u)' <=> HasInput(u)
        PROVE  /\ (round[u] + Bit(HasInput(u)) + Len(filled[p]) = Published(w, p))'
               /\ HasInput(u)' => IsMessage(Clock[p], round[u] + 1, got[u][p])'
    <2>1. HasInput(u) => IsMessage(Clock[p], round[u] + 1, got[u][p])'
      BY <1>0, <1>1, ClockNext, PoolClock DEF IsMessage
    <2>2. Bit(HasInput(u))' = Bit(HasInput(u))
      BY <1>1 DEF Bit
    <2> QED
      BY <1>0, <1>1, <2>1, <2>2
  <1>2. ASSUME NEW t \in Threads,
               PopFilled(t) \/ PushEmpty(t) \/ PopEmpty(t) \/ PushFilled(t)
        PROVE  /\ (round[u] + Bit(HasInput(u)) + Len(filled[p]) = Published(w, p))'
               /\ HasInput(u)' => IsMessage(Clock[p], round[u] + 1, got[u][p])'
    <2>1. PICK do \in PoolOperations :
           /\ PoolStep(t, do)
           /\ \A q \in Pools :
                Len(filled[q])' + Bit(do = "filled_pop" /\ q = Op(t).pool)
                  = Len(filled[q]) + Bit(do = "filled_push" /\ q = Op(t).pool)
           /\ do = "filled_pop" =>
                /\ Len(filled[Op(t).pool]) > 0 /\ Op(t).pool \in Ins[t]
                /\ got' = [got EXCEPT ![t][Op(t).pool] = filled[Op(t).pool][1]]
           /\ do # "filled_pop" => got' = got
      BY <1>2, FilledAdvance
    <2>2. PICK q : q = Op(t).pool
      OBVIOUS
    \* a reader of p that pops from it is u, a writer that pushes to it is w
    <2>3. do = "filled_pop" => (p = q <=> u = t)
      <3>1. ASSUME do = "filled_pop", p = q
            PROVE  u = t
        BY <1>0, <2>1, <2>2, <3>1, NetworkAssumption
      <3>2. ASSUME do = "filled_pop", u = t
            PROVE  p = q
        BY <1>0, <2>1, <2>2, <3>2, ResamplerInput
      <3> QED
        BY <3>1, <3>2
    <2>4. do = "filled_push" /\ p = q => w = t
      <3>1. do = "filled_push" => q \in Outs[t]
        <4>1. pc[t] \in 1 .. Last[t] /\ Ops[t][pc[t]].do = do
          BY <2>1, PcBounds DEF PoolStep
        <4> QED
          BY <2>2, <4>1, OpPool DEF Op
      <3> QED
        BY <3>1, NetworkAssumption
    <2>5. Published(w, p)' = Published(w, p) + Bit(do = "filled_push" /\ p = q)
      <3>1. Published(w, p)' =
              Published(w, p) + Bit(w = t /\ do = "filled_push" /\ p = Op(t).pool)
        BY <2>1, PublishedAdvance DEF PoolStep, MessagesInPlace, resampler
      <3> QED
        BY <2>2, <2>4, <3>1 DEF Bit
    <2>6. /\ (round[u] + Bit(HasInput(u)))'
               = round[u] + Bit(HasInput(u)) + Bit(u = t /\ do = "filled_pop")
          /\ HasInput(u)' => /\ round'[u] = round[u]
                             /\ HasInput(u) \/ (u = t /\ do = "filled_pop")
          /\ u = t /\ do = "filled_pop" => ~HasInput(u)
      BY <2>1, TakenAdvance DEF MessagesInPlace
    <2>7. Len(filled[p])' + Bit(do = "filled_pop" /\ p = q)
            = Len(filled[p]) + Bit(do = "filled_push" /\ p = q)
      BY <1>0, <2>1, <2>2
    <2>8. (round[u] + Bit(HasInput(u)) + Len(filled[p]) = Published(w, p))'
      <3>1. Bit(u = t /\ do = "filled_pop") = Bit(do = "filled_pop" /\ p = q)
        BY <2>3 DEF Bit
      <3>2. \A b : Bit(b) \in Nat
        BY DEF Bit
      <3>3. TypeOK'
        BY TypeNext
      <3>4. filled'[p] \in Seq(Nat) /\ round'[u] \in Nat
        BY <1>0, <3>3 DEF TypeOK
      <3>5. /\ Len(filled[p])' \in Nat /\ Len(filled[p]) \in Nat
            /\ round'[u] + Bit(HasInput(u))' \in Nat
        BY <1>0, <3>4 DEF Bit
      <3>6. PICK e \in Nat, g \in Nat : /\ e = Bit(do = "filled_pop" /\ p = q)
                                      /\ g = Bit(do = "filled_push" /\ p = q)
        BY <3>2
      <3>7. PICK t0 \in Nat, t1 \in Nat : /\ t0 = round[u] + Bit(HasInput(u))
                                        /\ t1 = round'[u] + Bit(HasInput(u))'
        BY <1>0, <3>2, <3>5
      <3>8. PICK l0 \in Nat, l1 \in Nat : l0 = Len(filled[p]) /\ l1 = Len(filled[p])'
        BY <3>5
      <3>9. t1 = t0 + e /\ l1 + e = l0 + g
        BY <2>6, <2>7, <3>1, <3>6, <3>7, <3>8
      <3>10. t0 + l0 = Published(w, p) /\ Published(w, p)' = Published(w, p) + g
        BY <1>0, <2>5, <3>6, <3>7, <3>8
      <3>11. t1 + l1 = Published(w, p)'
        BY <3>9, <3>10
      <3> QED
        BY <3>7, <3>8, <3>11
    <2>9. ASSUME HasInput(u)'
          PROVE  IsMessage(Clock[p], round[u] + 1, got[u][p])'
      <3>1. CASE u = t /\ do = "filled_pop"
        <4>1. got'[u][p] = filled[p][1] /\ Len(filled[p]) > 0
          BY <1>0, <2>1, <2>2, <2>3, <3>1 DEF TypeOK
        <4>2. IsMessage(Clock[p], Published(w, p) - Len(filled[p]) + 1, filled[p][1])
          <5>1. 1 \in 1 .. Len(filled[p]) /\ p \in Outs[w]
            BY <1>0, <4>1
          <5>2. \A i \in 1 .. Len(filled[p]) :
                  IsMessage(Clock[p], Published(w, p) - Len(filled[p]) + i, filled[p][i])
            BY <5>1 DEF MessagesInPlace, FilledInPlace
          <5> QED
            BY <5>1, <5>2
        <4>3. Published(w, p) - Len(filled[p]) + 1 = round[u] + 1
          <5>1. round[u] + 0 + Len(filled[p]) = Published(w, p)
            BY <1>0, <2>6, <3>1 DEF Bit
          <5>2. Len(filled[p]) \in Nat
            BY <1>0
          <5>3. \A r, l \in Nat : (r + 0 + l) - l + 1 = r + 1
            OBVIOUS
          <5> QED
            BY <1>0, <5>1, <5>2, <5>3
        <4>4. IsMessage(Clock[p], round[u] + 1, filled[p][1])
          BY <4>2, <4>3
        <4> QED
          BY <1>0, <2>6, <2>9, <4>1, <4>4, ClockNext, PoolClock DEF IsMessage
      <3>2. CASE ~(u = t /\ do = "filled_pop")
        <4>1. got'[u][p] = got[u][p]
          <5>1. CASE do # "filled_pop"
            BY <2>1, <5>1
          <5>2. CASE do = "filled_pop" /\ u # t
            BY <1>0, <2>1, <5>2 DEF TypeOK
          <5> QED
            BY <3>2, <5>1, <5>2
        <4>2. IsMessage(Clock[p], round[u] + 1, got[u][p]) /\ round'[u] = round[u]
          BY <1>0, <2>6, <2>9, <3>2
        <4> QED
          BY <1>0, <4>1, <4>2, ClockNext, PoolClock DEF IsMessage
      <3> QED
        BY <3>1, <3>2
    <2> QED
      BY <2>8, <2>9
  <1>3. ASSUME NEW t \in Threads,
               \/ SourceProcess(t) \/ SourceCheck(t) \/ RelayProcess(t) \/ ResampleProcess(t)
        PROVE  /\ (round[u] + Bit(HasInput(u)) + Len(filled[p]) = Published(w, p))'
               /\ HasInput(u)' => IsMessage(Clock[p], round[u] + 1, got[u][p])'
    <2>1. Published(w, p)' = Published(w, p)
      BY <1>3, OtherStepPublished
    <2>2. UNCHANGED <<filled, got>>
      BY <1>3 DEF SourceProcess, SourceCheck, RelayProcess, ResampleProcess, flow
    <2>3. round'[u] = round[u] /\ (HasInput(u)' <=> HasInput(u))
      <3>1. CASE u # t
        <4>1. pc'[u] = pc[u] /\ round'[u] = round[u]
          BY <1>0, <1>3, <3>1, OtherStepOthers
        <4>2. rtnValuePush'[u] = rtnValuePush[u]
          BY <1>3, <3>1
             DEF SourceProcess, SourceCheck, RelayProcess, ResampleProcess, TypeOK, resampler
        <4> QED
          BY <4>1, <4>2 DEF HasInput
      <3>2. CASE u = t
        <4>1. ResampleProcess(t)
          BY <1>3, <3>2, CheckIsSource, KindsDisjoint
             DEF SourceProcess, SourceCheck, RelayProcess
        <4> QED
          BY <3>2, <4>1, ResampleProcessInput DEF ResampleProcess
      <3> QED
        BY <3>1, <3>2
    <2> QED
      BY <1>1, <2>1, <2>2, <2>3
  <1>4. ASSUME UNCHANGED <<filled, pc, got, round, timeStamp, rtnValuePush, rtnValuePop>>
        PROVE  /\ (round[u] + Bit(HasInput(u)) + Len(filled[p]) = Published(w, p))'
               /\ HasInput(u)' => IsMessage(Clock[p], round[u] + 1, got[u][p])'
    <2>1. Published(w, p)' = Published(w, p) /\ (HasInput(u)' <=> HasInput(u))
      BY <1>4 DEF Published, Count, Past, Been, Done, HasInput
    <2> QED
      BY <1>1, <1>4, <2>1
  <1>5. CASE \E t \in Sources : StopSource(t)
    BY <1>4, <1>5 DEF StopSource, flow, resampler
  <1>6. CASE UNCHANGED vars
    BY <1>4, <1>6 DEF vars
  <1> QED
    BY <1>2, <1>3, <1>5, <1>6 DEF Next, Step, Terminated

LEMMA ResamplersDrainNext ==
  ASSUME TypeOK, MessagesInPlace, PushFlags, ResamplerEndsOnlyAtEnd, ResamplersDrain,
         [Next]_vars
  PROVE  ResamplersDrain'
  <1> SUFFICES ASSUME NEW u \in Resamplers
               PROVE  /\ noMorePush'[u] => InStamp(u)' = 0 /\ HasInput(u)' /\ pc'[u] # 4
                      /\ pc'[u] = 8 => noMorePush'[u]
    BY DEF ResamplersDrain
  <1>0. /\ u \in Threads /\ u \notin Relays /\ u \notin Sources
        /\ noMorePush[u] => InStamp(u) = 0 /\ HasInput(u) /\ pc[u] # 4
        /\ pc[u] = 8 => noMorePush[u]
        /\ pc[u] = 7 => noMorePush[u]
    BY KindsDisjoint DEF ResamplersDrain, ResamplerEndsOnlyAtEnd
  <1>1. ASSUME UNCHANGED <<pc[u], got[u], rtnValuePush[u], noMorePush[u]>>
        PROVE  /\ noMorePush'[u] => InStamp(u)' = 0 /\ HasInput(u)' /\ pc'[u] # 4
               /\ pc'[u] = 8 => noMorePush'[u]
    <2>1. InStamp(u)' = InStamp(u) /\ (HasInput(u)' <=> HasInput(u))
      BY <1>1 DEF InStamp, HasInput
    <2> QED
      BY <1>0, <1>1, <2>1
  <1>2. ASSUME NEW t \in Threads,
               PopFilled(t) \/ PushEmpty(t) \/ PopEmpty(t) \/ PushFilled(t)
        PROVE  /\ noMorePush'[u] => InStamp(u)' = 0 /\ HasInput(u)' /\ pc'[u] # 4
               /\ pc'[u] = 8 => noMorePush'[u]
    <2>1. PICK do \in PoolOperations :
            /\ PoolStep(t, do)
            /\ do = "filled_pop" =>
                 got' = [got EXCEPT ![t][Op(t).pool] = filled[Op(t).pool][1]]
            /\ do # "filled_pop" => got' = got
      BY <1>2, FilledAdvance
    <2>2. /\ UNCHANGED <<noMorePush, rtnValuePush>> /\ Advance(t) /\ At(t, do)
      BY <2>1 DEF PoolStep, resampler
    <2>3. CASE u # t
      <3>1. pc'[u] = pc[u]
        BY <1>0, <2>2, <2>3, OthersStay
      <3>2. got'[u] = got[u]
        <4>1. CASE do = "filled_pop"
          <5>1. got' = [got EXCEPT ![t] = [got[t] EXCEPT ![Op(t).pool] = filled[Op(t).pool][1]]]
            BY <2>1, <4>1
          <5>2. DOMAIN got = Threads
            BY DEF TypeOK
          <5> QED
            BY <1>0, <2>3, <5>1, <5>2
        <4> QED
          BY <2>1, <4>1
      <3> QED
        BY <1>1, <2>2, <3>1, <3>2
    <2>4. CASE u = t
      <3>1. /\ pc[u] \in 1 .. 7 /\ pc[u] # 3 /\ (do = "filled_pop" <=> pc[u] = 1)
            /\ pc'[u] = ResamplerNext(u)
        <4>1. pc[u] \in 1 .. Last[u] /\ Ops[u][pc[u]].do = do
          BY <1>0, <2>2, <2>4, PcBounds
        <4>2. pc'[u] = ResamplerNext(u)
          BY <1>0, <2>2, <2>4 DEF Advance, TypeOK
        <4> QED
          BY <4>1, <4>2, ResamplerAt DEF PoolOperations
      <3>2. pc'[u] = 8 => pc[u] = 7
        BY <3>1 DEF ResamplerNext
      <3>3. ASSUME noMorePush[u]
            PROVE  InStamp(u)' = 0 /\ HasInput(u)' /\ pc'[u] # 4
        <4>1. /\ InStamp(u) = 0 /\ pc[u] # 1 /\ pc[u] # 4
              /\ pc[u] = 5 => rtnValuePush[u] = -1
          BY <1>0, <3>3 DEF HasInput
        <4>2. InStamp(u)' = 0
          BY <2>1, <3>1, <4>1 DEF InStamp
        <4>3. pc[u] = 2 \/ pc[u] = 5 \/ pc[u] = 6 \/ pc[u] = 7
          BY <3>1, <4>1
        <4>4. HasInput(u)' /\ pc'[u] # 4
          BY <2>2, <3>1, <4>1, <4>3 DEF HasInput, ResamplerNext
        <4> QED
          BY <4>2, <4>4
      <3> QED
        BY <1>0, <2>2, <3>2, <3>3
    <2> QED
      BY <2>3, <2>4
  <1>3. ASSUME NEW t \in Threads,
               \/ SourceProcess(t) \/ SourceCheck(t) \/ RelayProcess(t) \/ ResampleProcess(t)
        PROVE  /\ noMorePush'[u] => InStamp(u)' = 0 /\ HasInput(u)' /\ pc'[u] # 4
               /\ pc'[u] = 8 => noMorePush'[u]
    <2>1. got' = got
      BY <1>3 DEF SourceProcess, SourceCheck, RelayProcess, ResampleProcess
    <2>2. CASE u # t
      <3>1. pc'[u] = pc[u]
        BY <1>0, <1>3, <2>2, OtherStepOthers
      <3>2. rtnValuePush'[u] = rtnValuePush[u] /\ noMorePush'[u] = noMorePush[u]
        BY <1>3, <2>2
           DEF SourceProcess, SourceCheck, RelayProcess, ResampleProcess, TypeOK, resampler
      <3> QED
        BY <1>1, <2>1, <3>1, <3>2
    <2>3. CASE u = t
      <3>1. ResampleProcess(t)
        BY <1>0, <1>3, <2>3, CheckIsSource DEF SourceProcess, SourceCheck, RelayProcess
      <3>2. /\ HasInput(t)' /\ (pc'[t] = 4 => InStamp(t) # 0) /\ pc'[t] # 8
            /\ noMorePush'[t] <=> noMorePush[t] \/ InStamp(t) = 0
        BY <1>0, <2>3, <3>1, ResampleProcessInput
      <3>3. InStamp(t)' = InStamp(t)
        BY <2>1 DEF InStamp
      <3> QED
        BY <1>0, <2>3, <3>2, <3>3
    <2> QED
      BY <2>2, <2>3
  <1>4. CASE \E t \in Sources : StopSource(t)
    BY <1>1, <1>4 DEF StopSource, resampler
  <1>5. CASE UNCHANGED vars
    BY <1>1, <1>5 DEF vars
  <1> QED
    BY <1>2, <1>3, <1>4, <1>5 DEF Next, Step, Terminated

LEMMA StreamEndsInit == Init => StreamEnds
  <1> SUFFICES ASSUME Init
               PROVE  StreamEnds
    OBVIOUS
  <1>1. /\ pc = [t \in Threads |-> 1] /\ round = [t \in Threads |-> 0]
        /\ filled = [p \in Pools |-> <<>>]
        /\ timeStamp = [t \in Sources \cup Resamplers |-> 0]
        /\ rtnValuePush = [t \in Resamplers |-> 0]
        /\ noMorePush = [t \in Resamplers |-> FALSE]
    BY DEF Init
  <1>2. ASSUME NEW t \in Relays
        PROVE  ~Done(t) /\ ~Past(t, "process", "-")
    <2>1. pc[t] = 1 /\ Last[t] \in Nat /\ Position(t, "process", "-") \in 1 .. Last[t] - 1
      BY <1>1, RelayPlaces, KindsDisjoint
    <2> QED
      BY <2>1 DEF Done, Past, Been
  <1>3. RelaysEnd /\ SinksEnd
    BY <1>2, KindsDisjoint DEF RelaysEnd, SinksEnd
  <1>4. ResamplersTake
    <2> SUFFICES ASSUME NEW w \in Threads, NEW u \in Resamplers, NEW p \in Outs[w] \cap Ins[u]
                 PROVE  /\ round[u] + Bit(HasInput(u)) + Len(filled[p]) = Published(w, p)
                        /\ HasInput(u) => IsMessage(Clock[p], round[u] + 1, got[u][p])
      BY DEF ResamplersTake
    <2>1. ~HasInput(u) /\ round[u] = 0 /\ u \in Threads
      BY <1>1, KindsDisjoint DEF HasInput
    <2>2. Len(filled[p]) = 0
      BY <1>1, PoolClock
    <2>3. Published(w, p) = 0
      <3>1. CASE w \in Sources \cup Resamplers
        BY <1>1, <3>1 DEF Published, Bit
      <3>2. CASE w \in Relays
        <4>1. ~Past(w, "filled_push", p)
          <5>1. pc[w] = 1 /\ Last[w] \in Nat /\ Position(w, "filled_push", p) \in 1 .. Last[w]
            BY <1>1, <3>2, RelayPlaces, KindsDisjoint
          <5> QED
            BY <5>1 DEF Past, Been
        <4>2. w \notin Sources /\ w \notin Resamplers /\ round[w] = 0
          BY <1>1, <3>2, KindsDisjoint
        <4> QED
          BY <4>1, <4>2 DEF Published, Count, Bit
      <3> QED
        BY <3>1, <3>2, LoopsAssumption
    <2> QED
      BY <2>1, <2>2, <2>3 DEF Bit
  <1>5. ResamplersDrain
    BY <1>1, KindsDisjoint DEF ResamplersDrain
  <1> QED
    BY <1>3, <1>4, <1>5 DEF StreamEnds

LEMMA Spec_StreamEnds == Spec => []StreamEnds
  <1>1. /\ TypeOK /\ MessagesInPlace /\ ResamplerEndsOnlyAtEnd /\ Conserved
        /\ StreamEnds /\ [Next]_vars
        => StreamEnds'
    <2> SUFFICES ASSUME TypeOK, MessagesInPlace, ResamplerEndsOnlyAtEnd, PushFlags,
                        StreamEnds, [Next]_vars
                 PROVE  StreamEnds'
      BY DEF Conserved
    <2> QED
      BY RelaysEndNext, ResamplersTakeNext, ResamplersDrainNext DEF StreamEnds
  <1> QED
    BY <1>1, StreamEndsInit, Spec_TypeOK, Spec_MessagesInPlace,
       Spec_ResamplerEndsOnlyAtEnd, Spec_Conserved, PTL DEF Spec

\* When all threads are done, what was published on a pool has been taken.
LEMMA NothingFilled ==
  ASSUME TypeOK, MessagesInPlace, StreamEnds, AllDone, NEW p \in Pools
  PROVE  Len(filled[p]) = 0
  <1>1. PICK w \in Threads, u \in Threads : p \in Outs[w] /\ p \in Ins[u]
    BY NetworkAssumption
  <1> DEFINE c == Clock[p]
  <1>2. /\ c \in Sources \cup Resamplers /\ timeStamp[c] \in Nat
        /\ filled[p] \in Seq(Nat) /\ Done(w) /\ Done(u)
    BY <1>1, NetworkAssumption DEF TypeOK, AllDone
  <1>3. Published(w, p) = timeStamp[c] + 1
    <2>1. CASE w \in Sources
      <3>1. pc[w] = 7 /\ c = w
        BY <1>1, <1>2, <2>1, NetworkAssumption, LoopsAssumption DEF Done, SourceLoop, TypeOK
      <3> QED
        BY <1>2, <2>1, <3>1 DEF Published, Bit
    <2>2. CASE w \in Resamplers
      <3>1. pc[w] = 8 /\ c = w
        BY <1>1, <1>2, <2>2, NetworkAssumption, LoopsAssumption DEF Done, ResamplerLoop, TypeOK
      <3> QED
        BY <1>2, <2>2, <3>1, KindsDisjoint DEF Published, Bit
    <2>3. CASE w \in Relays
      <3>1. PICK q \in Ins[w] : Clock[q] = c
        BY <1>1, <2>3, NetworkAssumption
      <3>2. round[w] = timeStamp[c] + 1
        BY <1>2, <2>3, <3>1 DEF StreamEnds, RelaysEnd
      <3>3. Count(w, "filled_push", p) = round[w]
        BY <1>2, <2>3, <3>2 DEF Count, Past, Been, Bit
      <3> QED
        BY <2>3, <3>2, <3>3, KindsDisjoint DEF Published
    <2> QED
      BY <2>1, <2>2, <2>3, LoopsAssumption
  <1>4. CASE u \in Relays
    <2>1. Count(u, "filled_pop", p) = timeStamp[c] + 1
      BY <1>1, <1>2, <1>4 DEF Count, Past, Been, Bit, StreamEnds, RelaysEnd
    <2>2. Count(u, "filled_pop", p) + Len(filled[p]) = Published(w, p)
      BY <1>1, <1>4 DEF MessagesInPlace, TakenInPlace
    <2>3. Len(filled[p]) \in Nat
      BY <1>2
    <2> QED
      BY <1>2, <1>3, <2>1, <2>2, <2>3
  <1>5. CASE u \in Resamplers
    <2>0. p = Ops[u][1].pool
      BY <1>1, <1>5, ResamplerInput
    <2>1. pc[u] = 8
      BY <1>2, <1>5, LoopsAssumption DEF Done, ResamplerLoop, TypeOK
    <2>2. got[u][p] = 0 /\ HasInput(u)
      BY <1>5, <2>0, <2>1 DEF StreamEnds, ResamplersDrain, InStamp, HasInput
    <2>3. /\ round[u] + 1 + Len(filled[p]) = Published(w, p)
          /\ IsMessage(c, round[u] + 1, 0)
      BY <1>1, <1>5, <2>2 DEF StreamEnds, ResamplersTake, Bit
    <2>4. round[u] + 1 = timeStamp[c] + 1 /\ Len(filled[p]) \in Nat /\ round[u] \in Nat
      BY <1>2, <2>3 DEF IsMessage, TypeOK
    <2> QED
      BY <1>2, <1>3, <2>3, <2>4
  <1>6. CASE u \in Sources
    <2>1. PICK i \in 1 .. Last[u] : Ops[u][i].do = "filled_pop"
      BY <1>1, InsOps DEF Does
    <2> QED
      BY <1>6, <2>1, SourceAt
  <1> QED
    BY <1>4, <1>5, <1>6, LoopsAssumption

\* In every network of these threads: when the last thread has left its loop,
\* each sink has written every hop that its clock ever stamped, every FIFO of
\* filled messages is empty and every message object is back in the FIFO from
\* which amsg_*_destroy frees it.  So threads_multiple_join leaks nothing.
THEOREM Spec_NothingLeftBehind == Spec => []NothingLeftBehind
  <1>1. ASSUME TypeOK, MessagesInPlace, Conserved, StreamEnds
        PROVE  NothingLeftBehind
    <2> SUFFICES ASSUME AllDone
                 PROVE  /\ \A t \in Sinks : \A p \in Ins[t] :
                             Len(written[t]) = timeStamp[Clock[p]]
                        /\ \A p \in Pools : empty[p] = nMessages
      BY DEF NothingLeftBehind
    <2>1. ASSUME NEW t \in Sinks, NEW p \in Ins[t]
          PROVE  Len(written[t]) = timeStamp[Clock[p]]
      <3>1. t \in Relays /\ t \in Threads /\ Done(t)
        BY KindsDisjoint DEF AllDone
      <3>2. /\ round[t] = timeStamp[Clock[p]] + 1 /\ Len(written[t]) = round[t] - 1
            /\ timeStamp[Clock[p]] \in Nat
        BY <1>1, <3>1, PoolClock DEF StreamEnds, RelaysEnd, SinksEnd, TypeOK
      <3> QED
        BY <3>2
    <2>2. ASSUME NEW p \in Pools
          PROVE  empty[p] = nMessages
      <3>1. ASSUME NEW t \in Threads
            PROVE  ~Holds(t, p)
        <4>1. Done(t) /\ pc[t] \in 1 .. Last[t] + 1 /\ Last[t] \in Nat
          BY <1>1, LoopsAssumption DEF AllDone, TypeOK
        <4>2. pc[t] = Last[t] + 1
          BY <4>1 DEF Done
        <4>3. CASE t \in Resamplers
          BY <4>2, <4>3, LoopsAssumption DEF Holds, ResamplerLoop
        <4>4. CASE t \notin Resamplers
          BY <4>2, <4>4, HeldAtEnds DEF Holds
        <4> QED
          BY <4>3, <4>4
      <3>2. Holders(p) = {}
        BY <3>1 DEF Holders
      <3>3. Cardinality(Holders(p)) = 0
        BY <3>2, FS_EmptySet
      <3>4. Len(filled[p]) + empty[p] + Cardinality(Holders(p)) = nMessages
        BY <1>1 DEF Conserved
      <3>5. Len(filled[p]) = 0 /\ empty[p] \in Nat
        BY <1>1, NothingFilled, SizesAssumption DEF TypeOK
      <3> QED
        BY <3>3, <3>4, <3>5
    <2> QED
      BY <2>1, <2>2
  <1> QED
    BY <1>1, Spec_TypeOK, Spec_MessagesInPlace, Spec_Conserved, Spec_StreamEnds, PTL

(***************************************************************************)
(* What a resampler converts                                               *)
(***************************************************************************)
\* Every sample of the hops that an enabled resampler accepted is in its buffer or
\* in a hop that it stamped, and it leaves its loop with less than a hop left.
\* (Bit: the input accepted last is counted in round only when it is returned.)
SamplesKept ==
  \A t \in Resamplers \cap Enabled :
    /\ intervalSize[t] + timeStamp[t] * IntervalOut(Rate[t])
         = (round[t] + Bit(pc[t] = 4)) * IntervalIn(Rate[t])
    /\ pc[t] >= 6 => intervalSize[t] < IntervalOut(Rate[t])

LEMMA IntervalsPositive ==
  ASSUME NEW t \in Resamplers
  PROVE  IntervalIn(Rate[t]) \in Nat \ {0} /\ IntervalOut(Rate[t]) \in Nat \ {0}
  <1>1. ASSUME NEW x \in Nat \ {0}, NEW y \in Nat \ {0}
        PROVE  x * y \in Nat \ {0}
    BY SMTT(30)
  <1>2. /\ Rate[t].hopSizeIn \in Nat \ {0} /\ Rate[t].fSout \in Nat \ {0}
        /\ Rate[t].hopSizeOut \in Nat \ {0} /\ Rate[t].fSin \in Nat \ {0}
    BY SizesAssumption
  <1> QED
    BY <1>1, <1>2 DEF IntervalIn, IntervalOut

LEMMA OneMore ==
  ASSUME NEW n \in Nat, NEW x \in Nat
  PROVE  n * x \in Nat /\ (n + 1) * x = n * x + x
  OBVIOUS

LEMMA SamplesKeptInit == Init => SamplesKept
  <1> SUFFICES ASSUME Init, NEW t \in Resamplers \cap Enabled
               PROVE  /\ intervalSize[t] + timeStamp[t] * IntervalOut(Rate[t])
                           = (round[t] + Bit(pc[t] = 4)) * IntervalIn(Rate[t])
                      /\ pc[t] >= 6 => intervalSize[t] < IntervalOut(Rate[t])
    BY DEF SamplesKept
  <1>1. pc[t] = 1 /\ round[t] = 0 /\ timeStamp[t] = 0 /\ intervalSize[t] = 0
    BY KindsDisjoint DEF Init
  <1>2. PICK x \in Nat, y \in Nat : x = IntervalIn(Rate[t]) /\ y = IntervalOut(Rate[t])
    BY IntervalsPositive
  <1>3. 0 + 0 * y = (0 + 0) * x
    OBVIOUS
  <1> QED
    BY <1>1, <1>2, <1>3 DEF Bit

LEMMA SamplesKeptNext ==
  ASSUME TypeOK, SamplesKept, [Next]_vars
  PROVE  SamplesKept'
  <1> SUFFICES ASSUME NEW u \in Resamplers \cap Enabled
               PROVE  /\ intervalSize'[u] + timeStamp'[u] * IntervalOut(Rate[u])
                           = (round'[u] + Bit(pc'[u] = 4)) * IntervalIn(Rate[u])
                      /\ pc'[u] >= 6 => intervalSize'[u] < IntervalOut(Rate[u])
    BY DEF SamplesKept, Bit
  <1>0. /\ u \in Threads /\ u \in Resamplers /\ u \notin Relays /\ u \notin Sources
        /\ pc[u] \in Nat /\ round[u] \in Nat /\ timeStamp[u] \in Nat
        /\ intervalSize[u] \in Nat
    BY KindsDisjoint DEF TypeOK
  <1>1. PICK x \in Nat \ {0}, y \in Nat \ {0} :
          x = IntervalIn(Rate[u]) /\ y = IntervalOut(Rate[u])
    BY <1>0, IntervalsPositive
  <1>2. /\ intervalSize[u] + timeStamp[u] * y = (round[u] + Bit(pc[u] = 4)) * x
        /\ pc[u] >= 6 => intervalSize[u] < y
    BY <1>1 DEF SamplesKept
  <1>3. ASSUME UNCHANGED <<timeStamp[u], intervalSize[u]>>,
               round'[u] + Bit(pc'[u] = 4) = round[u] + Bit(pc[u] = 4),
               pc'[u] >= 6 => pc[u] >= 6
        PROVE  /\ intervalSize'[u] + timeStamp'[u] * y = (round'[u] + Bit(pc'[u] = 4)) * x
               /\ pc'[u] >= 6 => intervalSize'[u] < y
    BY <1>2, <1>3
  <1>4. ASSUME NEW t \in Threads,
               PopFilled(t) \/ PushEmpty(t) \/ PopEmpty(t) \/ PushFilled(t)
        PROVE  /\ intervalSize'[u] + timeStamp'[u] * y = (round'[u] + Bit(pc'[u] = 4)) * x
               /\ pc'[u] >= 6 => intervalSize'[u] < y
    <2>1. PICK do \in PoolOperations : PoolStep(t, do)
      BY <1>4, PoolSteps
    <2>2. UNCHANGED <<timeStamp, intervalSize>> /\ Advance(t) /\ At(t, do)
      BY <2>1 DEF PoolStep, resampler
    <2>3. CASE u # t
      <3>1. pc'[u] = pc[u] /\ round'[u] = round[u]
        BY <1>0, <2>2, <2>3, OthersStay
      <3> QED
        BY <1>3, <2>2, <3>1
    <2>4. CASE u = t
      <3>1. pc[u] \in 1 .. 7 /\ pc[u] # 3
        <4>1. pc[u] \in 1 .. Last[u] /\ Ops[u][pc[u]].do = do
          BY <1>0, <2>2, <2>4, PcBounds
        <4> QED
          BY <1>0, <4>1, ResamplerAt DEF PoolOperations
      <3>2. pc'[u] = ResamplerNext(u)
        BY <1>0, <2>2, <2>4 DEF Advance, TypeOK
      <3>3. round'[u] = IF pc[u] = 4 THEN round[u] + 1 ELSE round[u]
        BY <1>0, <2>2, <2>4 DEF Advance, TypeOK
      <3>4. pc'[u] # 4 /\ (pc'[u] >= 6 => pc[u] >= 6)
        BY <3>1, <3>2 DEF ResamplerNext
      <3>5. round'[u] + Bit(pc'[u] = 4) = round[u] + Bit(pc[u] = 4)
        BY <1>0, <3>3, <3>4 DEF Bit
      <3> QED
        BY <1>3, <2>2, <3>4, <3>5
    <2> QED
      BY <2>3, <2>4
  <1>5. ASSUME NEW t \in Threads, ResampleProcess(t), u = t
        PROVE  /\ intervalSize'[u] + timeStamp'[u] * y = (round'[u] + Bit(pc'[u] = 4)) * x
               /\ pc'[u] >= 6 => intervalSize'[u] < y
    <2>1. pc[u] = 3
      BY <1>0, <1>5, ResampleProcessInput
    <2>2. /\ round'[u] = round[u]
          /\ pc'[u] = IF PushAccepted(u) THEN 4 ELSE IF PopAccepted(u) THEN 5 ELSE 6
          /\ timeStamp'[u] = IF PopAccepted(u) THEN timeStamp[u] + 1 ELSE timeStamp[u]
          /\ intervalSize'[u] = IF PopAccepted(u) THEN AfterPop(Rate[u], SizeAfterPush(u))
                                                  ELSE SizeAfterPush(u)
      BY <1>0, <1>5 DEF ResampleProcess, TypeOK
    <2>3. PICK size \in Nat : /\ size = SizeAfterPush(u)
                              /\ size = IF PushAccepted(u) THEN intervalSize[u] + x
                                                           ELSE intervalSize[u]
      BY <1>0, <1>1 DEF SizeAfterPush, PushAccepted, AfterPush
    <2>4. PopAccepted(u) => size >= y /\ intervalSize'[u] = size - y
      BY <1>1, <2>2, <2>3 DEF PopAccepted, AfterPop, isEmpty
    <2>5. ~PopAccepted(u) => size < y /\ intervalSize'[u] = size
      BY <1>1, <2>2, <2>3 DEF PopAccepted, isEmpty
    <2>6. intervalSize'[u] + timeStamp'[u] * y = size + timeStamp[u] * y
      <3>1. timeStamp[u] * y \in Nat /\ (timeStamp[u] + 1) * y = timeStamp[u] * y + y
        BY <1>0, OneMore
      <3>2. PICK n \in Nat, m \in Nat : n = timeStamp[u] * y /\ m = (timeStamp[u] + 1) * y
        BY <3>1
      <3>3. CASE PopAccepted(u)
        BY <2>2, <2>4, <3>1, <3>2, <3>3
      <3>4. CASE ~PopAccepted(u)
        BY <2>2, <2>5, <3>4
      <3> QED
        BY <3>3, <3>4
    <2>7. size + timeStamp[u] * y = (round'[u] + Bit(pc'[u] = 4)) * x
      <3>1. intervalSize[u] + timeStamp[u] * y = round[u] * x
        BY <1>0, <1>2, <2>1 DEF Bit
      <3>2. round[u] * x \in Nat /\ (round[u] + 1) * x = round[u] * x + x
        BY <1>0, OneMore
      <3>3. PICK n \in Nat, m \in Nat : n = timeStamp[u] * y /\ m = round[u] * x
        BY <1>0, <3>2, OneMore
      <3>4. CASE PushAccepted(u)
        <4>1. (round'[u] + Bit(pc'[u] = 4)) * x = m + x
          BY <2>2, <3>2, <3>3, <3>4 DEF Bit
        <4> QED
          BY <1>0, <2>3, <3>1, <3>3, <3>4, <4>1
      <3>5. CASE ~PushAccepted(u)
        <4>1. (round'[u] + Bit(pc'[u] = 4)) = round[u]
          BY <1>0, <2>2, <3>5 DEF Bit
        <4> QED
          BY <2>3, <3>1, <3>5, <4>1
      <3> QED
        BY <3>4, <3>5
    <2>8. pc'[u] >= 6 => intervalSize'[u] < y
      BY <2>2, <2>5
    <2> QED
      BY <2>6, <2>7, <2>8
  <1>6. ASSUME NEW t \in Threads,
               \/ SourceProcess(t) \/ SourceCheck(t) \/ RelayProcess(t) \/ ResampleProcess(t),
               ~(ResampleProcess(t) /\ u = t)
        PROVE  /\ intervalSize'[u] + timeStamp'[u] * y = (round'[u] + Bit(pc'[u] = 4)) * x
               /\ pc'[u] >= 6 => intervalSize'[u] < y
    <2>1. u # t
      BY <1>0, <1>6, CheckIsSource DEF SourceProcess, SourceCheck, RelayProcess
    <2>2. pc'[u] = pc[u] /\ round'[u] = round[u]
      BY <1>0, <1>6, <2>1, OtherStepOthers
    <2>3. timeStamp'[u] = timeStamp[u] /\ intervalSize'[u] = intervalSize[u]
      BY <1>0, <1>6, <2>1
         DEF SourceProcess, SourceCheck, RelayProcess, ResampleProcess, TypeOK, resampler
    <2> QED
      BY <1>3, <2>2, <2>3
  <1>7. ASSUME \/ \E t \in Sources : StopSource(t)
               \/ UNCHANGED vars
        PROVE  /\ intervalSize'[u] + timeStamp'[u] * y = (round'[u] + Bit(pc'[u] = 4)) * x
               /\ pc'[u] >= 6 => intervalSize'[u] < y
    BY <1>3, <1>7 DEF StopSource, resampler, vars
  <1>8. /\ intervalSize'[u] + timeStamp'[u] * y = (round'[u] + Bit(pc'[u] = 4)) * x
        /\ pc'[u] >= 6 => intervalSize'[u] < y
    BY <1>4, <1>5, <1>6, <1>7 DEF Next, Step, Terminated
  <1> QED
    BY <1>1, <1>8

\* a quotient is known by the multiples around the dividend
LEMMA QuotientIs ==
  ASSUME NEW n \in Nat, NEW y \in Nat \ {0}, NEW r \in Nat, r < y
  PROVE  (r + n * y) \div y = n
  <1> DEFINE z == r + n * y
             q == z \div y
  <1>1. z \in Nat
    BY OneMore
  <1> HIDE DEF z
  <1>2. q \in Nat /\ y * q <= z /\ z < y * q + y
    BY <1>1, SMTT(30)
  <1> HIDE DEF q
  <1>3. ASSUME q < n
        PROVE  FALSE
    <2>1. PICK d \in Nat : n = q + 1 + d
      <3>1. n - (q + 1) \in Nat /\ n = q + 1 + (n - (q + 1))
        BY <1>2, <1>3
      <3> QED
        BY <3>1
    <2>2. n * y = y * q + y + d * y /\ d * y \in Nat /\ y * q \in Nat
      BY <1>2, <2>1, SMTT(30)
    <2>3. PICK a \in Nat, b \in Nat : a = d * y /\ b = y * q
      BY <2>2
    <2> QED
      BY <1>2, <2>2, <2>3 DEF z
  <1>4. ASSUME q > n
        PROVE  FALSE
    <2>1. PICK d \in Nat : q = n + 1 + d
      <3>1. q - (n + 1) \in Nat /\ q = n + 1 + (q - (n + 1))
        BY <1>2, <1>4
      <3> QED
        BY <3>1
    <2>2. y * q = n * y + y + d * y /\ d * y \in Nat /\ n * y \in Nat
      BY <1>2, <2>1, SMTT(30)
    <2>3. PICK a \in Nat, b \in Nat : a = d * y /\ b = n * y
      BY <2>2
    <2> QED
      BY <1>2, <2>2, <2>3 DEF z
  <1>5. q = n
    BY <1>2, <1>3, <1>4
  <1> QED
    BY <1>5 DEF q, z

\* A resampler that is done has turned the hops it read into as many output hops
\* as they hold samples for, for every pair of sampling rates and hop sizes: the
\* push that hop2hop refuses when its buffer is full is done again, and the pop
\* goes on after the "0" message until less than a hop is left.
THEOREM Spec_ResamplerConverts == Spec => []ResamplerConverts
  <1>1. TypeOK /\ SamplesKept => ResamplerConverts
    <2> SUFFICES ASSUME TypeOK, SamplesKept, NEW t \in Resamplers \cap Enabled, Done(t)
                 PROVE  timeStamp[t]
                          = (round[t] * IntervalIn(Rate[t])) \div IntervalOut(Rate[t])
      BY DEF ResamplerConverts
    <2>1. pc[t] = 8
      BY LoopsAssumption, KindsDisjoint DEF Done, ResamplerLoop, TypeOK
    <2>2. intervalSize[t] \in Nat /\ timeStamp[t] \in Nat /\ round[t] \in Nat
      BY KindsDisjoint DEF TypeOK
    <2>3. PICK x \in Nat \ {0}, y \in Nat \ {0} :
            x = IntervalIn(Rate[t]) /\ y = IntervalOut(Rate[t])
      BY IntervalsPositive
    <2>4. /\ intervalSize[t] + timeStamp[t] * y = (round[t] + Bit(pc[t] = 4)) * x
          /\ pc[t] >= 6 => intervalSize[t] < y
      BY <2>3 DEF SamplesKept
    <2>5. round[t] + Bit(pc[t] = 4) = round[t]
      BY <2>1, <2>2 DEF Bit
    <2>6. intervalSize[t] + timeStamp[t] * y = round[t] * x /\ intervalSize[t] < y
      BY <2>1, <2>4, <2>5
    <2>7. (intervalSize[t] + timeStamp[t] * y) \div y = timeStamp[t]
      BY <2>2, <2>6, QuotientIs
    <2> QED
      BY <2>3, <2>6, <2>7
  <1>2. Spec => []SamplesKept
    BY SamplesKeptInit, SamplesKeptNext, Spec_TypeOK, PTL DEF Spec
  <1> QED
    BY <1>1, <1>2, Spec_TypeOK, PTL

(***************************************************************************)
(* The refinement.  With one source, on whose clock all sinks run, the     *)
(* step of src that stamps a hop is Produce and its exit from the loop is  *)
(* End; the processing of a message that is not the "0" one by a sink is   *)
(* Deliver, and the last operation of its last round is Close.             *)
(***************************************************************************)
OneClock == src \in Sources /\ \A t \in Sinks : \A p \in Ins[t] : Clock[p] = src

\* A sink is a relay with an input, and no source.
LEMMA SinkFacts ==
  ASSUME OneClock, TypeOK, NEW s \in Sinks
  PROVE  /\ s \in Relays /\ s \in Threads /\ s # src /\ s \notin Resamplers
         /\ written[s] \in Seq(Nat) /\ round[s] \in Nat /\ timeStamp[src] \in Nat
         /\ \E p \in Ins[s] : Clock[p] = src
  <1>1. s \in Relays /\ s \in Threads /\ s # src /\ s \notin Resamplers
    BY KindsDisjoint DEF OneClock
  <1>2. Ins[s] # {}
    BY <1>1, NetworkAssumption
  <1>3. \E p \in Ins[s] : Clock[p] = src
    BY <1>2 DEF OneClock
  <1> QED
    BY <1>1, <1>3 DEF TypeOK, OneClock

\* A step in which neither src nor a sink gets further is none of the stream.
LEMMA StreamStutters ==
  ASSUME UNCHANGED timeStamp[src], (pc[src] >= 5)' <=> pc[src] >= 5,
         \A s \in Sinks : written'[s] = written[s] /\ (Done(s)' <=> Done(s))
  PROVE  UNCHANGED Stream!vars
  <1>1. [s \in Sinks |-> Done(s)]' = [s \in Sinks |-> Done(s)]
    BY DEF Done
  <1>2. [s \in Sinks |-> Len(written[s])]' = [s \in Sinks |-> Len(written[s])]
    OBVIOUS
  <1>3. (pc[src] >= 5)' = (pc[src] >= 5)
    OBVIOUS
  <1> QED
    BY <1>1, <1>2, <1>3 DEF Stream!vars

\* the operations on pools
LEMMA PoolStepRefines ==
  ASSUME OneClock, TypeOK, TypeOK', StreamEnds',
         NEW t \in Threads, NEW do \in PoolOperations, PoolStep(t, do)
  PROVE  [Stream!Next]_(Stream!vars)
  <1>0. /\ At(t, do) /\ Advance(t) /\ timeStamp' = timeStamp /\ written' = written
        /\ src \in Sources /\ src \in Threads /\ src \notin Relays /\ src \notin Resamplers
        /\ pc[src] \in Nat
    BY KindsDisjoint DEF PoolStep, OneClock, TypeOK
  <1>1. (pc[src] >= 5)' <=> pc[src] >= 5
    <2>1. CASE src # t
      BY <1>0, <2>1, OthersStay
    <2>2. CASE src = t
      <3>1. pc[t] \in 1 .. Last[t] /\ Ops[t][pc[t]].do = do
        BY <1>0, PcBounds
      <3>2. pc[t] # 4
        <4>1. Ops[t][4].do = "check"
          BY <1>0, <2>2, LoopsAssumption DEF SourceLoop
        <4> QED
          BY <3>1, <4>1 DEF PoolOperations
      <3>3. pc'[t] = pc[t] + 1
        BY <1>0, <2>2 DEF Advance, TypeOK
      <3> QED
        BY <1>0, <2>2, <3>2, <3>3
    <2> QED
      BY <2>1, <2>2
  <1>2. \A s \in Sinks \ {t} : Done(s)' <=> Done(s)
    BY <1>0, SinkFacts, OthersStay DEF Done
  <1>3. CASE t \in Sinks /\ Done(t)'
    <2>1. ~Done(t) /\ t \in Relays
      BY <1>0, <1>3, SinkFacts DEF At
    <2>2. PICK p \in Ins[t] : Clock[p] = src
      BY <1>3, SinkFacts
    <2>3. pc'[src] >= 5 /\ round'[t] = timeStamp'[src] + 1 /\ Len(written'[t]) = round'[t] - 1
      BY <1>0, <1>3, <2>1, <2>2 DEF StreamEnds, RelaysEnd, SinksEnd, Ended
    <2>4. Len(written[t]) = timeStamp[src]
      BY <1>0, <1>3, <2>3, SinkFacts
    <2>5. [s \in Sinks |-> Done(s)]' = [[s \in Sinks |-> Done(s)] EXCEPT ![t] = TRUE]
      <3>1. ASSUME NEW s \in Sinks
            PROVE  Done(s)' = IF s = t THEN TRUE ELSE Done(s)
        <4>1. s \in Threads /\ Last[s] \in Nat /\ pc'[s] \in Nat /\ pc[s] \in Nat
          BY SinkFacts, LoopsAssumption DEF TypeOK
        <4>2. CASE s = t
          BY <1>3, <4>1, <4>2 DEF Done
        <4>3. CASE s # t
          BY <1>2, <4>1, <4>3 DEF Done
        <4> QED
          BY <4>2, <4>3
      <3>2. [s \in Sinks |-> Done(s)]' = [s \in Sinks |-> IF s = t THEN TRUE ELSE Done(s)]
        BY <3>1
      <3> QED
        BY <1>3, <3>2
    <2>6. Stream!Close(t)
      BY <1>0, <1>1, <1>3, <2>1, <2>3, <2>4, <2>5 DEF Stream!Close
    <2> QED
      BY <1>3, <2>6 DEF Stream!Next
  <1>4. CASE ~(t \in Sinks /\ Done(t)')
    <2>1. \A s \in Sinks : Done(s)' <=> Done(s)
      BY <1>0, <1>2, <1>4 DEF At
    <2> QED
      BY <1>0, <1>1, <2>1, StreamStutters
  <1> QED
    BY <1>3, <1>4

LEMMA SourceRefines ==
  ASSUME OneClock, TypeOK, NEW t \in Threads, SourceProcess(t) \/ SourceCheck(t)
  PROVE  [Stream!Next]_(Stream!vars)
  <1>0. /\ t \in Sources /\ src \in Sources /\ src \in Threads /\ written' = written
        /\ pc[src] \in Nat /\ timeStamp[src] \in Nat
    BY CheckIsSource, KindsDisjoint DEF SourceProcess, SourceCheck, OneClock, TypeOK
  <1>1. \A s \in Sinks : Done(s)' <=> Done(s)
    <2>1. \A s \in Sinks : s \in Threads \ {t}
      BY <1>0, KindsDisjoint
    <2> QED
      BY <2>1, OtherStepOthers DEF Done
  <1>2. CASE t # src
    <2>1. pc'[src] = pc[src]
      BY <1>0, <1>2, OtherStepOthers
    <2>2. timeStamp'[src] = timeStamp[src]
      BY <1>0, <1>2 DEF SourceProcess, SourceCheck, TypeOK
    <2> QED
      BY <1>0, <1>1, <2>1, <2>2, StreamStutters
  <1>3. CASE t = src /\ SourceProcess(t)
    <2>1. pc[t] = 2
      <3>1. pc[t] \in 1 .. Last[t] /\ Ops[t][pc[t]].do = "process"
        BY <1>3, PcBounds DEF SourceProcess
      <3> QED
        BY <1>0, <3>1, SourceAt
    <2>2. pc'[t] = 3
      BY <1>0, <1>3, <2>1, KindsDisjoint DEF SourceProcess, Advance, TypeOK
    <2>3. timeStamp'[t] = timeStamp[t] + 1
      BY <1>0, <1>3 DEF SourceProcess, TypeOK
    <2>4. [s \in Sinks |-> Done(s)]' = [s \in Sinks |-> Done(s)]
      BY <1>1 DEF Done
    <2>5. Stream!Produce
      BY <1>0, <1>3, <2>1, <2>2, <2>3, <2>4 DEF Stream!Produce
    <2> QED
      BY <2>5 DEF Stream!Next
  <1>4. CASE t = src /\ SourceCheck(t)
    <2>1. pc[t] = 4 /\ timeStamp' = timeStamp
      BY <1>4, CheckIsSource DEF SourceCheck
    <2>2. pc'[t] \in {1, 5}
      BY <1>0, <1>4 DEF SourceCheck, TypeOK
    <2>3. CASE pc'[t] = 1
      BY <1>0, <1>1, <1>4, <2>1, <2>3, StreamStutters
    <2>4. CASE pc'[t] = 5
      <3>1. [s \in Sinks |-> Done(s)]' = [s \in Sinks |-> Done(s)]
        BY <1>1 DEF Done
      <3>2. Stream!End
        BY <1>0, <1>4, <2>1, <2>4, <3>1 DEF Stream!End
      <3> QED
        BY <3>2 DEF Stream!Next
    <2> QED
      BY <2>2, <2>3, <2>4
  <1> QED
    BY <1>2, <1>3, <1>4

LEMMA RelayProcessRefines ==
  ASSUME OneClock, TypeOK, MessagesInPlace, NEW t \in Threads, RelayProcess(t)
  PROVE  [Stream!Next]_(Stream!vars)
  <1>0. /\ t \in Relays /\ At(t, "process") /\ ~Mismatch(t)
        /\ src \in Sources /\ src \in Threads /\ src \notin Relays
    BY InputsAgree, KindsDisjoint DEF RelayProcess, OneClock
  <1>1. /\ Advance(t) /\ timeStamp' = timeStamp
        /\ written' = IF t \in Sinks /\ Stamp(t) # 0
                      THEN [written EXCEPT ![t] = Append(@, Stamp(t))] ELSE written
    BY <1>0 DEF RelayProcess
  <1>2. pc'[src] = pc[src]
    BY <1>0, <1>1, OthersStay
  <1>3. pc[t] = Position(t, "process", "-") /\ pc[t] \in 1 .. Last[t] - 1 /\ Last[t] \in Nat
    <2>1. pc[t] \in 1 .. Last[t] /\ Ops[t][pc[t]].do = "process"
      BY <1>0, PcBounds
    <2> QED
      BY <1>0, <2>1, RelayPlaces
  <1>4. ~Done(t) /\ ~Done(t)'
    <2>1. pc'[t] = RelayNext(t)
      BY <1>0, <1>1 DEF Advance, TypeOK
    <2> QED
      BY <1>3, <2>1 DEF RelayNext, Done
  <1>5. \A s \in Sinks : Done(s)' <=> Done(s)
    <2>1. \A s \in Sinks \ {t} : Done(s)' <=> Done(s)
      BY <1>1, SinkFacts, OthersStay DEF Done
    <2> QED
      BY <1>4, <2>1
  <1>6. CASE t \in Sinks /\ Stamp(t) # 0
    <2>1. PICK p \in Ins[t] : Clock[p] = src
      BY <1>6, SinkFacts
    <2>2. IsMessage(src, round[t] + 1, Stamp(t))
      BY <1>0, <2>1, InputsAgree
    <2>3. round[t] \in Nat /\ timeStamp[src] \in Nat /\ written[t] \in Seq(Nat)
      BY <1>6, SinkFacts
    <2>4. round[t] < timeStamp[src] /\ Stamp(t) \in Nat
      BY <1>6, <2>2, <2>3 DEF IsMessage
    <2>5. Len(written[t]) = round[t]
      <3>1. ~Past(t, "process", "-")
        BY <1>3 DEF Past, Been
      <3> QED
        BY <1>4, <1>6, <2>3, <3>1 DEF MessagesInPlace, WrittenInPlace, Bit
    <2>6. /\ Len(written'[t]) = Len(written[t]) + 1
          /\ \A s \in Sinks \ {t} : written'[s] = written[s]
      BY <1>1, <1>6, <2>3, <2>4 DEF TypeOK
    <2>7. [s \in Sinks |-> Len(written[s])]'
            = [[s \in Sinks |-> Len(written[s])] EXCEPT ![t] = @ + 1]
      BY <1>6, <2>6
    <2>8. [s \in Sinks |-> Done(s)]' = [s \in Sinks |-> Done(s)]
      BY <1>5 DEF Done
    <2>9. Stream!Deliver(t)
      BY <1>1, <1>2, <1>4, <1>6, <2>4, <2>5, <2>7, <2>8 DEF Stream!Deliver
    <2> QED
      BY <1>6, <2>9 DEF Stream!Next
  <1>7. CASE ~(t \in Sinks /\ Stamp(t) # 0)
    BY <1>1, <1>2, <1>5, <1>7, StreamStutters
  <1> QED
    BY <1>6, <1>7

LEMMA ResampleProcessRefines ==
  ASSUME OneClock, TypeOK, NEW t \in Threads, ResampleProcess(t)
  PROVE  [Stream!Next]_(Stream!vars)
  <1>0. /\ t \in Resamplers /\ src \in Sources /\ src # t /\ src \in Threads
        /\ \A s \in Sinks : s \in Threads \ {t}
    BY KindsDisjoint DEF ResampleProcess, OneClock
  <1>1. pc'[src] = pc[src] /\ \A s \in Sinks : Done(s)' <=> Done(s)
    BY <1>0, OtherStepOthers DEF Done
  <1>2. timeStamp'[src] = timeStamp[src] /\ written' = written
    BY <1>0 DEF ResampleProcess, TypeOK
  <1> QED
    BY <1>1, <1>2, StreamStutters

LEMMA StreamRefinesInit ==
  ASSUME OneClock, Init
  PROVE  Stream!Init
  <1>1. timeStamp[src] = 0 /\ pc[src] = 1
    BY KindsDisjoint DEF OneClock, Init
  <1>2. ASSUME NEW s \in Sinks
        PROVE  Len(written[s]) = 0 /\ Done(s) = FALSE
    <2>1. written[s] = <<>> /\ pc[s] = 1 /\ s \in Relays
      BY KindsDisjoint DEF Init
    <2>2. Last[s] \in Nat /\ Position(s, "process", "-") \in 1 .. Last[s] - 1
      BY <2>1, RelayPlaces
    <2> QED
      BY <2>1, <2>2 DEF Done
  <1>3. (pc[src] >= 5) = FALSE
    BY <1>1
  <1>4. /\ [s \in Sinks |-> Done(s)] = [s \in Sinks |-> FALSE]
        /\ [s \in Sinks |-> Len(written[s])] = [s \in Sinks |-> 0]
    BY <1>2
  <1> QED
    BY <1>1, <1>3, <1>4 DEF Stream!Init

\* In every network with one clock the threads and their message pools implement
\* the stream of HopStream: each sink writes every hop of the source, once and in
\* order, none before the source stamped it, and is done only after the source is
\* and after the last hop was written.  Whatever modules lie between, whatever
\* the lengths of the pools and the scheduling.
THEOREM Spec_ImplementsStream ==
  ASSUME OneClock
  PROVE  Spec => ImplementsStream
  <1>1. Init => Stream!Init
    BY StreamRefinesInit
  <1>2. ASSUME TypeOK, TypeOK', MessagesInPlace, StreamEnds', [Next]_vars
        PROVE  [Stream!Next]_(Stream!vars)
    <2>1. ASSUME NEW t \in Threads, Step(t)
          PROVE  [Stream!Next]_(Stream!vars)
      <3>1. CASE PopFilled(t) \/ PushEmpty(t) \/ PopEmpty(t) \/ PushFilled(t)
        BY <1>2, <3>1, PoolSteps, PoolStepRefines
      <3>2. CASE SourceProcess(t) \/ SourceCheck(t)
        BY <1>2, <3>2, SourceRefines
      <3>3. CASE RelayProcess(t)
        BY <1>2, <3>3, RelayProcessRefines
      <3>4. CASE ResampleProcess(t)
        BY <1>2, <3>4, ResampleProcessRefines
      <3> QED
        BY <2>1, <3>1, <3>2, <3>3, <3>4 DEF Step
    <2>2. ASSUME UNCHANGED <<pc, timeStamp, written>>
          PROVE  UNCHANGED Stream!vars
      BY <2>2, StreamStutters DEF Done
    <2>3. CASE \E t \in Sources : StopSource(t)
      BY <2>2, <2>3 DEF StopSource
    <2>4. CASE UNCHANGED vars
      BY <2>2, <2>4 DEF vars
    <2> QED
      BY <1>2, <2>1, <2>3, <2>4 DEF Next, Terminated
  <1> QED
    BY <1>1, <1>2, Spec_TypeOK, Spec_MessagesInPlace, Spec_StreamEnds, PTL
       DEF Spec, ImplementsStream, Stream!Spec

=============================================================================
